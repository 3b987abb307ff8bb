------------------------------ MODULE SpotFeed ------------------------------
(***************************************************************************)
(* What the hub promises to everything that sits behind it, and nothing    *)
(* about how: there is one log of accepted spots, it only grows, it never  *)
(* holds two spots for the same callsign and frequency closer together     *)
(* than the dedup window, and every subscriber walks forward through it -  *)
(* possibly skipping entries (a slow subscriber loses spots) but never     *)
(* seeing one twice, out of order, or before it was accepted.  Module Hub  *)
(* implements this specification.                                          *)
(***************************************************************************)
EXTENDS Naturals, Sequences

CONSTANTS Key,      \* (callsign, frequency) pairs: what a duplicate is
          Stream,   \* the kinds of source a spot can come from
          Sub,      \* subscriber channels
          Window,   \* length of the dedup window, in clock ticks
          MaxTime   \* bound on the clock

VARIABLES log,      \* accepted spots, oldest first, with their time
          cursor    \* cursor[s]: position in log of the last spot s was given

feedVars == <<log, cursor>>

Entry == [key : Key, stream : Stream, at : Nat]

FeedInit ==
  /\ log = <<>>
  /\ cursor = [s \in Sub |-> 0]

\* No entry of the log with the same key lies within the window ending at t.
Fresh(k, t) == \A i \in 1..Len(log) : log[i].key = k => log[i].at + Window <= t

\* A spot is accepted: time does not run backwards and its key is fresh.
Accept ==
  \E k \in Key, st \in Stream, t \in 0..MaxTime :
    /\ \A i \in 1..Len(log) : log[i].at <= t
    /\ Fresh(k, t)
    /\ log' = Append(log, [key |-> k, stream |-> st, at |-> t])
    /\ UNCHANGED cursor

\* A subscriber starts at the present, or is given a later spot of the log.
Advance ==
  \E s \in Sub : \E i \in cursor[s]..Len(log) :
    /\ cursor' = [cursor EXCEPT ![s] = i]
    /\ UNCHANGED log

FeedNext == Accept \/ Advance

FeedSpec == FeedInit /\ [][FeedNext]_feedVars
=============================================================================
