------------------------------ MODULE SpotLine ------------------------------
(***************************************************************************)
(* The line a spot is shown as (FormatDXCluster in spot.go) and what the   *)
(* desktop client reads out of it when the line is double-clicked          *)
(* (audiotune.go): the frequency and the mode to tune to.  The comment is  *)
(* the sequence of its words; "N" stands for a number, "T" for a time such *)
(* as 1748Z.  Frequencies are in Hz.                                       *)
(***************************************************************************)
EXTENDS Integers, Sequences

CONSTANTS Spots,    \* spots that are on the screen
          Truncated \* multiples of 100 Hz that int(freqKHz * 1000) makes 1 Hz less

Has(comment, word) == \E i \in 1..Len(comment) : comment[i] = word

\* The modes are those of StreamModes, and the comments that CW Skimmer and
\* the SSTV addon write to a spot that is not CW name no speed in WPM; what
\* users write is any text.
Skimmed(s) ==
  \/ s.stream = "decoder" /\ s.mode \in {"FT8", "FT4", "WSPR", "JS8", "FT2"}
  \/ s.stream = "cwskimmer" /\ s.mode = "CW"
  \/ s.stream = "cwskimmer" /\ s.mode \in {"RTTY", "JTTY"} /\ ~Has(s.text, "WPM")
  \/ s.stream = "voice" /\ s.mode \in {"USB", "LSB"}
  \/ s.stream = "sstv" /\ s.text # <<>> /\ s.text[1] = "SSTV" /\ ~Has(s.text, "WPM")

ASSUME LineAssumption ==
  \A s \in Spots :
    /\ s.hz \in Nat /\ s.text \in Seq(STRING)
    /\ s.stream = "cluster" \/ Skimmed(s)

-----------------------------------------------------------------------------
(* spot.go.                                                                *)

StripTrailingTime(text) ==
  IF text # <<>> /\ text[Len(text)] = "T" THEN SubSeq(text, 1, Len(text) - 1) ELSE text

SpeedUnit(s) == IF s.mode \in {"RTTY", "JTTY"} THEN "BPS" ELSE "WPM"

Comment(s) ==
  CASE s.stream = "decoder" -> <<s.mode, "N", "dB">>
    [] s.stream = "cwskimmer" -> <<"N", "dB", "N", SpeedUnit(s)>> \o s.text
    [] s.stream = "voice" -> <<s.mode, "N", "dB">>
    [] s.stream = "sstv" -> s.text \o <<"N", "dB">>
    [] s.stream = "cluster" ->
         IF StripTrailingTime(s.text) = <<>> THEN <<"DX">> ELSE StripTrailingTime(s.text)

\* %8.1f of the frequency in kHz.
FormatDXCluster(s) == [hz |-> ((s.hz + 50) \div 100) * 100, comment |-> Comment(s)]

-----------------------------------------------------------------------------
(* client/audiotune.go.                                                    *)

\* digitalCommentRe
Digital(comment) == Len(comment) >= 3 /\ comment[2] = "N" /\ comment[3] = "dB"

\* The limit of the sideband convention.
TenMHz == 10000000

BySideband(hz) == IF hz >= TenMHz THEN "usb" ELSE "lsb"

NoMode == ""

\* The tests in their order; no mode for a digital spot.
ModeFromSpotLine(hz, comment) ==
  IF Has(comment, "WPM") THEN IF hz >= TenMHz THEN "cwu" ELSE "cwl"
  ELSE IF comment[1] = "USB" THEN "usb"
  ELSE IF comment[1] = "LSB" THEN "lsb"
  ELSE IF comment[1] = "SSTV" THEN BySideband(hz)
  ELSE IF Digital(comment) THEN NoMode
  ELSE BySideband(hz)

\* What a line says to tune to.
ParseSpotLine(line) ==
  [hz |-> IF line.hz \in Truncated THEN line.hz - 1 ELSE line.hz,
   mode |-> ModeFromSpotLine(line.hz, line.comment)]
=============================================================================
