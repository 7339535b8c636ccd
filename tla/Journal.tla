------------------------------- MODULE Journal ------------------------------
(***************************************************************************)
(* What a log file promises.  It begins anew with every run that opens it. *)
(* What has been kept is the beginning of what has been said, in order,    *)
(* however the run ends; what was not kept by then has never been said.    *)
(***************************************************************************)
EXTENDS Naturals, Sequences

CONSTANT Message

VARIABLES
    said,   \* everything since the file was opened, in order
    kept    \* how much of it is in the file

journal == <<said, kept>>

JournalInit == said = << >> /\ kept = 0

Open   == said' = << >> /\ kept' = 0
Say    == (\E m \in Message : said' = Append(said, m)) /\ UNCHANGED kept
Keep   == kept' \in (kept + 1)..Len(said) /\ UNCHANGED said
Forget == said' = SubSeq(said, 1, kept) /\ UNCHANGED kept

JournalNext == Open \/ Say \/ Keep \/ Forget

JournalSpec == JournalInit /\ [][JournalNext]_journal
=============================================================================
