------------------------------ MODULE Journal -------------------------------
(***************************************************************************)
(* What an error log promises to whoever reads its file: each write is the *)
(* beginning of the current batch of reports, in the order they were made. *)
(* A batch ends when it has been written, and the next report begins a new *)
(* one; until then a further flush may write it again.  What does not fit  *)
(* in a write is lost.  Before the first report the batch is one piece of  *)
(* whatever memory held.                                                   *)
(***************************************************************************)
EXTENDS Naturals, Sequences, SequencesExt

CONSTANTS
  Reports,   (* what can be reported                                       *)
  Leftovers  (* what fresh memory may hold                                 *)

VARIABLES
  open,      (* is there a journal                                         *)
  batch,     (* the reports the next flush writes                          *)
  settled,   (* the batch has been written                                 *)
  wrote      (* what the last call wrote                                   *)

journalVars == <<open, batch, settled, wrote>>

Init == ~open /\ batch = <<>> /\ settled = TRUE /\ wrote = <<>>

Open ==
  /\ ~open
  /\ open' = TRUE /\ settled' = TRUE /\ wrote' = <<>>
  /\ \E x \in Leftovers : batch' = <<x>>

Report ==
  /\ open
  /\ batch' # <<>> /\ Last(batch') \in Reports
  /\ Front(batch') = IF settled THEN <<>> ELSE batch
  /\ settled' = FALSE /\ wrote' = <<>>
  /\ UNCHANGED open

Flush ==
  /\ open
  /\ \E n \in 0 .. Len(batch) : wrote' = SubSeq(batch, 1, n)
  /\ settled' = TRUE
  /\ UNCHANGED <<open, batch>>

(* A call that is refused, or a write that fails. *)
Refuse == wrote' = <<>> /\ UNCHANGED <<open, batch, settled>>

Close == open' = FALSE /\ batch' = <<>> /\ settled' = TRUE /\ wrote' = <<>>

Next ==
  \/ Open
  \/ Report
  \/ Flush
  \/ Refuse
  \/ Close

Spec == Init /\ [][Next]_journalVars
=============================================================================
