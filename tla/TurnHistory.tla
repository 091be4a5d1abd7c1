------------------------------ MODULE TurnHistory ------------------------------
(***************************************************************************)
(* What the translation of a transcript promises its reader: turns are     *)
(* recorded in order, and a turn that waits for its translation gets the   *)
(* translation of its own text, or an error, once.  There is no queue, no  *)
(* worker, no merging of requests and no cache.                            *)
(***************************************************************************)
EXTENDS Naturals, Sequences

CONSTANTS
  Keys,      (* a text to translate with the settings to translate it with  *)
  NoText     (* what is shown instead of a translation: an error            *)

VARIABLE turns

Turn == [key : Keys, status : {"not_requested", "pending", "complete"}, text : Keys \cup {NoText}]

AInit == turns = <<>>

Record ==
  \E t \in Turn :
    /\ t.text \in IF t.status = "complete" THEN {t.key, NoText} ELSE {NoText}
    /\ turns' = Append(turns, t)

\* Several turns may be settled at once: those of one text, those of one frame.
Settle ==
  /\ DOMAIN turns' = DOMAIN turns
  /\ turns' \in Seq(Turn)
  /\ \A i \in DOMAIN turns :
       \/ turns'[i] = turns[i]
       \/ /\ turns[i].status = "pending"
          /\ turns'[i].key = turns[i].key
          /\ turns'[i].status = "complete"
          /\ turns'[i].text \in {turns[i].key, NoText}

\* Another story is opened, or this one restarted.
Clear == turns' = <<>>

ANext == Record \/ Settle \/ Clear

ASpec == AInit /\ [][ANext]_turns
=============================================================================
