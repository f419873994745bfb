----------------------------- MODULE WriteOnce ------------------------------
(* What a store of write-once values promises to the callers that race for a
   key: a key gets one value and keeps it, and whoever is told of a value is told
   the one the key has.  A value may be there of which nobody was told: its
   caller was lost, or got an error. *)

VARIABLES
  entries,  \* the keys that have a value: records [key, value]
  answers   \* what callers were told, records of the same kind

Init == entries = {} /\ answers = {}

Write(e) ==
  /\ entries' = entries \cup {e}
  /\ \A f \in entries : f.key # e.key
  /\ UNCHANGED answers

Answer(e) ==
  /\ answers' = answers \cup {e}
  /\ UNCHANGED entries

Next ==
  \/ \E e \in entries' \ entries : Write(e)
  \/ \E e \in entries \ answers : Answer(e)

Spec == Init /\ [][Next]_<<entries, answers>>
=============================================================================
