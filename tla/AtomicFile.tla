----------------------------- MODULE AtomicFile -----------------------------
(***************************************************************************)
(* What a saved file promises its callers, as a register that many clients *)
(* write and read: a save takes effect in one step between its call and    *)
(* its answer, a client is told of success only after that, and a reader   *)
(* sees the document that the file held when it opened it.  A client whose *)
(* save fails is not told whether it took effect.                          *)
(***************************************************************************)
CONSTANTS Writers, Readers, Documents, None

VARIABLES
  file,     \* what the file holds
  saving,   \* each client's save
  seen      \* what each reader sees

Idle == [at |-> "idle", document |-> None]

Init ==
  /\ file = None
  /\ saving = [w \in Writers |-> Idle]
  /\ seen = [r \in Readers |-> None]

Begin(w, d) ==
  /\ saving[w].at \in {"idle", "told"}
  /\ saving' = [saving EXCEPT ![w] = [at |-> "saving", document |-> d]]
  /\ UNCHANGED <<file, seen>>

Save(w) ==
  /\ saving[w].at = "saving"
  /\ file' = saving[w].document
  /\ saving' = [saving EXCEPT ![w].at = "saved"]
  /\ UNCHANGED seen

Tell(w) ==
  /\ saving[w].at = "saved"
  /\ saving' = [saving EXCEPT ![w] = [Idle EXCEPT !.at = "told"]]
  /\ UNCHANGED <<file, seen>>

GiveUp(w) ==
  /\ saving[w].at \in {"saving", "saved"}
  /\ saving' = [saving EXCEPT ![w] = Idle]
  /\ UNCHANGED <<file, seen>>

Clear == file' = None /\ UNCHANGED <<saving, seen>>

Open(r) ==
  /\ seen[r] = None
  /\ seen' = [seen EXCEPT ![r] = file]
  /\ UNCHANGED <<file, saving>>

Close(r) ==
  /\ seen' = [seen EXCEPT ![r] = None]
  /\ UNCHANGED <<file, saving>>

Next ==
  \/ \E w \in Writers :
       Save(w) \/ Tell(w) \/ GiveUp(w) \/ \E d \in Documents : Begin(w, d)
  \/ \E r \in Readers : Open(r) \/ Close(r)
  \/ Clear

Spec == Init /\ [][Next]_<<file, saving, seen>>
=============================================================================
