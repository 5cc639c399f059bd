-------------------------------- MODULE Mutex --------------------------------
(***************************************************************************)
(* What InterProcessLock promises for one path: at any time one thread, of *)
(* any process, is inside, however deep it nests.                           *)
(***************************************************************************)
CONSTANTS Thread, Nobody

VARIABLE inside

MutexInit == inside = Nobody

Enter(t) == inside = Nobody /\ inside' = t
Leave(t) == inside = t /\ inside' = Nobody

MutexSpec == MutexInit /\ [][\E t \in Thread : Enter(t) \/ Leave(t)]_inside
=============================================================================
