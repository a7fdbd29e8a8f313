----------------------------- MODULE MCMlsSync -----------------------------
(***************************************************************************)
(* Instances of MlsSync for TLC: A's devices a1 and a2 and B's device b1.  *)
(* A accepted the invite, so a1 and a2 may create the group.               *)
(***************************************************************************)
EXTENDS MlsSyncProps

CONSTANTS A, B, a1, a2, b1

Both == {A, B}

MCRevocable == [k \in Kinds |-> {a2}]
MCAckers == [k \in Kinds |-> {}]
MCDeleters == [k \in Kinds |-> {}]
OwnerOf == [d \in Device |-> IF d \in {a1, a2} THEN A ELSE B]

Quiet == [established |-> TRUE, packaged |-> {a2, b1}, senders |-> {}, removers |-> {},
          revocable |-> {}, watchers |-> {}, sends |-> 0, faults |-> {}, budget |-> 0,
          rows |-> 3]

(* Two users send, while a tab crashes, an answer or a socket is lost. *)
Sending == [Quiet EXCEPT !.senders = {a1, b1}, !.sends = 3,
                         !.faults = {"crash", "timeout", "drop"}, !.budget = 1]
(* A device is revoked and its leaf removed while the friend sends. *)
Removing == [Quiet EXCEPT !.senders = {b1}, !.sends = 3, !.removers = {a1},
                          !.revocable = {a2}, !.rows = 4]
(* A's devices race to found a group, and one of them sends at once ... *)
Founding == [Quiet EXCEPT !.established = FALSE, !.senders = {a1},
                          !.sends = 2, !.watchers = {b1}]
(* ... or a socket drops. *)
Racing == [Quiet EXCEPT !.established = FALSE, !.watchers = {a1}, !.faults = {"drop"},
                        !.budget = 1, !.rows = 2]

SafetyLoads == {Sending, Removing}
FoundingLoads == {Founding, Racing}

(* The friends send at once. *)
TalkingLoads == {[Sending EXCEPT !.packaged = {b1}, !.sends = 2, !.faults = {}, !.budget = 0]}
=============================================================================
