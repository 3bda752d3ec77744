-------------------------- MODULE MutationContract ---------------------------
(***************************************************************************)
(* What DockerBackendInterface promises about write operations: a write is *)
(* answered by mutationFinished(), never before it was asked for and never *)
(* more often than it was asked for, and in the end every one is answered. *)
(* One step of the backend may answer several writes at once.              *)
(***************************************************************************)
EXTENDS Naturals

CONSTANT Targets        \* the target keys of write operations

VARIABLES
    issued,             \* writes asked for, by target
    answered            \* mutationFinished() signals, by target

contractVars == <<issued, answered>>

ContractInit ==
    /\ issued = [t \in Targets |-> 0]
    /\ answered = [t \in Targets |-> 0]

Issue(t) ==
    /\ issued' = [issued EXCEPT ![t] = @ + 1]
    /\ UNCHANGED answered

\* A step of the backend answers any number of the writes that wait.
Answer ==
    /\ answered' \in [Targets -> Nat]
    /\ \A t \in Targets : answered[t] <= answered'[t] /\ answered'[t] <= issued[t]
    /\ UNCHANGED issued

ContractNext == Answer \/ \E t \in Targets : Issue(t)

ContractSpec == ContractInit /\ [][ContractNext]_contractVars

\* No write waits for ever.
AllAnswered == \A t \in Targets : answered[t] < issued[t] ~> answered[t] = issued[t]
=============================================================================
