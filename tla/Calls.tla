------------------------------- MODULE Calls -------------------------------
(***************************************************************************)
(* API calls and background jobs that run at the same time.  The API has   *)
(* no lock of its own: a call reads rows, decides, and writes in separate  *)
(* statements, each committed by itself unless a $transaction holds them.  *)
(* calls[h] is where call h stands between two statements, with what it    *)
(* has read; the reads at the head of a call are one step.  calm is TRUE   *)
(* as long as no two calls overlapped and none was lost half-way, so that  *)
(* a property "calm => P" is about calls made one after the other.         *)
(***************************************************************************)
EXTENDS Integers, FiniteSets, TLC

CONSTANTS
    Handlers,   \* bounds the calls that run at the same time
    MaxCalls    \* bounds the calls of one behaviour

ASSUME CallsAssumption == MaxCalls \in Nat

VARIABLES
    calls,   \* the calls under way
    calm,    \* no two overlapped, none was lost
    made     \* how many were made

callVars == <<calls, calm, made>>

Idle == [pc |-> "idle"]
Running == {h \in Handlers : calls[h] # Idle}
Quiet == Running = {}

CallsInit == calls = [h \in Handlers |-> Idle] /\ calm = TRUE /\ made = 0

(* A call starts, goes on, and ends. *)
Counted ==
    /\ made < MaxCalls /\ made' = made + 1
    /\ calm' = (calm /\ Quiet)
Begin(h, c) ==
    /\ calls[h] = Idle
    /\ calls' = [calls EXCEPT ![h] = c]
    /\ Counted
Continue(h, c) == calls' = [calls EXCEPT ![h] = c] /\ UNCHANGED <<calm, made>>
Finish(h) == Continue(h, Idle)

(* A call of one statement or one transaction. *)
AtOnce == Counted /\ UNCHANGED calls

(* The process is lost or the database refuses a statement: what the call   *)
(* has committed stays.                                                     *)
Lose(h) ==
    /\ calls[h] # Idle
    /\ calls' = [calls EXCEPT ![h] = Idle]
    /\ calm' = FALSE
    /\ UNCHANGED made
=============================================================================
