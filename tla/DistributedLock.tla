-------------------------- MODULE DistributedLock --------------------------
(***************************************************************************)
(* The Redis lock of packages/cache/src/distributed-lock.ts for ONE key:   *)
(* SET NX PX with a random token, and a compare-and-delete script.  The    *)
(* token a release compares is not carried by the caller: each process     *)
(* remembers one token per key (heldLockTokens), whoever acquired it last. *)
(*                                                                         *)
(* The token of a call is identified with the client that makes it; a      *)
(* client has at most one call in progress.                                *)
(***************************************************************************)
EXTENDS Naturals, FiniteSets

CONSTANTS Client,          \* requests that take the lock
          Process,         \* server processes, each with its own token map
          ProcessOf,       \* the process that serves a client
          NoClient,
          LostToken        \* a token no process remembers

ASSUME ClientAssumption ==
    /\ IsFiniteSet(Client)
    /\ ProcessOf \in [Client -> Process]
    /\ NoClient \notin Client
    /\ LostToken \notin Client \cup {NoClient}

VARIABLES lock,            \* the token stored under the key in Redis
          held             \* heldLockTokens: what each process remembers

lockVars == <<lock, held>>

LockInit ==
    /\ lock = NoClient
    /\ held = [p \in Process |-> NoClient]

(* Not the code: SET without NX. *)
AcquireAnyway(c) ==
    /\ lock' = c
    /\ held' = [held EXCEPT ![ProcessOf[c]] = c]

(* Not the code: the token is the name of the process, the same for all its calls. *)
AcquireAsProcess(c) ==
    /\ lock = NoClient
    /\ lock' = ProcessOf[c]
    /\ held' = [held EXCEPT ![ProcessOf[c]] = ProcessOf[c]]

(* The SET NX succeeds and the process remembers the token. *)
Acquire(c) ==
    /\ lock = NoClient
    /\ lock' = c
    /\ held' = [held EXCEPT ![ProcessOf[c]] = c]

(* The SET NX is executed and its answer lost: nobody remembers the token. *)
AcquireUnanswered ==
    /\ lock = NoClient
    /\ lock' = LostToken
    /\ UNCHANGED held

(* Not the code: DEL whatever the key holds. *)
UnlockBlindly(c) ==
    /\ lock' = NoClient
    /\ UNCHANGED held

(* The script deletes the key when it holds the remembered token; without a *)
(* remembered token there is nothing to compare and nothing is sent.        *)
Unlock(c) ==
    /\ lock' = IF held[ProcessOf[c]] # NoClient /\ lock = held[ProcessOf[c]]
               THEN NoClient ELSE lock
    /\ UNCHANGED held

(* The process forgets the key, after the script has answered. *)
Forget(c) ==
    /\ held' = [held EXCEPT ![ProcessOf[c]] = NoClient]
    /\ UNCHANGED lock

(* The TTL of the key ends. *)
LockExpires ==
    /\ lock # NoClient
    /\ lock' = NoClient
    /\ UNCHANGED held
=============================================================================
