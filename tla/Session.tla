------------------------------- MODULE Session -------------------------------
(***************************************************************************)
(* The session of one process with Supabase: the token SupabaseRpcClient   *)
(* (storage/supabase.py) keeps for the RPCs and lends to the artwork store *)
(* (artwork/supabase.py).  The thread of the tick, its LeaseRenewer and    *)
(* the threads that serve the API use it at the same time.                 *)
(*                                                                         *)
(* _authenticate looks at the token and signs in under _auth_lock, and     *)
(* access_token forgets it under the lock; _rpc forgets it without.  A     *)
(* sign-in and a request are the places where a thread waits for the       *)
(* network; what a thread does between two of them is one step (the        *)
(* interpreter switches threads at calls only).                            *)
(***************************************************************************)
EXTENDS Naturals, FiniteSets, FiniteSetsExt

CONSTANTS
  Threads,      \* the threads of the process
  Storing,      \* those that also store artwork
  Nobody,       \* the lock is free
  MaxExpiries,  \* bound: tokens Supabase ceases to accept
  MaxFaults     \* bound: requests and sign-ins that fail otherwise

ASSUME SessionAssumption ==
  /\ Storing \subseteq Threads
  /\ Nobody \notin Threads
  /\ IsFiniteSet(Threads)
  /\ MaxExpiries \in Nat
  /\ MaxFaults \in Nat

VARIABLES
  token,     \* _access_token, 0 when it is None
  lock,      \* who holds _auth_lock
  issued,    \* tokens issued so far: they are numbered
  expired,   \* those no longer accepted
  caller,    \* thread -> its call
  refused,   \* thread -> how often it was answered 401
  faults     \* failures so far

vars == <<token, lock, issued, expired, caller, refused, faults>>

\* An RPC, one of the two that are repeated after a failure (submit_run,
\* materialize), a request to Storage, repeated with a new token after a 401.
Calls == {"once", "repeated", "storage"}
CallsOf(t) == IF t \in Storing THEN Calls ELSE {"once"}

\* second: this is the second try of the call, denied: the first was answered 401;
\* old counts the tokens issued when it began.  "lost" is a call answered 401 twice.
Steps == {"idle", "enter", "signin", "request", "forget", "lost"}

NoCall == [pc |-> "idle", call |-> "once", used |-> 0, second |-> FALSE, denied |-> FALSE,
           old |-> 0]

MaxTokens == 1 + 2 * MaxExpiries * Cardinality(Threads)

TypeOK ==
  /\ issued \in 0..MaxTokens
  /\ token \in 0..issued
  /\ lock \in Threads \cup {Nobody}
  /\ expired \subseteq 1..issued
  /\ caller \in [Threads -> [pc : Steps, call : Calls, used : 0..issued,
                             second : BOOLEAN, denied : BOOLEAN, old : 0..issued]]
  /\ refused \in [Threads -> 0..2 * MaxExpiries]
  /\ faults \in 0..MaxFaults
  /\ \A t \in Threads : caller[t].pc = "signin" <=> lock = t

Init ==
  /\ token = 0
  /\ lock = Nobody
  /\ issued = 0
  /\ expired = {}
  /\ caller = [t \in Threads |-> NoCall]
  /\ refused = [t \in Threads |-> 0]
  /\ faults = 0

-----------------------------------------------------------------------------
At(t, step) == caller[t].pc = step
Goto(t, step) == caller' = [caller EXCEPT ![t].pc = step]
Return(t) == caller' = [caller EXCEPT ![t] = NoCall]
Lost(t) == IF caller[t].denied THEN Goto(t, "lost") ELSE Return(t)
Fault == faults < MaxFaults /\ faults' = faults + 1

\* ProviderUnavailable: the calls that are repeated begin anew, once.
Fails(t) ==
  IF caller[t].call = "repeated" /\ ~caller[t].second
  THEN caller' = [caller EXCEPT ![t].pc = "enter", ![t].second = TRUE]
  ELSE Return(t)

Begin(t) ==
  /\ At(t, "idle") \/ At(t, "lost")
  /\ \E c \in CallsOf(t) :
       caller' = [caller EXCEPT ![t] = [NoCall EXCEPT !.pc = "enter", !.call = c,
                                                      !.old = IF c = "once" THEN 0 ELSE issued]]
  /\ UNCHANGED <<token, lock, issued, expired, refused, faults>>

\* Mutant: whoever gets the lock signs in.
NeverCached == FALSE
Cached == token # 0

\* _authenticate, once it has the lock: a token that is there is used ...
Enter(t) ==
  /\ At(t, "enter")
  /\ lock = Nobody
  /\ IF Cached
     THEN /\ caller' = [caller EXCEPT ![t].pc = "request", ![t].used = token]
          /\ UNCHANGED lock
     ELSE Goto(t, "signin") /\ lock' = t
  /\ UNCHANGED <<token, issued, expired, refused, faults>>

\* Mutant: a sign-in that fails keeps the lock.
KeepLock == UNCHANGED lock
Release == lock' = Nobody

\* ... or else the thread signs in before it lets go of the lock.
SignIn(t) ==
  /\ At(t, "signin")
  /\ issued' = issued + 1
  /\ token' = issued + 1
  /\ lock' = Nobody
  /\ caller' = [caller EXCEPT ![t].pc = "request", ![t].used = issued + 1]
  /\ UNCHANGED <<expired, refused, faults>>

SignInFails(t) ==
  /\ At(t, "signin")
  /\ Fault
  /\ Fails(t)
  /\ Release
  /\ UNCHANGED <<token, issued, expired, refused>>

\* The request is answered, whatever with, or not.
Answered(t) ==
  /\ At(t, "request")
  /\ caller[t].used \notin expired
  /\ \/ Return(t) /\ UNCHANGED faults
     \/ Fails(t) /\ Fault
  /\ UNCHANGED <<token, lock, issued, expired, refused>>

\* Mutant: the token of a session that is over is kept.
KeepToken(t) == UNCHANGED token
ForgetToken(t) == token' = 0

\* 401 to an RPC: the token is forgotten, whichever it is by now and whoever may
\* have the lock, and the call fails.
RpcRefused(t) ==
  /\ At(t, "request")
  /\ caller[t].used \in expired
  /\ caller[t].call # "storage"
  /\ refused' = [refused EXCEPT ![t] = @ + 1]
  /\ ForgetToken(t)
  /\ IF caller[t].call = "repeated" /\ ~caller[t].second
     THEN caller' = [caller EXCEPT ![t].pc = "enter", ![t].second = TRUE, ![t].denied = TRUE]
     ELSE Lost(t)
  /\ UNCHANGED <<lock, issued, expired, faults>>

\* 401 to a request to Storage: the first time access_token(refresh) is asked, the
\* second time the answer is returned and the session keeps the token.
StorageRefused(t) ==
  /\ At(t, "request")
  /\ caller[t].used \in expired
  /\ caller[t].call = "storage"
  /\ refused' = [refused EXCEPT ![t] = @ + 1]
  /\ IF caller[t].second THEN Lost(t) ELSE Goto(t, "forget")
  /\ UNCHANGED <<token, lock, issued, expired, faults>>

Refresh(t) ==
  /\ At(t, "forget")
  /\ lock = Nobody
  /\ ForgetToken(t)
  /\ caller' = [caller EXCEPT ![t].pc = "enter", ![t].second = TRUE, ![t].denied = TRUE]
  /\ UNCHANGED <<lock, issued, expired, refused, faults>>

Expire ==
  /\ Cardinality(expired) < MaxExpiries
  /\ \E n \in (1..issued) \ expired : expired' = expired \cup {n}
  /\ UNCHANGED <<token, lock, issued, caller, refused, faults>>

CallStep(t) ==
  \/ Enter(t) \/ SignIn(t) \/ SignInFails(t) \/ Answered(t)
  \/ RpcRefused(t) \/ StorageRefused(t) \/ Refresh(t)

Next == Expire \/ \E t \in Threads : Begin(t) \/ CallStep(t)

Spec == Init /\ [][Next]_vars

\* A request returns or times out.  Nothing is assumed of the order in which the
\* lock is handed over, nor that a thread that waits gets it before others do.
FairSpec == Spec /\ \A t \in Threads : WF_vars(CallStep(t))

-----------------------------------------------------------------------------
\* An expired token costs a thread one refused call, and one more only where the
\* store was refused twice and left the token in the session, in whatever order the
\* answers arrive and whosever token they make _rpc forget.
RefusalsBounded ==
  \A t \in Threads :
    refused[t] <= (IF t \in Storing THEN 2 ELSE 1) * Cardinality(expired)

\* Every sign-in after the first is owed to a refusal: threads that wait for the
\* lock together do not each sign in, and the token that is forgotten without the
\* lock costs one sign-in for each refusal and never more.
SignInsOwed == issued <= 1 + FoldSet(LAMBDA t, n : refused[t] + n, 0, Threads)

\* A call that was answered 401 and tried again is lost on another 401 only when a
\* second token expired while it was under way: one issued after it had begun.
SecondTryIsFresh ==
  \A t \in Threads : At(t, "lost") => caller[t].used > caller[t].old

\* No call waits for ever for the session, although the lock is not fair.
CallEnds == \A t \in Threads : caller[t].pc \in {"enter", "signin", "forget", "request"}
                                 ~> caller[t].pc \in {"idle", "lost"}
=============================================================================
