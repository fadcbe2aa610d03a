---------------------------- MODULE SessionProofs ----------------------------
(***************************************************************************)
(* Proofs about Session for every finite set of threads: a call tried      *)
(* again after a 401 uses a token issued since it began; an expired token  *)
(* is refused to a thread once, or twice where Storage leaves it in the    *)
(* session; and every sign-in after the first is owed to a refusal.        *)
(***************************************************************************)
EXTENDS Session, Counting

\* Types, without the bounds of the model.
Calling == [pc : Steps, call : Calls, used : Nat, second : BOOLEAN, denied : BOOLEAN,
            old : Nat]

Typed ==
  /\ issued \in Nat
  /\ token \in 0..issued
  /\ lock \in Threads \cup {Nobody}
  /\ caller \in [Threads -> Calling]

\* A call that was refused once holds, or will find in the session, nothing but a token
\* issued after it began; until then it has not been refused.
TriedAgain(t) ==
  /\ caller[t].old <= issued
  /\ caller[t].used <= issued
  /\ At(t, "lost") => caller[t].denied
  /\ caller[t].denied =>
       /\ caller[t].pc \in {"enter", "signin"} => token = 0 \/ token > caller[t].old
       /\ caller[t].pc \in {"request", "lost"} => caller[t].used > caller[t].old
       /\ caller[t].pc # "forget"
       /\ caller[t].second

IInv == Typed /\ \A t \in Threads : TriedAgain(t)

USE DEF At, Goto, Return, Lost, Fails, Fault

\* The initial state.
LEMMA InitHolds == Init => IInv
  BY SessionAssumption
  DEF Init, IInv, Typed, TriedAgain, NoCall, Calling, Steps, Calls

\* What a call does to the types.
LEMMA TypedStep ==
  ASSUME IInv, Next
  PROVE  Typed'
<1>a. /\ {"idle", "enter", "signin", "request", "forget", "lost"} \subseteq Steps
      /\ "once" \in Calls
  BY DEF Steps, Calls
<1>b. NoCall \in Calling
  BY DEF Steps, Calls, Calling, NoCall
<1> USE SessionAssumption, <1>a, <1>b DEF IInv, Typed, Calling
<1>1. CASE Expire
  BY <1>1 DEF Expire
<1>2. ASSUME NEW t \in Threads, Begin(t) \/ CallStep(t)
      PROVE  Typed'
  <2>1. CASE Begin(t)
    <3> PICK c \in CallsOf(t) :
          caller' = [caller EXCEPT ![t] = [NoCall EXCEPT !.pc = "enter", !.call = c,
                                        !.old = IF c = "once" THEN 0 ELSE issued]]
      BY <2>1 DEF Begin
    <3>1. c \in Calls
      BY DEF CallsOf, Calls
    <3>2. [NoCall EXCEPT !.pc = "enter", !.call = c,
                         !.old = IF c = "once" THEN 0 ELSE issued] \in Calling
      BY <3>1
    <3> QED
      BY <2>1, <3>2 DEF Begin
  <2>2. CASE Enter(t)
    BY <2>2 DEF Enter
  <2>3. CASE SignIn(t)
    <3>1. [caller[t] EXCEPT !.pc = "request", !.used = issued + 1] \in Calling
      <4>1. caller[t] \in Calling /\ issued + 1 \in Nat
        OBVIOUS
      <4> QED
        BY <4>1
    <3>2. caller' = [caller EXCEPT ![t] = [caller[t] EXCEPT !.pc = "request",
                                                          !.used = issued + 1]]
      BY <2>3 DEF SignIn
    <3> QED
      BY <2>3, <3>1, <3>2 DEF SignIn
  <2>4. CASE SignInFails(t)
    BY <2>4 DEF SignInFails, Release
  <2>5. CASE Answered(t)
    BY <2>5 DEF Answered
  <2>6. CASE RpcRefused(t)
    BY <2>6 DEF RpcRefused, ForgetToken
  <2>7. CASE StorageRefused(t)
    BY <2>7 DEF StorageRefused
  <2>8. CASE Refresh(t)
    <3>1. [caller[t] EXCEPT !.pc = "enter", !.second = TRUE, !.denied = TRUE] \in Calling
      OBVIOUS
    <3>2. caller' = [caller EXCEPT ![t] = [caller[t] EXCEPT !.pc = "enter",
                                             !.second = TRUE, !.denied = TRUE]]
      BY <2>8 DEF Refresh
    <3> QED
      BY <2>8, <3>1, <3>2 DEF Refresh, ForgetToken
  <2> QED
    BY <1>2, <2>1, <2>2, <2>3, <2>4, <2>5, <2>6, <2>7, <2>8 DEF CallStep
<1> QED
  BY <1>1, <1>2 DEF Next

\* Of the thread that steps and of any other: a token that is set is the newest.
LEMMA TriedAgainStep ==
  ASSUME IInv, Next, NEW u \in Threads
  PROVE  TriedAgain(u)'
<1> USE SessionAssumption DEF IInv, Typed, Calling, Steps, Calls, TriedAgain
<1>1. CASE Expire
  BY <1>1 DEF Expire
<1>2. ASSUME NEW t \in Threads, Begin(t) \/ CallStep(t)
      PROVE  TriedAgain(u)'
  <2>1. CASE Begin(t)
    BY <2>1 DEF Begin, NoCall
  <2>2. CASE Enter(t)
    BY <2>2 DEF Enter, Cached
  <2>3. CASE SignIn(t)
    BY <2>3 DEF SignIn
  <2>4. CASE SignInFails(t)
    BY <2>4 DEF SignInFails, Release, NoCall
  <2>5. CASE Answered(t)
    BY <2>5 DEF Answered, NoCall
  <2>6. CASE RpcRefused(t)
    BY <2>6 DEF RpcRefused, ForgetToken, NoCall
  <2>7. CASE StorageRefused(t)
    BY <2>7 DEF StorageRefused, NoCall
  <2>8. CASE Refresh(t)
    BY <2>8 DEF Refresh, ForgetToken
  <2> QED
    BY <1>2, <2>1, <2>2, <2>3, <2>4, <2>5, <2>6, <2>7, <2>8 DEF CallStep
<1> QED
  BY <1>1, <1>2 DEF Next

\* IInv is inductive.
LEMMA Inductive == Spec => []IInv
<1>1. IInv /\ [Next]_vars => IInv'
  <2> SUFFICES ASSUME IInv, [Next]_vars PROVE IInv'
    OBVIOUS
  <2>1. CASE Next
    BY <2>1, TypedStep, TriedAgainStep DEF IInv
  <2>2. CASE UNCHANGED vars
    BY <2>2 DEF vars, IInv, Typed, TriedAgain
  <2> QED
    BY <2>1, <2>2
<1> QED
  BY InitHolds, <1>1, PTL DEF Spec

\* A call answered 401 and tried again is lost only to a second expiry, for any
\* number of threads, expiries and failures.
THEOREM RetryIsFresh == Spec => []SecondTryIsFresh
<1>1. IInv => SecondTryIsFresh
  BY DEF IInv, TriedAgain, SecondTryIsFresh
<1> QED
  BY Inductive, <1>1, PTL

-----------------------------------------------------------------------------
(* The rest of the state.                                                  *)

\* The token in the session is the last one issued, and the lock excludes sign-ins
\* that do not know of each other.
LockKept ==
  /\ token \in {0, issued}
  /\ \A t \in Threads : (caller[t].pc = "signin" <=> lock = t)
                       /\ (caller[t].pc = "signin" => token = 0)

\* Only a storing thread calls Storage, and it asks for a new token once.
StorageKept ==
  \A t \in Threads :
    /\ caller[t].call = "storage" => t \in Storing
    /\ caller[t].pc = "forget" => caller[t].call = "storage" /\ ~caller[t].second

Counted ==
  /\ expired \subseteq 1..issued
  /\ Cardinality(expired) <= MaxExpiries
  /\ refused \in [Threads -> Nat]
  /\ faults \in 0..MaxFaults

SInv == LockKept /\ StorageKept /\ Counted

LEMMA ExpiredFinite ==
  ASSUME IInv, SInv
  PROVE  IsFiniteSet(expired) /\ Cardinality(expired) \in Nat
<1>1. IsFiniteSet(1..issued)
  <2>1. 1 \in Int /\ issued \in Int
    BY DEF IInv, Typed
  <2> QED BY <2>1, FS_Interval
<1> QED BY <1>1, FS_Subset, FS_CardinalityType DEF SInv, Counted

LEMMA SInit == Init => SInv
<1>1. Cardinality({}) = 0
  BY FS_EmptySet
<1> QED BY <1>1, SessionAssumption
        DEF Init, SInv, LockKept, StorageKept, Counted, NoCall

LEMMA SStep ==
  ASSUME IInv, SInv, Next
  PROVE  SInv'
<1> USE SessionAssumption DEF IInv, Typed, Calling, Steps, Calls, SInv, LockKept,
        StorageKept, Counted
<1>1. CASE Expire
  <2>1. PICK n \in (1..issued) \ expired : expired' = expired \cup {n}
    BY <1>1 DEF Expire
  <2>2. Cardinality(expired') = Cardinality(expired) + 1
    BY <2>1, ExpiredFinite, FS_AddElement
  <2>3. Cardinality(expired') <= MaxExpiries
    BY <1>1, <2>2, ExpiredFinite DEF Expire
  <2> QED BY <1>1, <2>1, <2>3 DEF Expire
<1>2. ASSUME NEW t \in Threads, Begin(t) \/ CallStep(t)
      PROVE  SInv'
  <2>0. t # Nobody
    OBVIOUS
  <2>1. CASE Begin(t)
    BY <2>0, <2>1 DEF Begin, NoCall, CallsOf
  <2>2. CASE Enter(t)
    BY <2>0, <2>2 DEF Enter, Cached
  <2>3. CASE SignIn(t)
    BY <2>0, <2>3 DEF SignIn
  <2>4. CASE SignInFails(t)
    BY <2>0, <2>4 DEF SignInFails, Release, NoCall
  <2>5. CASE Answered(t)
    BY <2>0, <2>5 DEF Answered, NoCall
  <2>6. CASE RpcRefused(t)
    BY <2>0, <2>6 DEF RpcRefused, ForgetToken, NoCall
  <2>7. CASE StorageRefused(t)
    BY <2>0, <2>7 DEF StorageRefused, NoCall
  <2>8. CASE Refresh(t)
    BY <2>0, <2>8 DEF Refresh, ForgetToken
  <2> QED
    BY <1>2, <2>1, <2>2, <2>3, <2>4, <2>5, <2>6, <2>7, <2>8 DEF CallStep
<1> QED BY <1>1, <1>2 DEF Next

-----------------------------------------------------------------------------
(* What an expired token costs.                                            *)

\* The expired ones among the first k tokens.
Dead(e, k) == Cardinality(e \cap 1..k)

LEMMA DeadGrows ==
  ASSUME NEW e, IsFiniteSet(e), NEW k \in Nat, NEW n \in Nat
  PROVE  /\ Dead(e, k) \in Nat
         /\ Dead(e, k) <= Cardinality(e)
         /\ k < n /\ n \in e => Dead(e, k) + 1 <= Dead(e, n)
         /\ \A d : IsFiniteSet(d) /\ e \subseteq d => Dead(e, k) <= Dead(d, k)
<1>1. \A m \in Nat : IsFiniteSet(e \cap 1..m) /\ Cardinality(e \cap 1..m) \in Nat
  BY FS_Intersection, FS_CardinalityType
<1>2. Dead(e, k) <= Cardinality(e)
  BY FS_Intersection DEF Dead
<1>3. ASSUME k < n, n \in e PROVE Dead(e, k) + 1 <= Dead(e, n)
  <2>1. n \notin e \cap 1..k
    BY <1>3
  <2>2. Cardinality((e \cap 1..k) \cup {n}) = Cardinality(e \cap 1..k) + 1
    BY <1>1, <2>1, FS_AddElement
  <2>3. (e \cap 1..k) \cup {n} \subseteq e \cap 1..n
    BY <1>3
  <2>4. Cardinality((e \cap 1..k) \cup {n}) <= Cardinality(e \cap 1..n)
    BY <1>1, <2>3, FS_Subset
  <2> QED BY <2>2, <2>4 DEF Dead
<1>4. ASSUME NEW d, IsFiniteSet(d), e \subseteq d PROVE Dead(e, k) <= Dead(d, k)
  <2>1. IsFiniteSet(d \cap 1..k) /\ e \cap 1..k \subseteq d \cap 1..k
    BY <1>4, FS_Intersection
  <2> QED BY <2>1, FS_Subset DEF Dead
<1> QED BY <1>1, <1>2, <1>3, <1>4 DEF Dead

Price(t) == IF t \in Storing THEN 2 ELSE 1

\* t has paid for the expired tokens up to k and will meet none of them again.
PaidUp(t, k) ==
  /\ refused[t] <= Price(t) * Dead(expired, k)
  /\ caller[t].pc # "forget" => token = 0 \/ token > k
  /\ caller[t].pc = "request" => caller[t].used > k

\* Storage refused t twice and left it the token k, which it has not paid twice.
LeftWith(t, k) ==
  /\ t \in Storing
  /\ k \in expired
  /\ refused[t] + 1 <= 2 * Dead(expired, k)
  /\ caller[t].pc # "forget"
  /\ caller[t].pc = "request" => caller[t].used >= k
  /\ caller[t].call = "storage" /\ caller[t].second => caller[t].pc \in {"idle", "lost"}

Settled(t) == \E k \in 0..issued : PaidUp(t, k) \/ LeftWith(t, k)

Costs == \A t \in Threads : Settled(t)

LEMMA SettledType ==
  ASSUME IInv, SInv, NEW t \in Threads, NEW k \in 0..issued
  PROVE  /\ caller[t] \in Calling /\ refused[t] \in Nat /\ k \in Nat
         /\ Dead(expired, k) \in Nat
BY ExpiredFinite, DeadGrows DEF IInv, Typed, SInv, Counted

\* A thread that waits: the session may lose its token or get a newer one.
LEMMA SettledWaits ==
  ASSUME IInv, SInv, NEW u \in Threads, Settled(u),
         caller'[u] = caller[u], refused'[u] = refused[u], expired' = expired,
         \/ token' \in {0, token} /\ issued' = issued
         \/ token' = issued + 1 /\ issued' = issued + 1
  PROVE  Settled(u)'
<1>1. PICK k \in 0..issued : PaidUp(u, k) \/ LeftWith(u, k)
  BY DEF Settled
<1>2. k \in 0..issued' /\ (token' = 0 \/ token' = token \/ token' > k)
  BY DEF IInv, Typed
<1>3. PaidUp(u, k)' \/ LeftWith(u, k)'
  BY <1>1, <1>2 DEF PaidUp, LeftWith
<1> QED BY <1>2, <1>3 DEF Settled

\* A step of u that is not a refusal.
LEMMA SettledGoesOn ==
  ASSUME IInv, SInv, NEW u \in Threads, Settled(u),
         refused' = refused, expired' = expired,
         \/ Begin(u) \/ Enter(u) \/ SignIn(u) \/ SignInFails(u) \/ Answered(u)
         \/ Refresh(u)
  PROVE  Settled(u)'
<1> USE DEF IInv, Typed, Calling, Steps, Calls
<1>0. PICK k \in 0..issued : PaidUp(u, k) \/ LeftWith(u, k)
  BY DEF Settled
<1> USE SettledType
<1>1. CASE Begin(u)
  <2>1. /\ caller'[u].pc = "enter" /\ ~caller'[u].second
        /\ UNCHANGED <<token, issued>> /\ caller[u].pc # "forget"
    <3> PICK c \in CallsOf(u), o \in Nat :
          caller' = [caller EXCEPT ![u] = [NoCall EXCEPT !.pc = "enter", !.call = c, !.old = o]]
      BY <1>1 DEF Begin
    <3>1. caller'[u] = [NoCall EXCEPT !.pc = "enter", !.call = c, !.old = o]
      OBVIOUS
    <3> QED BY <1>1, <3>1 DEF Begin, NoCall
  <2>2. PaidUp(u, k)' \/ LeftWith(u, k)'
    BY <1>0, <2>1 DEF PaidUp, LeftWith
  <2> QED BY <2>1, <2>2 DEF Settled
<1>2. CASE Enter(u)
  <2>1. /\ \/ caller'[u].pc = "signin"
           \/ /\ caller'[u].pc = "request" /\ caller'[u].used = token
              /\ token # 0
        /\ caller'[u].call = caller[u].call /\ caller'[u].second = caller[u].second
        /\ UNCHANGED <<token, issued>> /\ caller[u].pc = "enter"
    BY <1>2 DEF Enter, Cached
  <2>2. PaidUp(u, k)' \/ LeftWith(u, k)'
    BY <1>0, <2>1 DEF PaidUp, LeftWith, SInv, LockKept
  <2> QED BY <2>1, <2>2 DEF Settled
<1>3. CASE SignIn(u)
  <2>1. /\ caller'[u].pc = "request" /\ caller'[u].used = issued + 1
        /\ caller'[u].call = caller[u].call /\ caller'[u].second = caller[u].second
        /\ token' = issued + 1 /\ issued' = issued + 1 /\ caller[u].pc = "signin"
    BY <1>3 DEF SignIn
  <2>2. PaidUp(u, k)' \/ LeftWith(u, k)'
    BY <1>0, <2>1 DEF PaidUp, LeftWith
  <2> QED BY <2>1, <2>2 DEF Settled
<1>4. CASE SignInFails(u) \/ Answered(u)
  <2>1. /\ \/ caller'[u].pc = "enter" /\ caller[u].call = "repeated"
              /\ caller'[u].call = caller[u].call
           \/ caller'[u].pc = "idle"
        /\ UNCHANGED <<token, issued>> /\ caller[u].pc # "forget"
    BY <1>4 DEF SignInFails, Answered, NoCall
  <2>2. PaidUp(u, k)' \/ LeftWith(u, k)'
    BY <1>0, <2>1 DEF PaidUp, LeftWith
  <2> QED BY <2>1, <2>2 DEF Settled
<1>5. CASE Refresh(u)
  <2>1. /\ caller'[u].pc = "enter" /\ token' = 0 /\ issued' = issued
        /\ caller[u].pc = "forget"
    BY <1>5 DEF Refresh, ForgetToken
  <2>2. PaidUp(u, k)'
    BY <1>0, <2>1 DEF PaidUp, LeftWith
  <2> QED BY <2>1, <2>2 DEF Settled
<1> QED BY <1>1, <1>2, <1>3, <1>4, <1>5

\* A refusal is paid for by the token it answers.
LEMMA SettledRefused ==
  ASSUME IInv, SInv, NEW u \in Threads, Settled(u), RpcRefused(u) \/ StorageRefused(u)
  PROVE  Settled(u)'
<1> USE DEF IInv, Typed, Calling, Steps, Calls
<1>1. PICK k \in 0..issued : PaidUp(u, k) \/ LeftWith(u, k)
  BY DEF Settled
<1>2. PICK n \in 1..issued : n = caller[u].used /\ n \in expired
  BY DEF RpcRefused, StorageRefused, SInv, Counted
<1>3. /\ n \in Nat /\ k \in Nat /\ caller[u] \in Calling /\ refused[u] \in Nat
      /\ Dead(expired, n) \in Nat /\ Dead(expired, k) \in Nat
      /\ k < n => Dead(expired, k) + 1 <= Dead(expired, n)
  BY <1>2, SettledType, ExpiredFinite, DeadGrows
<1>4. /\ refused'[u] = refused[u] + 1 /\ expired' = expired /\ issued' = issued
      /\ caller[u].pc = "request"
  BY DEF RpcRefused, StorageRefused, SInv, Counted
<1>5. PaidUp(u, k) => refused[u] + 1 <= Price(u) * Dead(expired, n)
                      /\ (u \in Storing => refused[u] + 2 <= 2 * Dead(expired, n))
  BY <1>2, <1>3, <1>4 DEF PaidUp, Price
<1>6. LeftWith(u, k) =>
        /\ refused[u] + 1 <= Price(u) * Dead(expired, n)
        /\ n # k => refused[u] + 2 <= 2 * Dead(expired, n)
        /\ u \in Storing /\ ~(caller[u].call = "storage" /\ caller[u].second)
  BY <1>2, <1>3, <1>4 DEF LeftWith, Price
<1>7. refused'[u] <= Price(u) * Dead(expired', n)
  BY <1>1, <1>4, <1>5, <1>6
<1>8. CASE RpcRefused(u)
  <2>1. token' = 0 /\ caller'[u].pc # "request"
    BY <1>8 DEF RpcRefused, ForgetToken, NoCall
  <2>2. PaidUp(u, n)'
    BY <1>7, <2>1 DEF PaidUp
  <2> QED BY <1>4, <2>2 DEF Settled
<1>9. CASE StorageRefused(u) /\ ~caller[u].second
  <2>1. caller'[u].pc = "forget"
    BY <1>9 DEF StorageRefused
  <2>2. PaidUp(u, n)'
    BY <1>7, <2>1 DEF PaidUp
  <2> QED BY <1>4, <2>2 DEF Settled
<1>10. CASE StorageRefused(u) /\ caller[u].second
  <2>1. caller'[u].pc \in {"idle", "lost"} /\ u \in Storing
    BY <1>10 DEF StorageRefused, NoCall, SInv, StorageKept
  <2>2. refused[u] + 2 <= 2 * Dead(expired, n)
    BY <1>1, <1>5, <1>6, <1>10, <2>1 DEF StorageRefused
  <2>3. LeftWith(u, n)'
    BY <1>2, <1>3, <1>4, <2>1, <2>2 DEF LeftWith
  <2> QED BY <1>4, <2>3 DEF Settled
<1> QED BY <1>8, <1>9, <1>10

LEMMA SettledExpire ==
  ASSUME IInv, SInv, NEW u \in Threads, Settled(u), Expire
  PROVE  Settled(u)'
<1>1. PICK k \in 0..issued : PaidUp(u, k) \/ LeftWith(u, k)
  BY DEF Settled
<1>2. PICK n \in (1..issued) \ expired : expired' = expired \cup {n}
  BY DEF Expire
<1>3. IsFiniteSet(expired') /\ expired \subseteq expired'
  BY <1>2, ExpiredFinite, FS_AddElement
<1>4. /\ Dead(expired, k) \in Nat /\ Dead(expired', k) \in Nat
      /\ Dead(expired, k) <= Dead(expired', k) /\ refused[u] \in Nat
  BY <1>3, SettledType, ExpiredFinite, DeadGrows
<1>5. PaidUp(u, k)' \/ LeftWith(u, k)'
  BY <1>1, <1>3, <1>4 DEF Expire, PaidUp, LeftWith, Price
<1> QED BY <1>1, <1>5 DEF Expire, Settled

LEMMA CostsStep ==
  ASSUME IInv, SInv, Costs, Next
  PROVE  Costs'
<1> SUFFICES ASSUME NEW u \in Threads PROVE Settled(u)'
  BY DEF Costs
<1>0. Settled(u)
  BY DEF Costs
<1>1. CASE Expire
  BY <1>0, <1>1, SettledExpire
<1>2. ASSUME NEW t \in Threads, t # u, Begin(t) \/ CallStep(t)
      PROVE  Settled(u)'
  <2>1. caller'[u] = caller[u] /\ refused'[u] = refused[u] /\ expired' = expired
    BY <1>2 DEF IInv, Typed, SInv, Counted, Begin, CallStep, Enter, SignIn, SignInFails,
                Answered, RpcRefused, StorageRefused, Refresh
  <2>2. \/ token' \in {0, token} /\ issued' = issued
        \/ token' = issued + 1 /\ issued' = issued + 1
    BY <1>2 DEF Begin, CallStep, Enter, SignIn, SignInFails, Answered, RpcRefused,
                StorageRefused, Refresh, ForgetToken
  <2> QED BY <1>0, <2>1, <2>2, SettledWaits
<1>3. CASE Begin(u) \/ CallStep(u)
  <2>1. CASE RpcRefused(u) \/ StorageRefused(u)
    BY <1>0, <2>1, SettledRefused
  <2>2. CASE \/ Begin(u) \/ Enter(u) \/ SignIn(u) \/ SignInFails(u) \/ Answered(u)
             \/ Refresh(u)
    <3>1. refused' = refused /\ expired' = expired
      BY <2>2 DEF Begin, Enter, SignIn, SignInFails, Answered, Refresh
    <3> QED BY <1>0, <2>2, <3>1, SettledGoesOn
  <2> QED BY <1>3, <2>1, <2>2 DEF CallStep
<1> QED BY <1>1, <1>2, <1>3 DEF Next

-----------------------------------------------------------------------------
(* What a sign-in is owed to.                                              *)

\* Refused, and yet to make the session forget its token.
Forgetting == {t \in Threads : caller[t].pc = "forget"}

\* Each refusal is good for one sign-in: for the one that made the token in the
\* session necessary, or for one to come.
SignInsPaid ==
  issued + Cardinality(Forgetting)
    <= Sum(refused, Threads) + (IF token = 0 THEN 0 ELSE 1)

LEMMA ForgettingFinite ==
  /\ IsFiniteSet(Forgetting) /\ Cardinality(Forgetting) \in Nat
  /\ IsFiniteSet(Forgetting') /\ Cardinality(Forgetting') \in Nat
BY SessionAssumption, FS_Subset, FS_CardinalityType DEF Forgetting

LEMMA PaidStep ==
  ASSUME IInv, SInv, SignInsPaid, Next
  PROVE  SignInsPaid'
<1> USE SessionAssumption
<1>0. Sum(refused, Threads) \in Nat /\ issued \in Nat
  BY SumType DEF SInv, Counted, IInv, Typed
<1>1. CASE Forgetting' = Forgetting /\ UNCHANGED <<issued, token, refused>>
  BY <1>1 DEF SignInsPaid
<1>2. CASE Expire
  BY <1>1, <1>2 DEF Expire, Forgetting
<1>3. ASSUME NEW t \in Threads, Begin(t) \/ CallStep(t)
      PROVE  SignInsPaid'
  <2> USE DEF IInv, Typed, Calling, Steps, Calls
  <2>0. \A u \in Threads : u # t => caller'[u] = caller[u]
    BY <1>3 DEF Begin, CallStep, Enter, SignIn, SignInFails, Answered, RpcRefused,
                StorageRefused, Refresh
  <2>a. (caller[t].pc = "forget" <=> caller'[t].pc = "forget") => Forgetting' = Forgetting
    BY <2>0 DEF Forgetting
  <2>1. CASE Begin(t) \/ Enter(t) \/ SignInFails(t) \/ Answered(t)
    <3>1. caller[t].pc # "forget"
      BY <2>1 DEF Begin, Enter, SignInFails, Answered, At
    <3>2. caller'[t].pc # "forget"
      <4>1. CASE Begin(t)
        <5>1. PICK c \in CallsOf(t), o \in Nat :
                caller' = [caller EXCEPT ![t] = [NoCall EXCEPT !.pc = "enter", !.call = c,
                                                               !.old = o]]
          BY <4>1 DEF Begin
        <5> QED BY <5>1 DEF NoCall
      <4>2. CASE Enter(t)
        BY <4>2 DEF Enter, Goto
      <4>3. CASE SignInFails(t)
        BY <4>3 DEF SignInFails, Fails, Return, NoCall
      <4>4. CASE Answered(t)
        BY <4>4 DEF Answered, Fails, Return, NoCall
      <4> QED BY <2>1, <4>1, <4>2, <4>3, <4>4
    <3> QED BY <1>1, <2>1, <2>a, <3>1, <3>2 DEF Begin, Enter, SignInFails, Answered
  <2>2. CASE SignIn(t)
    <3>1. caller[t].pc = "signin" /\ caller'[t].pc = "request" /\ token = 0
      BY <2>2 DEF SignIn, SInv, LockKept
    <3>2. issued' = issued + 1 /\ token' = issued + 1 /\ refused' = refused
      BY <2>2 DEF SignIn
    <3>3. Forgetting' = Forgetting
      BY <2>a, <3>1
    <3> QED BY <1>0, <3>1, <3>2, <3>3, ForgettingFinite DEF SignInsPaid
  <2>3. CASE RpcRefused(t)
    <3>1. caller[t].pc # "forget" /\ caller'[t].pc # "forget"
      BY <2>3 DEF RpcRefused, NoCall
    <3>2. Sum(refused', Threads) = Sum(refused, Threads) + 1
      BY <2>3, SumOneMore DEF RpcRefused, SInv, Counted
    <3>3. issued' = issued /\ token' = 0 /\ Forgetting' = Forgetting
      BY <2>3, <2>a, <3>1 DEF RpcRefused, ForgetToken
    <3> QED BY <1>0, <3>2, <3>3, ForgettingFinite DEF SignInsPaid
  <2>4. CASE StorageRefused(t)
    <3>1. Sum(refused', Threads) = Sum(refused, Threads) + 1
      BY <2>4, SumOneMore DEF StorageRefused, SInv, Counted
    <3>2. Forgetting' \subseteq Forgetting \cup {t}
      BY <2>0 DEF Forgetting
    <3>3. /\ IsFiniteSet(Forgetting \cup {t})
          /\ Cardinality(Forgetting \cup {t}) <= Cardinality(Forgetting) + 1
      <4> DEFINE G == Forgetting
      <4>0. IsFiniteSet(G)
        BY ForgettingFinite
      <4> HIDE DEF G
      <4>1. /\ IsFiniteSet(G \cup {t})
            /\ \/ Cardinality(G \cup {t}) = Cardinality(G)
               \/ Cardinality(G \cup {t}) = Cardinality(G) + 1
        BY <4>0, FS_AddElement
      <4>2. Cardinality(G) \in Nat
        BY <4>0, FS_CardinalityType
      <4>3. Cardinality(G \cup {t}) <= Cardinality(G) + 1
        BY <4>1, <4>2
      <4> QED BY <4>1, <4>3 DEF G
    <3>4. Cardinality(Forgetting') <= Cardinality(Forgetting) + 1
      <4>1. Cardinality(Forgetting') <= Cardinality(Forgetting \cup {t})
        BY <3>2, <3>3, FS_Subset
      <4>2. Cardinality(Forgetting \cup {t}) \in Nat
        BY <3>3, FS_CardinalityType
      <4> QED BY <3>3, <4>1, <4>2, ForgettingFinite
    <3>5. issued' = issued /\ token' = token
      BY <2>4 DEF StorageRefused
    <3> QED BY <1>0, <3>1, <3>4, <3>5, ForgettingFinite DEF SignInsPaid
  <2>5. CASE Refresh(t)
    <3>1. caller[t].pc = "forget" /\ caller'[t].pc = "enter"
      BY <2>5 DEF Refresh
    <3>2. Forgetting' = Forgetting \ {t} /\ t \in Forgetting
      BY <2>0, <3>1 DEF Forgetting
    <3>3. Cardinality(Forgetting') = Cardinality(Forgetting) - 1
      BY <3>2, ForgettingFinite, FS_RemoveElement
    <3>4. issued' = issued /\ token' = 0 /\ refused' = refused
      BY <2>5 DEF Refresh, ForgetToken
    <3> QED BY <1>0, <3>3, <3>4, ForgettingFinite DEF SignInsPaid
  <2> QED BY <1>3, <2>1, <2>2, <2>3, <2>4, <2>5 DEF CallStep
<1> QED BY <1>2, <1>3 DEF Next

-----------------------------------------------------------------------------
(* The theorems about refusals.                                            *)

FullInv == IInv /\ SInv /\ Costs /\ SignInsPaid

LEMMA FullInit == Init => FullInv
<1> SUFFICES ASSUME Init PROVE FullInv
  OBVIOUS
<1>1. IInv /\ SInv
  BY InitHolds, SInit
<1>2. Costs
  <2> SUFFICES ASSUME NEW t \in Threads PROVE PaidUp(t, 0) /\ 0 \in 0..issued
    BY DEF Costs, Settled
  <2>1. Dead(expired, 0) \in Nat
    BY <1>1, ExpiredFinite, DeadGrows
  <2> QED BY <2>1 DEF Init, PaidUp, NoCall, Price
<1>3. SignInsPaid
  <2>1. Forgetting = {} /\ issued = 0 /\ token = 0 /\ \A t \in Threads : refused[t] = 0
    BY DEF Init, Forgetting, NoCall
  <2>2. Sum(refused, Threads) = 0
    BY <1>1, <2>1, SumOfNothing, SessionAssumption DEF SInv, Counted
  <2> QED BY <2>1, <2>2, FS_EmptySet DEF SignInsPaid
<1> QED BY <1>1, <1>2, <1>3 DEF FullInv

LEMMA FullInductive == Spec => []FullInv
<1>1. FullInv /\ [Next]_vars => FullInv'
  <2> SUFFICES ASSUME FullInv, [Next]_vars PROVE FullInv'
    OBVIOUS
  <2>1. CASE Next
    <3>1. IInv'
      BY <2>1, TypedStep, TriedAgainStep DEF FullInv, IInv
    <3> QED BY <2>1, <3>1, SStep, CostsStep, PaidStep DEF FullInv
  <2>2. CASE UNCHANGED vars
    BY <2>2 DEF vars, FullInv, IInv, Typed, TriedAgain, SInv, LockKept, StorageKept,
                Counted, Costs, Settled, PaidUp, LeftWith, SignInsPaid, Forgetting
  <2> QED BY <2>1, <2>2
<1> QED BY FullInit, <1>1, PTL DEF Spec

LEMMA FullBounds ==
  ASSUME FullInv
  PROVE  RefusalsBounded
<1> SUFFICES ASSUME NEW t \in Threads
             PROVE  refused[t] <= Price(t) * Cardinality(expired)
  BY DEF RefusalsBounded, Price
<1>1. PICK k \in 0..issued : PaidUp(t, k) \/ LeftWith(t, k)
  BY DEF FullInv, Costs, Settled
<1>2. /\ Dead(expired, k) \in Nat /\ Cardinality(expired) \in Nat
      /\ Dead(expired, k) <= Cardinality(expired) /\ refused[t] \in Nat
  BY SettledType, ExpiredFinite, DeadGrows DEF FullInv
<1> QED BY <1>1, <1>2 DEF PaidUp, LeftWith, Price

\* An expired token costs a thread one 401, or two where ArtworkStore was refused
\* twice: neither the token another thread forgets nor one it signs in for adds to it.
THEOREM RefusalsFew == Spec => []RefusalsBounded
BY FullInductive, FullBounds, PTL

LEMMA FullOwed ==
  ASSUME FullInv
  PROVE  SignInsOwed
<1>1. Sum(refused, Threads) \in Nat /\ issued \in Nat
  BY SumType, SessionAssumption DEF FullInv, SInv, Counted, IInv, Typed
<1>2. issued <= 1 + Sum(refused, Threads)
  BY <1>1, ForgettingFinite DEF FullInv, SignInsPaid
<1> QED BY <1>2 DEF SignInsOwed, Sum

\* _authenticate signs in once for each refusal and once at the start, however many
\* threads wait for _auth_lock and although _rpc forgets the token without it.
THEOREM SignInsFew == Spec => []SignInsOwed
BY FullInductive, FullOwed, PTL

\* The types, with the bounds that follow from the two: a refusal bound for every
\* thread and a number of tokens for all of them.
THEOREM TypeCorrect == Spec => []TypeOK
<1>1. ASSUME FullInv PROVE TypeOK
  <2> USE <1>1, SessionAssumption
  <2>1. \A t \in Threads : refused[t] <= 2 * MaxExpiries
    <3> TAKE t \in Threads
    <3>1. refused[t] \in Nat /\ Cardinality(expired) \in Nat
      BY ExpiredFinite DEF FullInv, SInv, Counted
    <3>2. Cardinality(expired) <= MaxExpiries
      BY DEF FullInv, SInv, Counted
    <3>3. refused[t] <= (IF t \in Storing THEN 2 ELSE 1) * Cardinality(expired)
      BY FullBounds DEF RefusalsBounded
    <3> QED BY <3>1, <3>2, <3>3
  <2>2. issued \in 0..MaxTokens
    <3>1. Sum(refused, Threads) <= Cardinality(Threads) * (2 * MaxExpiries)
      BY <2>1, SumAtMost DEF FullInv, SInv, Counted
    <3>2. /\ issued <= 1 + Sum(refused, Threads) /\ issued \in Nat
          /\ Sum(refused, Threads) \in Nat
      BY FullOwed, SumType DEF SignInsOwed, Sum, FullInv, SInv, Counted, IInv, Typed
    <3>3. Cardinality(Threads) \in Nat
      BY FS_CardinalityType
    <3>4. \A a, b \in Nat : a * (2 * b) = 2 * b * a
      OBVIOUS
    <3>5. Cardinality(Threads) * (2 * MaxExpiries) = 2 * MaxExpiries * Cardinality(Threads)
      BY <3>3, <3>4
    <3>6. \A a, b \in Nat : 2 * a * b \in Nat
      OBVIOUS
    <3>7. 2 * MaxExpiries * Cardinality(Threads) \in Nat
      BY <3>3, <3>6
    <3> QED BY <3>1, <3>2, <3>5, <3>7 DEF MaxTokens
  <2>3. caller \in [Threads -> [pc : Steps, call : Calls, used : 0..issued,
                                second : BOOLEAN, denied : BOOLEAN, old : 0..issued]]
    BY DEF FullInv, IInv, Typed, Calling, TriedAgain
  <2>4. refused \in [Threads -> 0..2 * MaxExpiries]
    BY <2>1 DEF FullInv, SInv, Counted
  <2> QED BY <2>2, <2>3, <2>4
          DEF FullInv, IInv, Typed, SInv, LockKept, Counted, TypeOK
<1> QED BY <1>1, FullInductive, PTL
=============================================================================
