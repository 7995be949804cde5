---------------------------- MODULE LegacyProofs -----------------------------
(***************************************************************************)
(* Theorems about LegacyPkcs11, for any goroutines, any token, any settings *)
(* and any number of sessions.                                             *)
(***************************************************************************)
EXTENDS LegacyPkcs11, FiniteSetTheorems, SequenceTheorems, TLAPS

(* The locals of a call are a record with these fields.                    *)
CallShape ==
    call = [c \in Callers |->
              [op |-> call[c].op, pc |-> call[c].pc, session |-> call[c].session,
               cfg |-> call[c].cfg, out |-> call[c].out]]

(* Every blob, also one on its way out, records whose plaintext it holds.  *)
BlobOK(b) == "of" \in DOMAIN b /\ b.of \in Callers

LocalsOK ==
    /\ \A c \in Callers : call[c].cfg \in Settings
    /\ \A c \in Callers : \A b \in call[c].out : BlobOK(b)
    /\ \A b \in blobs : BlobOK(b)

(* SetConfig runs alone and before there is a client; the first and the    *)
(* last of its steps are only its own.  So it is the one call that may be  *)
(* alive without a client, and no step makes another call alive again.     *)
Alone ==
    \A c \in Callers :
        /\ call[c].op = "SetConfig" =>
             /\ client = NoClient /\ \A d \in Callers : d # c => call[d].op = None
             /\ call[c].pc # "initialize" => initialized
        /\ call[c].pc \in {"initialize", "configure"} => call[c].op = "SetConfig"

User(c) == call[c].pc \in {"use", "logout"} /\ Alive(c)
Holder(c) == call[c].pc \in {"login", "use", "logout", "close"} /\ Alive(c)

(* LoginExclusive and SessionsAccounted without cardinalities and images.  *)
OneUser ==
    /\ \A c, d \in Callers : User(c) /\ User(d) => c = d
    /\ loggedIn <=> \E c \in Callers : User(c)

Accounted ==
    /\ \A h : h \in sessions <=>
                h \in lost \/ \E c \in Callers : Holder(c) /\ call[c].session = h
    /\ \A c \in Callers : Holder(c) => call[c].session \notin lost
    /\ \A c, d \in Callers :
         Holder(c) /\ Holder(d) /\ c # d => call[c].session # call[d].session

IInv == CallShape /\ TypeOK /\ LocalsOK /\ Alone /\ OneUser /\ Accounted

-----------------------------------------------------------------------------
LEMMA NoClientTyped == NoClient \in Settings
BY DEF NoClient, Settings

(* What KeyId returns before the first Encrypt and after one.              *)
LEMMA KeyStringsTyped ==
    NoText \in KeyStrings /\ \A s \in Settings : KeyString(s) \in KeyStrings
BY DEF KeyStrings

(* In the initial state nobody calls and the token is fresh.               *)
LEMMA InitIInv == Init => IInv
<1> SUFFICES ASSUME Init PROVE IInv
    OBVIOUS
<1> USE DEF Init, Idle
<1>1. CallShape
    BY DEF CallShape
<1>2. \A b \in blobs : BlobOK(b)
    BY DEF OldBlobs, BlobOK
<1>3. TypeOK
  <2>1. CallOK(Idle)
    BY LimitsAssumption DEF CallOK, Ops, PCs, None
  <2>2. \A c \in Callers : CallOK(call[c])
    BY <2>1
  <2> QED
    BY <1>2, <2>2, NoClientTyped, KeyStringsTyped DEF TypeOK, BlobOK
<1>4. LocalsOK
    BY <1>2, NoClientTyped DEF LocalsOK
<1>5. Alone /\ OneUser /\ Accounted
    BY DEF Alone, OneUser, Accounted, User, Holder, None
<1> QED
    BY <1>1, <1>3, <1>4, <1>5 DEF IInv

-----------------------------------------------------------------------------
(***************************************************************************)
(* How a step changes the locals of its call                               *)
(***************************************************************************)
Locals(o, p, s, g, u) == [op |-> o, pc |-> p, session |-> s, cfg |-> g, out |-> u]

Moved(c, o, p, s, g, u) ==
    /\ call'[c].op = o /\ call'[c].pc = p /\ call'[c].session = s
    /\ call'[c].cfg = g /\ call'[c].out = u
    /\ \A d \in Callers : d # c => call'[d] = call[d]

(* Only the entry of the caller changes, and it stays a record of locals.  *)
LEMMA MovedTo ==
    ASSUME NEW c \in Callers, CallShape, NEW o, NEW p, NEW s, NEW g, NEW u,
           call' = [call EXCEPT ![c] = Locals(o, p, s, g, u)]
    PROVE  Moved(c, o, p, s, g, u) /\ CallShape'
BY DEF CallShape, Moved, Locals

LEMMA GotoMoves ==
    ASSUME NEW c \in Callers, CallShape, NEW p, Goto(c, p)
    PROVE  /\ Moved(c, call[c].op, p, call[c].session, call[c].cfg, call[c].out)
           /\ CallShape'
<1>1. call[c] = Locals(call[c].op, call[c].pc, call[c].session, call[c].cfg, call[c].out)
    BY DEF CallShape, Locals
<1>2. [call[c] EXCEPT !.pc = p]
        = Locals(call[c].op, p, call[c].session, call[c].cfg, call[c].out)
    BY <1>1 DEF Locals
<1>3. call' = [call EXCEPT ![c] =
                  Locals(call[c].op, p, call[c].session, call[c].cfg, call[c].out)]
    BY <1>2 DEF Goto
<1> QED
    BY <1>3, MovedTo

(* A record of locals with one field replaced is one again.                *)
LEMMA SetFields ==
    ASSUME NEW o, NEW p, NEW s, NEW g, NEW u, NEW x
    PROVE  /\ [Locals(o, p, s, g, u) EXCEPT !.op = x] = Locals(x, p, s, g, u)
           /\ [Locals(o, p, s, g, u) EXCEPT !.pc = x] = Locals(o, x, s, g, u)
           /\ [Locals(o, p, s, g, u) EXCEPT !.session = x] = Locals(o, p, x, g, u)
           /\ [Locals(o, p, s, g, u) EXCEPT !.cfg = x] = Locals(o, p, s, x, u)
           /\ [Locals(o, p, s, g, u) EXCEPT !.out = x] = Locals(o, p, s, g, x)
<1>1. [Locals(o, p, s, g, u) EXCEPT !.op = x] = Locals(x, p, s, g, u)
    BY DEF Locals
<1>2. [Locals(o, p, s, g, u) EXCEPT !.pc = x] = Locals(o, x, s, g, u)
    BY DEF Locals
<1>3. [Locals(o, p, s, g, u) EXCEPT !.session = x] = Locals(o, p, x, g, u)
    BY DEF Locals
<1>4. [Locals(o, p, s, g, u) EXCEPT !.cfg = x] = Locals(o, p, s, x, u)
    BY DEF Locals
<1>5. [Locals(o, p, s, g, u) EXCEPT !.out = x] = Locals(o, p, s, g, x)
    BY DEF Locals
<1> QED
    BY <1>1, <1>2, <1>3, <1>4, <1>5

(* OpenSession records the session, UseEncrypt the blob, with the move.    *)
SetsSession(c, p, h) == call' = [call EXCEPT ![c].pc = p, ![c].session = h]
SetsOut(c, p, u) == call' = [call EXCEPT ![c].pc = p, ![c].out = u]

LEMMA SessionMoves ==
    ASSUME NEW c \in Callers, CallShape, NEW p, NEW h, SetsSession(c, p, h)
    PROVE  Moved(c, call[c].op, p, h, call[c].cfg, call[c].out) /\ CallShape'
<1> DEFINE L == Locals(call[c].op, p, call[c].session, call[c].cfg, call[c].out)
           H == Locals(call[c].op, p, h, call[c].cfg, call[c].out)
           mid == [call EXCEPT ![c] = L]
<1>1. call[c] = Locals(call[c].op, call[c].pc, call[c].session, call[c].cfg, call[c].out)
    BY DEF CallShape, Locals
<1>2. [call[c] EXCEPT !.pc = p] = L
    BY <1>1 DEF Locals
<1>3. [call EXCEPT ![c].pc = p] = mid
    BY <1>2
<1>4. call' = [[call EXCEPT ![c].pc = p] EXCEPT ![c].session = h]
    BY DEF SetsSession
<1>5. call' = [mid EXCEPT ![c].session = h]
    BY <1>3, <1>4
<1>6. mid[c] = L
    BY DEF CallShape
<1>7. [L EXCEPT !.session = h] = H
    BY DEF Locals
<1> HIDE DEF L, H
<1>8. call' = [mid EXCEPT ![c] = H]
    BY <1>5, <1>6, <1>7
<1>9. call' = [call EXCEPT ![c] = H]
    BY <1>8 DEF CallShape
<1>10. call' = [call EXCEPT ![c] = Locals(call[c].op, p, h, call[c].cfg, call[c].out)]
    BY <1>9 DEF H
<1> QED
    BY <1>10, MovedTo

LEMMA OutMoves ==
    ASSUME NEW c \in Callers, CallShape, NEW p, NEW u, SetsOut(c, p, u)
    PROVE  Moved(c, call[c].op, p, call[c].session, call[c].cfg, u) /\ CallShape'
<1> DEFINE L == Locals(call[c].op, p, call[c].session, call[c].cfg, call[c].out)
           H == Locals(call[c].op, p, call[c].session, call[c].cfg, u)
           mid == [call EXCEPT ![c] = L]
<1>1. call[c] = Locals(call[c].op, call[c].pc, call[c].session, call[c].cfg, call[c].out)
    BY DEF CallShape, Locals
<1>2. [call[c] EXCEPT !.pc = p] = L
    BY <1>1 DEF Locals
<1>3. [call EXCEPT ![c].pc = p] = mid
    BY <1>2
<1>4. call' = [[call EXCEPT ![c].pc = p] EXCEPT ![c].out = u]
    BY DEF SetsOut
<1>5. call' = [mid EXCEPT ![c].out = u]
    BY <1>3, <1>4
<1>6. mid[c] = L
    BY DEF CallShape
<1>7. [L EXCEPT !.out = u] = H
    BY DEF Locals
<1> HIDE DEF L, H
<1>8. call' = [mid EXCEPT ![c] = H]
    BY <1>5, <1>6, <1>7
<1>9. call' = [call EXCEPT ![c] = H]
    BY <1>8 DEF CallShape
<1>10. call' = [call EXCEPT ![c] = Locals(call[c].op, p, call[c].session, call[c].cfg, u)]
    BY <1>9 DEF H
<1> QED
    BY <1>10, MovedTo

(* A new call starts with the settings of the client.                      *)
LEMMA BeginMoves ==
    ASSUME NEW c \in Callers, CallShape, NEW op, Begin(c, op)
    PROVE  Moved(c, op, "open", 0, client, {}) /\ CallShape'
<1>1. Idle = Locals(None, None, 0, NoClient, {})
    BY DEF Idle, Locals
<1>2. [Idle EXCEPT !.op = op, !.pc = "open", !.cfg = client]
        = [[[Idle EXCEPT !.op = op] EXCEPT !.pc = "open"] EXCEPT !.cfg = client]
    OBVIOUS
<1>3. [Idle EXCEPT !.op = op] = Locals(op, None, 0, NoClient, {})
    BY <1>1, SetFields
<1>4. [Locals(op, None, 0, NoClient, {}) EXCEPT !.pc = "open"]
        = Locals(op, "open", 0, NoClient, {})
    BY SetFields
<1>5. [Locals(op, "open", 0, NoClient, {}) EXCEPT !.cfg = client]
        = Locals(op, "open", 0, client, {})
    BY SetFields
<1>6. call' = [call EXCEPT ![c] = Locals(op, "open", 0, client, {})]
    BY <1>2, <1>3, <1>4, <1>5 DEF Begin
<1> QED
    BY <1>6, MovedTo

(* The types of the locals, from those of the caller that moved.          *)
LEMMA MovedOK ==
    ASSUME NEW c \in Callers, TypeOK, NEW o, NEW p, NEW s, NEW g, NEW u,
           Moved(c, o, p, s, g, u), CallOK(Locals(o, p, s, g, u))
    PROVE  \A d \in Callers : CallOK(call[d])'
<1>1. CallOK(call'[c])
    BY DEF Moved, CallOK, Locals
<1> QED
    BY <1>1 DEF Moved, TypeOK

LEMMA IdleOK == CallOK(Locals(None, None, 0, NoClient, {}))
BY LimitsAssumption DEF CallOK, Locals, Ops, PCs, None

LEMMA ReturnMoves ==
    ASSUME NEW c \in Callers, CallShape, Return(c)
    PROVE  Moved(c, None, None, 0, NoClient, {}) /\ CallShape'
BY MovedTo DEF Return, Idle, Locals

-----------------------------------------------------------------------------
(***************************************************************************)
(* Every step preserves the invariant                                      *)
(***************************************************************************)

(* The one user that logs out was the one that was logged in; a call whose *)
(* client is gone logs nobody out.                                         *)
LEMMA LogoutStep ==
    ASSUME IInv, NEW c \in Callers, Logout(c)
    PROVE  IInv'
<1> USE DEF IInv
<1>1. Moved(c, call[c].op, "close", call[c].session, call[c].cfg, call[c].out) /\ CallShape'
    BY GotoMoves DEF Logout
<1>2. \A d \in Callers : CallOK(call[d])'
  <2>1. CallOK(Locals(call[c].op, "close", call[c].session, call[c].cfg, call[c].out))
    BY LimitsAssumption DEF Logout, Locals, TypeOK, CallOK, Ops, PCs, None
  <2> QED
    BY <1>1, <2>1, MovedOK
<1>3. LocalsOK'
    BY <1>1, NoClientTyped DEF Logout, Moved, LocalsOK
<1>4. Alone'
    BY <1>1 DEF Logout, Moved, Alone, None
<1>5. OneUser'
  <2>1. /\ ~User(c)' /\ (User(c) <=> Alive(c)) /\ loggedIn' = (loggedIn /\ ~Alive(c))
        /\ \A d \in Callers : d # c => (User(d)' <=> User(d))
    BY <1>1 DEF Logout, Moved, User, Alive, Usable
  <2> QED
    BY <2>1 DEF OneUser
<1>6. Accounted'
    BY <1>1 DEF Logout, Moved, Accounted, Holder, Alive, Usable, Alone, None
<1>7. TypeOK'
    BY <1>2, <1>3, <1>6 DEF Logout, TypeOK, LocalsOK, BlobOK, Accounted
<1> QED
    BY <1>1, <1>3, <1>4, <1>5, <1>6, <1>7

(* SetConfig starts when nobody else calls and there is no client.         *)
LEMMA SetConfigStep ==
    ASSUME IInv, NEW c \in Callers, SetConfig(c)
    PROVE  IInv'
<1> USE DEF IInv
<1>0. PICK s \in ValidSettings :
        call' = [call EXCEPT ![c] = Locals("SetConfig", "initialize", 0, s, {})]
    BY DEF SetConfig, Idle, Locals
<1>s. s \in Settings
    BY DEF ValidSettings
<1>1. Moved(c, "SetConfig", "initialize", 0, s, {}) /\ CallShape'
    BY <1>0, MovedTo
<1>2. \A d \in Callers : CallOK(call[d])'
  <2>1. CallOK(Locals("SetConfig", "initialize", 0, s, {}))
    BY <1>s, LimitsAssumption DEF SetConfig, token, InProgress, Locals, TypeOK, CallOK, Ops, PCs, None
  <2> QED
    BY <1>1, <2>1, MovedOK
<1>3. LocalsOK'
    BY <1>s, <1>1, NoClientTyped DEF SetConfig, token, InProgress, Moved, LocalsOK
<1>4. Alone'
    BY <1>s, <1>1 DEF SetConfig, token, InProgress, Moved, Alone, None
<1>5. OneUser'
    BY <1>s, <1>1 DEF SetConfig, token, InProgress, Moved, OneUser, User, Alive, Usable, Alone, None
<1>6. Accounted'
    BY <1>s, <1>1 DEF SetConfig, token, InProgress, Moved, Accounted, Holder, Alive, Usable, Alone, None
<1>7. TypeOK'
    BY <1>s, <1>2, <1>3, <1>6 DEF SetConfig, token, InProgress, TypeOK, LocalsOK, BlobOK, Accounted
<1> QED
    BY <1>1, <1>3, <1>4, <1>5, <1>6, <1>7

(* Another call starts with no session, whatever it does to the blobs.     *)
LEMMA BeginStep ==
    ASSUME IInv, NEW c \in Callers, NEW op \in {"Encrypt", "Decrypt", "GenerateRandom"}, Begin(c, op),
           \A b \in blobs' : BlobOK(b)
    PROVE  IInv'
<1> USE DEF IInv
<1>1. Moved(c, op, "open", 0, client, {}) /\ CallShape'
    BY BeginMoves
<1>i. call[c].pc = None /\ client \in Settings
    BY DEF Begin, TypeOK, CallOK
<1>2. \A d \in Callers : CallOK(call[d])'
  <2>1. CallOK(Locals(op, "open", 0, client, {}))
    BY LimitsAssumption DEF Begin, token, Locals, TypeOK, CallOK, Ops, PCs, None
  <2> QED
    BY <1>1, <2>1, MovedOK
<1>3. LocalsOK'
    BY <1>1, <1>i DEF Begin, token, Moved, LocalsOK
<1>4. Alone'
    BY <1>1 DEF Begin, token, Moved, Alone, None
<1>5. OneUser'
    BY <1>1, <1>i DEF Begin, token, Moved, OneUser, User, Alive, Usable, Alone, None
<1>6. Accounted'
    BY <1>1, <1>i DEF Begin, token, Moved, Accounted, Holder, Alive, Usable, Alone, None
<1>7. TypeOK'
    BY <1>2, <1>3, <1>6 DEF Begin, token, TypeOK, LocalsOK, BlobOK, Accounted
<1> QED
    BY <1>1, <1>3, <1>4, <1>5, <1>6, <1>7

(* Nothing but the library is touched, or the call returns.                *)
LEMMA InitializeStep ==
    ASSUME IInv, NEW c \in Callers, Initialize(c)
    PROVE  IInv'
<1> USE DEF IInv
<1>a. CASE initialized' = TRUE /\ Goto(c, "open")
  <2>1. Moved(c, call[c].op, "open", call[c].session, call[c].cfg, call[c].out) /\ CallShape'
      BY <1>a, GotoMoves
  <2>2. \A d \in Callers : CallOK(call[d])'
    <3>1. CallOK(Locals(call[c].op, "open", call[c].session, call[c].cfg, call[c].out))
      BY LimitsAssumption DEF Initialize, Locals, TypeOK, CallOK, Ops, PCs, None
    <3> QED
      BY <2>1, <3>1, MovedOK
  <2>3. LocalsOK'
      BY <2>1, NoClientTyped DEF Initialize, Moved, LocalsOK
  <2>4. Alone'
      BY <1>a, <2>1 DEF Initialize, Moved, Alone, None
  <2>5. OneUser'
      BY <1>a, <2>1 DEF Initialize, Moved, OneUser, User, Alive, Usable, Alone, None
  <2>6. Accounted'
      BY <1>a, <2>1 DEF Initialize, Moved, Accounted, Holder, Alive, Usable, Alone, None
  <2>7. TypeOK'
      BY <2>2, <2>3, <2>6 DEF Initialize, TypeOK, LocalsOK, BlobOK, Accounted
  <2> QED
      BY <2>1, <2>3, <2>4, <2>5, <2>6, <2>7
<1>b. CASE UNCHANGED initialized /\ Return(c)
  <2>1. Moved(c, None, None, 0, NoClient, {}) /\ CallShape'
      BY <1>b, ReturnMoves
  <2>2. \A d \in Callers : CallOK(call[d])'
      BY <2>1, IdleOK, MovedOK
  <2>3. LocalsOK'
      BY <2>1, NoClientTyped DEF Initialize, Moved, LocalsOK
  <2>4. Alone'
      BY <1>b, <2>1 DEF Initialize, Moved, Alone, None
  <2>5. OneUser'
      BY <1>b, <2>1 DEF Initialize, Moved, OneUser, User, Alive, Usable, Alone, None
  <2>6. Accounted'
      BY <1>b, <2>1 DEF Initialize, Moved, Accounted, Holder, Alive, Usable, Alone, None
  <2>7. TypeOK'
      BY <2>2, <2>3, <2>6 DEF Initialize, TypeOK, LocalsOK, BlobOK, Accounted
  <2> QED
      BY <2>1, <2>3, <2>4, <2>5, <2>6, <2>7
<1> QED
    BY <1>a, <1>b DEF Initialize

(* A new handle is not among the open ones.                                *)
LEMMA OpenSessionStep ==
    ASSUME IInv, NEW c \in Callers, OpenSession(c)
    PROVE  IInv'
<1> USE DEF IInv
<1>a. ASSUME NEW h \in Free, Alive(c), sessions' = sessions \cup {h},
             call' = [call EXCEPT ![c].pc = "login", ![c].session = h]
      PROVE  IInv'
  <2>h. h \in 0..MaxSessions /\ h # 0 /\ h \notin sessions
    BY LimitsAssumption DEF Free
  <2>s. /\ Alive(c) /\ sessions' = sessions \cup {h} /\ call[c].pc = "open"
        /\ UNCHANGED <<store, initialized, loggedIn, lost, client, currentKeyId, blobs>>
    BY <1>a DEF OpenSession
  <2>o. call[c].op \in Ops
    BY <2>s DEF TypeOK, CallOK, None
  <2>1. Moved(c, call[c].op, "login", h, call[c].cfg, call[c].out) /\ CallShape'
      BY <1>a, SessionMoves DEF SetsSession
  <2>2. \A d \in Callers : CallOK(call[d])'
    <3>1. CallOK(Locals(call[c].op, "login", h, call[c].cfg, call[c].out))
      BY <2>h, <2>o DEF Locals, CallOK, Ops, PCs, None
    <3> QED
      BY <2>1, <3>1, MovedOK
  <2>3. LocalsOK'
      BY <2>s, <2>1, NoClientTyped DEF Moved, LocalsOK
  <2>4. Alone'
      BY <2>s, <2>1 DEF Moved, Alone, None
  <2>5. OneUser'
      BY <2>s, <2>1 DEF Moved, OneUser, User, Alive, Usable, Alone, None
  <2>6. Accounted'
    <3>1. Holder(c)' /\ ~Holder(c) /\ call'[c].session = h
      BY <2>s, <2>1 DEF Moved, Holder, Alive, Usable
    <3>2. \A d \in Callers : d # c => (Holder(d)' <=> Holder(d)) /\ call'[d] = call[d]
      BY <2>s, <2>1 DEF Moved, Holder, Alive, Usable
    <3>3. \A d \in Callers : Holder(d) => call[d].session \in sessions
      BY DEF Accounted
    <3>4. \A k : k \in sessions' <=>
                  k \in lost' \/ \E d \in Callers : Holder(d)' /\ call'[d].session = k
      BY <2>s, <3>1, <3>2 DEF Accounted
    <3>5. \A d \in Callers : Holder(d)' => call'[d].session \notin lost'
      BY <2>s, <2>h, <3>1, <3>2 DEF Accounted, TypeOK
    <3>6. \A d, e \in Callers :
            Holder(d)' /\ Holder(e)' /\ d # e => call'[d].session # call'[e].session
      BY <2>h, <3>1, <3>2, <3>3 DEF Accounted
    <3> QED
      BY <3>4, <3>5, <3>6 DEF Accounted
  <2>7. TypeOK'
    <3>1. sessions' \subseteq 1..MaxSessions /\ lost' \subseteq sessions'
      BY <2>s, <2>h DEF TypeOK, Free
    <3> QED
      BY <2>s, <2>2, <2>3, <3>1 DEF TypeOK, LocalsOK, BlobOK
  <2> QED
      BY <2>1, <2>3, <2>4, <2>5, <2>6, <2>7
<1>b. CASE UNCHANGED sessions /\ Return(c)
  <2>1. Moved(c, None, None, 0, NoClient, {}) /\ CallShape'
      BY <1>b, ReturnMoves
  <2>2. \A d \in Callers : CallOK(call[d])'
      BY <2>1, IdleOK, MovedOK
  <2>3. LocalsOK'
      BY <1>b, <2>1, NoClientTyped DEF OpenSession, Moved, LocalsOK
  <2>4. Alone'
      BY <1>b, <2>1 DEF OpenSession, Moved, Alone, None
  <2>5. OneUser'
      BY <1>b, <2>1 DEF OpenSession, Moved, OneUser, User, Alive, Usable, Alone, None
  <2>6. Accounted'
      BY <1>b, <2>1 DEF OpenSession, Moved, Accounted, Holder, Alive, Usable, Alone, None
  <2>7. TypeOK'
      BY <1>b, <2>2, <2>3, <2>6 DEF OpenSession, TypeOK, LocalsOK, BlobOK, Accounted
  <2> QED
      BY <2>1, <2>3, <2>4, <2>5, <2>6, <2>7
<1> QED
    BY <1>a, <1>b DEF OpenSession

(* Who logs in finds nobody logged in; who fails leaves its session to the *)
(* lost ones.                                                              *)
LEMMA LoginStep ==
    ASSUME IInv, NEW c \in Callers, Login(c)
    PROVE  IInv'
<1> USE DEF IInv
<1>a. CASE /\ Alive(c) /\ ~loggedIn /\ loggedIn' = TRUE
           /\ Goto(c, IF call[c].op = "SetConfig" THEN "logout" ELSE "use")
           /\ UNCHANGED lost
  <2>1. Moved(c, call[c].op, IF call[c].op = "SetConfig" THEN "logout" ELSE "use", call[c].session, call[c].cfg, call[c].out) /\ CallShape'
      BY <1>a, GotoMoves
  <2>2. \A d \in Callers : CallOK(call[d])'
    <3>1. CallOK(Locals(call[c].op, IF call[c].op = "SetConfig" THEN "logout" ELSE "use", call[c].session, call[c].cfg, call[c].out))
      BY <1>a, LimitsAssumption DEF Login, Locals, TypeOK, CallOK, Ops, PCs, None
    <3> QED
      BY <2>1, <3>1, MovedOK
  <2>3. LocalsOK'
      BY <1>a, <2>1, NoClientTyped DEF Login, Moved, LocalsOK
  <2>4. Alone'
      BY <1>a, <2>1 DEF Login, Moved, Alone, None
  <2>5. OneUser'
      BY <1>a, <2>1 DEF Login, Moved, OneUser, User, Alive, Usable, Alone, None
  <2>6. Accounted'
      BY <1>a, <2>1 DEF Login, Moved, Accounted, Holder, Alive, Usable, Alone, None
  <2>7. TypeOK'
      BY <1>a, <2>2, <2>3, <2>6 DEF Login, TypeOK, LocalsOK, BlobOK, Accounted
  <2> QED
      BY <2>1, <2>3, <2>4, <2>5, <2>6, <2>7
<1>b. CASE /\ Return(c) /\ UNCHANGED loggedIn
           /\ lost' = IF Alive(c) THEN lost \cup {call[c].session} ELSE lost
  <2>1. Moved(c, None, None, 0, NoClient, {}) /\ CallShape'
      BY <1>b, ReturnMoves
  <2>2. \A d \in Callers : CallOK(call[d])'
      BY <2>1, IdleOK, MovedOK
  <2>3. LocalsOK'
      BY <1>b, <2>1, NoClientTyped DEF Login, Moved, LocalsOK
  <2>4. Alone'
      BY <1>b, <2>1 DEF Login, Moved, Alone, None
  <2>5. OneUser'
      BY <1>b, <2>1 DEF Login, Moved, OneUser, User, Alive, Usable, Alone, None
  <2>6. Accounted'
      BY <1>b, <2>1 DEF Login, Moved, Accounted, Holder, Alive, Usable, Alone, None
  <2>7. TypeOK'
      BY <1>b, <2>2, <2>3, <2>6 DEF Login, TypeOK, LocalsOK, BlobOK, Accounted
  <2> QED
      BY <2>1, <2>3, <2>4, <2>5, <2>6, <2>7
<1> QED
    BY <1>a, <1>b DEF Login

(* What Encrypt computed is kept with the call.                            *)
LEMMA UseEncryptStep ==
    ASSUME IInv, NEW c \in Callers, UseEncrypt(c)
    PROVE  IInv'
<1> USE DEF IInv
<1>0. PICK b : /\ BlobOK(b)
                /\ call' = [call EXCEPT ![c].pc = "logout", ![c].out = {b}]
    BY DEF UseEncrypt, BlobOK
<1>1. Moved(c, call[c].op, "logout", call[c].session, call[c].cfg, {b}) /\ CallShape'
    BY <1>0, OutMoves DEF SetsOut
<1>2. \A d \in Callers : CallOK(call[d])'
  <2>1. CallOK(Locals(call[c].op, "logout", call[c].session, call[c].cfg, {b}))
    BY <1>0, LimitsAssumption DEF UseEncrypt, token, Locals, TypeOK, CallOK, Ops, PCs, None
  <2> QED
    BY <1>1, <2>1, MovedOK
<1>e. /\ call[c].pc = "use" /\ UNCHANGED <<token, client, currentKeyId, blobs>>
    BY DEF UseEncrypt
<1>3. LocalsOK'
    BY <1>0, <1>1, <1>e DEF token, Moved, LocalsOK
<1>4. Alone'
    BY <1>e, <1>1 DEF token, Moved, Alone, None
<1>5. OneUser'
    BY <1>e, <1>1 DEF token, Moved, OneUser, User, Alive, Usable, Alone, None
<1>6. Accounted'
    BY <1>e, <1>1 DEF token, Moved, Accounted, Holder, Alive, Usable, Alone, None
<1>7. TypeOK'
    BY <1>e, <1>2, <1>3, <1>6 DEF token, TypeOK, LocalsOK, BlobOK, Accounted
<1> QED
    BY <1>1, <1>3, <1>4, <1>5, <1>6, <1>7

(* Decrypt and GenerateRandom, and errors, change nothing but the position. *)
LEMMA UseOtherStep ==
    ASSUME IInv, NEW c \in Callers, UseOther(c)
    PROVE  IInv'
<1> USE DEF IInv
<1>1. Moved(c, call[c].op, "logout", call[c].session, call[c].cfg, call[c].out) /\ CallShape'
    BY GotoMoves DEF UseOther
<1>2. \A d \in Callers : CallOK(call[d])'
  <2>1. CallOK(Locals(call[c].op, "logout", call[c].session, call[c].cfg, call[c].out))
    BY LimitsAssumption DEF UseOther, token, Locals, TypeOK, CallOK, Ops, PCs, None
  <2> QED
    BY <1>1, <2>1, MovedOK
<1>3. LocalsOK'
    BY <1>1, NoClientTyped DEF UseOther, token, Moved, LocalsOK
<1>4. Alone'
    BY <1>1 DEF UseOther, token, Moved, Alone, None
<1>5. OneUser'
    BY <1>1 DEF UseOther, token, Moved, OneUser, User, Alive, Usable, Alone, None
<1>6. Accounted'
    BY <1>1 DEF UseOther, token, Moved, Accounted, Holder, Alive, Usable, Alone, None
<1>7. TypeOK'
    BY <1>2, <1>3, <1>6 DEF UseOther, token, TypeOK, LocalsOK, BlobOK, Accounted
<1> QED
    BY <1>1, <1>3, <1>4, <1>5, <1>6, <1>7

(* A call that closes its session is the only one that holds it.           *)
LEMMA CloseSessionStep ==
    ASSUME IInv, NEW c \in Callers, CloseSession(c)
    PROVE  IInv'
<1> USE DEF IInv
<1>0. /\ currentKeyId' \in KeyStrings
      /\ \A b \in blobs' : BlobOK(b)
  <2>1. KeyString(call[c].cfg) \in KeyStrings
    BY KeyStringsTyped DEF LocalsOK
  <2> QED
    BY <2>1 DEF CloseSession, Finish, TypeOK, LocalsOK
<1>h. /\ call[c].pc = "close" /\ UNCHANGED <<lost, client, loggedIn, initialized>>
      /\ sessions' = IF Alive(c) THEN sessions \ {call[c].session} ELSE sessions
    BY DEF CloseSession, Finish
<1>i. ASSUME call'[c].pc \in {None, "configure"},
             \A d \in Callers : d # c => call'[d] = call[d]
      PROVE  Accounted' /\ OneUser'
  <2>1. ~Holder(c)' /\ ~User(c)' /\ ~User(c) /\ (Holder(c) <=> Alive(c))
    BY <1>h, <1>i DEF Holder, User, None
  <2>2. \A d \in Callers : d # c => /\ call'[d] = call[d] /\ (User(d)' <=> User(d))
                                    /\ (Holder(d)' <=> Holder(d))
    BY <1>h, <1>i DEF Holder, User, Alive, Usable
  <2>3. \A k : k \in sessions' <=> k \in sessions /\ ~(Holder(c) /\ k = call[c].session)
    BY <1>h, <2>1
  <2>4. \A k : k \in sessions' <=>
                k \in lost' \/ \E d \in Callers : Holder(d)' /\ call'[d].session = k
    BY <1>h, <2>1, <2>2, <2>3 DEF Accounted
  <2>5. \A d \in Callers : Holder(d)' => call'[d].session \notin lost'
    BY <1>h, <2>1, <2>2 DEF Accounted
  <2>6. \A d, e \in Callers :
          Holder(d)' /\ Holder(e)' /\ d # e => call'[d].session # call'[e].session
    BY <2>1, <2>2 DEF Accounted
  <2>7. Accounted'
    BY <2>4, <2>5, <2>6 DEF Accounted
  <2>8. OneUser'
    BY <1>h, <2>1, <2>2 DEF OneUser
  <2> QED
    BY <2>7, <2>8
<1>a. CASE call[c].op = "SetConfig"
  <2>1. Moved(c, call[c].op, "configure", call[c].session, call[c].cfg, call[c].out) /\ CallShape'
      BY <1>a, GotoMoves DEF CloseSession, Finish
  <2>2. \A d \in Callers : CallOK(call[d])'
    <3>1. CallOK(Locals(call[c].op, "configure", call[c].session, call[c].cfg, call[c].out))
      BY <1>0, <1>a, LimitsAssumption DEF CloseSession, Finish, Locals, TypeOK, CallOK, Ops, PCs, None
    <3> QED
      BY <2>1, <3>1, MovedOK
  <2>3. LocalsOK'
      BY <1>0, <1>a, <2>1, NoClientTyped DEF CloseSession, Finish, Moved, LocalsOK
  <2>4. Alone'
      BY <1>0, <1>a, <2>1 DEF CloseSession, Finish, Moved, Alone, None
  <2>5. OneUser'
      BY <1>i, <2>1 DEF Moved
  <2>6. Accounted'
      BY <1>i, <2>1 DEF Moved
  <2>7. TypeOK'
      BY <1>0, <1>a, <2>2, <2>3, <2>6 DEF CloseSession, Finish, TypeOK, LocalsOK, BlobOK, Accounted
  <2> QED
      BY <2>1, <2>3, <2>4, <2>5, <2>6, <2>7
<1>b. CASE call[c].op # "SetConfig"
  <2>1. Moved(c, None, None, 0, NoClient, {}) /\ CallShape'
      BY <1>b, ReturnMoves DEF CloseSession, Finish
  <2>2. \A d \in Callers : CallOK(call[d])'
      BY <2>1, IdleOK, MovedOK
  <2>3. LocalsOK'
      BY <1>0, <1>b, <2>1, NoClientTyped DEF CloseSession, Finish, Moved, LocalsOK
  <2>4. Alone'
      BY <1>0, <1>b, <2>1 DEF CloseSession, Finish, Moved, Alone, None
  <2>5. OneUser'
      BY <1>i, <2>1 DEF Moved
  <2>6. Accounted'
      BY <1>i, <2>1 DEF Moved
  <2>7. TypeOK'
      BY <1>0, <1>b, <2>2, <2>3, <2>6 DEF CloseSession, Finish, TypeOK, LocalsOK, BlobOK, Accounted
  <2> QED
      BY <2>1, <2>3, <2>4, <2>5, <2>6, <2>7
<1> QED
    BY <1>a, <1>b

(* The new client wakes no stale call: there is none.                      *)
LEMMA ConfigureStep ==
    ASSUME IInv, NEW c \in Callers, Configure(c)
    PROVE  IInv'
<1> USE DEF IInv
<1>1. Moved(c, None, None, 0, NoClient, {}) /\ CallShape'
    BY ReturnMoves DEF Configure
<1>i. \A d \in Callers : d # c => call[d].pc = None
    BY DEF Configure, Alone, TypeOK, CallOK
<1>2. \A d \in Callers : CallOK(call[d])'
    BY <1>1, IdleOK, MovedOK
<1>3. LocalsOK'
    BY <1>1, NoClientTyped DEF Configure, token, Moved, LocalsOK
<1>4. Alone'
    BY <1>1 DEF Configure, token, Moved, Alone, None
<1>5. OneUser'
    BY <1>1, <1>i DEF Configure, token, Moved, OneUser, User, Alive, Usable, Alone, None
<1>6. Accounted'
    BY <1>1, <1>i DEF Configure, token, Moved, Accounted, Holder, Alive, Usable, Alone, None
<1>7. TypeOK'
    BY <1>2, <1>3, <1>6 DEF Configure, token, TypeOK, LocalsOK, BlobOK, Accounted
<1> QED
    BY <1>1, <1>3, <1>4, <1>5, <1>6, <1>7

(* Without a client no call but SetConfig is alive, and SetConfig was not  *)
(* running: nobody misses the sessions and the login that are gone.        *)
LEMMA FinalizeStep ==
    ASSUME IInv, Finalize
    PROVE  IInv'
<1> USE DEF IInv, Finalize
<1>1. \A c \in Callers : call[c].op # "SetConfig" /\ ~Alive(c)'
    BY DEF Alone, Alive
<1>2. TypeOK'
    BY DEF TypeOK
<1>3. CallShape' /\ LocalsOK' /\ Alone'
    BY <1>1 DEF CallShape, LocalsOK, Alone
<1>4. OneUser' /\ Accounted'
    BY <1>1 DEF OneUser, Accounted, User, Holder
<1> QED
    BY <1>2, <1>3, <1>4

(* Nor is any once the client is given up.                                 *)
LEMMA DestroyStep ==
    ASSUME IInv, Destroy
    PROVE  IInv'
<1> USE DEF IInv, Destroy, token
<1>1. \A c \in Callers : call[c].op # "SetConfig" /\ ~Alive(c) /\ ~Alive(c)'
    BY DEF Alone, Alive
<1>2. TypeOK'
    BY NoClientTyped DEF TypeOK
<1>3. CallShape' /\ LocalsOK' /\ Alone'
    BY <1>1 DEF CallShape, LocalsOK, Alone
<1>4. OneUser' /\ Accounted'
    BY <1>1 DEF OneUser, Accounted, User, Holder
<1> QED
    BY <1>2, <1>3, <1>4

(* A new process knows nothing of the old one but the blobs.               *)
LEMMA RestartStep ==
    ASSUME IInv, Restart
    PROVE  IInv'
<1> USE DEF IInv, Restart, Idle
<1>1. CallShape'
    BY DEF CallShape
<1>2. \A c \in Callers : CallOK(call[c])'
  <2>1. CallOK(Idle)
    BY LimitsAssumption DEF CallOK, Ops, PCs, None
  <2>2. \A c \in Callers : CallOK(call'[c])
    BY <2>1
  <2> QED
    BY <2>2
<1>3. TypeOK'
    BY <1>2, NoClientTyped, KeyStringsTyped DEF TypeOK
<1>4. LocalsOK'
    BY NoClientTyped DEF LocalsOK
<1>5. Alone' /\ OneUser' /\ Accounted'
    BY DEF Alone, OneUser, Accounted, User, Holder, None
<1> QED
    BY <1>1, <1>3, <1>4, <1>5

(* Decrypt names the key in a blob and leaves the rest of it.              *)
LEMMA DecryptBlobs ==
    ASSUME IInv, NEW c \in Callers, Decrypt(c)
    PROVE  \A b \in blobs' : BlobOK(b)
<1>1. PICK b \in blobs : blobs' = (blobs \ {b}) \cup {Named(client, b)}
    BY DEF Decrypt
<1>2. \A a \in blobs : BlobOK(a)
    BY DEF IInv, LocalsOK
<1>3. \A x, y, z : BlobOK([b EXCEPT !.info = x, !.keyId = y, !.name = z])
    BY <1>2 DEF BlobOK
<1>4. BlobOK(Named(client, b))
    BY <1>2, <1>3 DEF Named
<1> QED
    BY <1>1, <1>2, <1>4

LEMMA StepIInv == IInv /\ [Next]_vars => IInv'
<1> SUFFICES ASSUME IInv, [Next]_vars PROVE IInv'
    OBVIOUS
<1>1. ASSUME NEW c \in Callers, SetConfig(c) PROVE IInv'
    BY <1>1, SetConfigStep
<1>2. ASSUME NEW c \in Callers, Encrypt(c) PROVE IInv'
  <2>1. \A b \in blobs' : BlobOK(b)
    BY <1>2 DEF Encrypt, IInv, LocalsOK
  <2> QED
    BY <1>2, <2>1, BeginStep DEF Encrypt
<1>3. ASSUME NEW c \in Callers, Decrypt(c) PROVE IInv'
    BY <1>3, DecryptBlobs, BeginStep DEF Decrypt
<1>4. ASSUME NEW c \in Callers, GenerateRandom(c) PROVE IInv'
  <2>1. \A b \in blobs' : BlobOK(b)
    BY <1>4 DEF GenerateRandom, IInv, LocalsOK
  <2> QED
    BY <1>4, <2>1, BeginStep DEF GenerateRandom
<1>5. ASSUME NEW c \in Callers, Step(c) PROVE IInv'
    BY <1>5, InitializeStep, OpenSessionStep, LoginStep, UseEncryptStep, UseOtherStep,
       LogoutStep, CloseSessionStep, ConfigureStep DEF Step
<1>6. CASE UNCHANGED vars
  <2> USE <1>6 DEF vars, IInv
  <2>1. CallShape' /\ TypeOK' /\ LocalsOK'
    BY DEF CallShape, TypeOK, CallOK, LocalsOK
  <2>2. Alone'
    BY DEF Alone
  <2>3. OneUser' /\ Accounted'
    BY DEF OneUser, Accounted, User, Holder, Alive, Usable
  <2> QED
    BY <2>1, <2>2, <2>3
<1> QED
    BY <1>1, <1>2, <1>3, <1>4, <1>5, <1>6, FinalizeStep, DestroyStep, RestartStep DEF Next

LEMMA AlwaysIInv == Spec => []IInv
<1>1. Init => IInv
    BY InitIInv
<1>2. IInv /\ [Next]_vars => IInv'
    BY StepIInv
<1> QED
    BY <1>1, <1>2, PTL DEF Spec

-----------------------------------------------------------------------------
(***************************************************************************)
(* Theorems                                                                *)
(***************************************************************************)

(* Every variable keeps its type, the sessions stay within what the token  *)
(* grants, and a call has a session exactly while it is between            *)
(* GetSession's OpenSession and the return.                                *)
THEOREM TypeCorrect == Spec => []TypeOK
<1>1. IInv => TypeOK
    BY DEF IInv
<1> QED
    BY <1>1, AlwaysIInv, PTL

(* Between its Login and its Logout a call of the client is the only one   *)
(* there, and the token is logged in exactly then, with any number of      *)
(* goroutines and with Finalize at any time.                               *)
THEOREM LoginExclusiveHolds == Spec => []LoginExclusive
<1>1. IInv => LoginExclusive
  <2> SUFFICES ASSUME IInv PROVE LoginExclusive
    OBVIOUS
  <2> DEFINE users == {c \in Callers : call[c].pc \in {"use", "logout"} /\ Alive(c)}
  <2>1. users # {} <=> loggedIn
    BY DEF IInv, OneUser, User
  <2>2. Cardinality(users) <= 1
    <3>1. CASE users = {}
      BY <3>1, FS_EmptySet
    <3>2. CASE users # {}
      <4>1. PICK c \in users : TRUE
        BY <3>2
      <4>2. users = {c}
        BY <4>1 DEF IInv, OneUser, User
      <4>3. Cardinality({c}) = 1
        BY FS_Singleton
      <4>4. Cardinality(users) = 1
        BY <4>2, <4>3
      <4> HIDE DEF users
      <4> QED
        BY <4>4
    <3> QED
      BY <3>1, <3>2
  <2> QED
    BY <2>1, <2>2 DEF LoginExclusive
<1> QED
    BY <1>1, AlwaysIInv, PTL

(* The open sessions are those of the calls in progress, each call having  *)
(* its own, and those that a failed Login left: no error path, no Finalize *)
(* and no restart leaves another one behind.                               *)
THEOREM SessionsAccountedHolds == Spec => []SessionsAccounted
<1>1. IInv => SessionsAccounted
    BY DEF IInv, Accounted, SessionsAccounted, Holder
<1> QED
    BY <1>1, AlwaysIInv, PTL

-----------------------------------------------------------------------------
(***************************************************************************)
(* What is in a blob                                                       *)
(***************************************************************************)
Text(m, mech, n, x) == <<[by |-> m, mech |-> mech, with |-> n, of |-> x]>>

(* A blob of an older release is of some AES key; any other is of the key  *)
(* that was found by the name in the settings, and has the nonce or is     *)
(* encrypted with that key's public half.                                  *)
OldMade(b, objs) ==
    b.old /\ \E o \in objs : /\ o.keytype = "AES"
                            /\ b.text = Text(o.material, "CKM_AES_GCM", b.iv, b.of)

NewMade(b, objs) ==
    /\ ~b.old /\ b.info
    /\ \E k \in FindKey(objs, b.name.label, b.name.id) :
          \/ /\ k.key.keytype = "AES"
             /\ b.text = Text(k.key.material, "CKM_AES_GCM", b.iv, b.of)
          \/ /\ k.key.keytype = "RSA"
             /\ \E n : b.text = Text(k.public.material, "CKM_RSA_PKCS_OAEP", n, b.of)

(* The KeyInfo is the text of the name.                                    *)
BlobMade(b, objs) ==
    /\ b = [info |-> b.info, keyId |-> b.keyId, iv |-> b.iv, text |-> b.text,
            name |-> b.name, old |-> b.old, of |-> b.of]
    /\ b.info => \E s \in Settings : b.keyId = KeyString(s) /\ b.name = Name(s)
    /\ OldMade(b, objs) \/ NewMade(b, objs)

BlobsMade ==
    /\ \A b \in blobs : BlobMade(b, store)
    /\ \A c \in Callers : \A b \in call[c].out : BlobMade(b, store)

LEMMA InitBlobsMade == Init => BlobsMade
<1> SUFFICES ASSUME Init PROVE BlobsMade
  OBVIOUS
<1>1. ASSUME NEW b \in OldBlobs(store)
      PROVE  BlobMade(b, store)
  <2>1. PICK o \in store, c \in Callers :
          /\ o.keytype = "AES"
          /\ b = [info |-> FALSE, keyId |-> NoText, iv |-> EncryptAesGcm(o, c).iv,
                  text |-> EncryptAesGcm(o, c).text, name |-> Name(NoClient),
                  old |-> TRUE, of |-> c]
    BY <1>1 DEF OldBlobs
  <2>2. EncryptAesGcm(o, c).text
          = Text(o.material, "CKM_AES_GCM", EncryptAesGcm(o, c).iv, c)
    BY DEF EncryptAesGcm, Text
  <2> QED
    BY <2>1, <2>2 DEF BlobMade, OldMade
<1>2. \A c \in Callers : call[c].out = {}
  BY DEF Init, Idle
<1>3. \A b \in blobs : b \in OldBlobs(store)
  BY DEF Init
<1> QED
  BY <1>1, <1>2, <1>3 DEF BlobsMade

(* UseEncrypt makes such a blob.                                           *)
LEMMA EncryptMakes ==
    ASSUME NEW objs, NEW s \in Settings, NEW c, NEW k \in FindKey(objs, s.keyLabel, s.keyId),
           NEW ct \in EncryptWith(s, k, c), NEW b,
           b = [info |-> TRUE, keyId |-> KeyString(s), iv |-> ct.iv, text |-> ct.text,
                name |-> Name(s), old |-> FALSE, of |-> c]
    PROVE  BlobMade(b, objs)
<1>0. /\ b.info /\ ~b.old /\ b.keyId = KeyString(s) /\ b.name = Name(s) /\ b.iv = ct.iv
      /\ b.text = ct.text /\ b.of = c
      /\ b = [info |-> b.info, keyId |-> b.keyId, iv |-> b.iv, text |-> b.text,
              name |-> b.name, old |-> b.old, of |-> b.of]
  OBVIOUS
<1>n. b.name.label = s.keyLabel /\ b.name.id = s.keyId
  BY <1>0 DEF Name
<1>1. CASE k.key.keytype = "AES" /\ ct = EncryptAesGcm(k.key, c)
  <2>1. ct.text = Text(k.key.material, "CKM_AES_GCM", ct.iv, c)
    BY <1>1 DEF EncryptAesGcm, Text
  <2>2. NewMade(b, objs)
    BY <1>0, <1>n, <1>1, <2>1 DEF NewMade
  <2> QED
    BY <1>0, <2>2 DEF BlobMade
<1>2. CASE k.key.keytype = "RSA" /\ ct = EncryptRsaOaep(s, k.public, c)
  <2>1. ct.text = Text(k.public.material, "CKM_RSA_PKCS_OAEP", RsaOaepHash(s), c)
    BY <1>2 DEF EncryptRsaOaep, Text
  <2>2. NewMade(b, objs)
    BY <1>0, <1>n, <1>2, <2>1 DEF NewMade
  <2> QED
    BY <1>0, <2>2 DEF BlobMade
<1> QED
  BY <1>1, <1>2 DEF EncryptWith

(* A name that Decrypt writes into a blob of a release before KeyInfo      *)
(* leaves what is in it.                                                   *)
LEMMA NamedMade ==
    ASSUME NEW b, NEW objs, NEW s \in Settings, BlobMade(b, objs)
    PROVE  BlobMade(Named(s, b), objs)
<1>1. CASE b.info
  BY <1>1 DEF Named
<1>2. CASE ~b.info
  <2>1. PICK b2 : b2 = [b EXCEPT !.info = TRUE, !.keyId = KeyString(s), !.name = Name(s)]
    OBVIOUS
  <2>2. /\ b2 = [info |-> TRUE, keyId |-> KeyString(s), iv |-> b.iv, text |-> b.text,
                 name |-> Name(s), old |-> b.old, of |-> b.of]
    BY <2>1 DEF BlobMade
  <2>3. /\ b2 = [info |-> b2.info, keyId |-> b2.keyId, iv |-> b2.iv, text |-> b2.text,
                 name |-> b2.name, old |-> b2.old, of |-> b2.of]
        /\ b2.keyId = KeyString(s) /\ b2.name = Name(s) /\ b2.iv = b.iv
        /\ b2.text = b.text /\ b2.old = b.old /\ b2.of = b.of
    BY <2>2
  <2>4. OldMade(b2, objs)
    BY <1>2, <2>3 DEF BlobMade, OldMade, NewMade
  <2>5. BlobMade(b2, objs)
    BY <2>3, <2>4 DEF BlobMade
  <2> QED
    BY <1>2, <2>1, <2>5 DEF Named
<1> QED
  BY <1>1, <1>2

LEMMA NextBlobsMade == IInv /\ BlobsMade /\ [Next]_vars => BlobsMade'
<1> SUFFICES ASSUME IInv, BlobsMade, [Next]_vars PROVE BlobsMade'
  OBVIOUS
<1>0. CallShape /\ store' = store /\ client \in Settings
      /\ \A c \in Callers : call[c].cfg \in Settings
  BY DEF IInv, TypeOK, LocalsOK, Next, vars, token, SetConfig, Encrypt, Decrypt,
     GenerateRandom, Begin, Step, Initialize, OpenSession, Login, UseEncrypt, UseOther,
     Logout, CloseSession, Finish, Configure, Finalize, Destroy, Restart
<1>1. ASSUME NEW c \in Callers, NEW o, NEW p, NEW h, NEW g, NEW u,
             Moved(c, o, p, h, g, u), \A b \in u : BlobMade(b, store),
             \A b \in blobs' : BlobMade(b, store)
      PROVE  BlobsMade'
  BY <1>0, <1>1 DEF BlobsMade, Moved
<1>2. ASSUME NEW c \in Callers, NEW o, NEW p, NEW h, NEW g, NEW u,
             Moved(c, o, p, h, g, u), u = {} \/ u = call[c].out, blobs' = blobs
      PROVE  BlobsMade'
  BY <1>1, <1>2 DEF BlobsMade
<1>3. ASSUME NEW c \in Callers, SetConfig(c) PROVE BlobsMade'
  <2>1. \A d \in Callers : call'[d].out \in {call[d].out, {}}
    <3>1. PICK s : call' = [call EXCEPT ![c] = [Idle EXCEPT !.op = "SetConfig",
                                                 !.pc = "initialize", !.cfg = s]]
      BY <1>3 DEF SetConfig
    <3>2. PICK r2 : r2 = [Idle EXCEPT !.op = "SetConfig", !.pc = "initialize", !.cfg = s]
      OBVIOUS
    <3>3. r2.out = {}
      BY <3>2 DEF Idle
    <3>4. call' = [call EXCEPT ![c] = r2] /\ call = [d \in Callers |-> call[d]]
      BY <1>0, <3>1, <3>2 DEF CallShape
    <3> QED
      BY <3>3, <3>4
  <2>2. blobs' = blobs
    BY <1>3 DEF SetConfig
  <2> QED
    BY <1>0, <2>1, <2>2 DEF BlobsMade
<1>4. ASSUME NEW c \in Callers, Encrypt(c) \/ GenerateRandom(c) PROVE BlobsMade'
  BY <1>0, <1>2, <1>4, BeginMoves DEF Encrypt, GenerateRandom
<1>5. ASSUME NEW c \in Callers, Decrypt(c) PROVE BlobsMade'
  <2>1. Moved(c, "Decrypt", "open", 0, client, {})
    BY <1>0, <1>5, BeginMoves DEF Decrypt
  <2>2. PICK b \in blobs : blobs' = (blobs \ {b}) \cup {Named(client, b)}
    BY <1>5 DEF Decrypt
  <2>3. BlobMade(Named(client, b), store)
    BY <1>0, NamedMade DEF BlobsMade
  <2>4. \A a \in blobs' : BlobMade(a, store)
    BY <2>2, <2>3 DEF BlobsMade
  <2> QED
    BY <1>1, <2>1, <2>4
<1>6. ASSUME NEW c \in Callers, UseEncrypt(c) PROVE BlobsMade'
  <2> DEFINE s == call[c].cfg
  <2>0. PICK k \in FindKey(store, s.keyLabel, s.keyId) : \E ct \in EncryptWith(s, k, c) :
          call' = [call EXCEPT ![c].pc = "logout",
                ![c].out = {[info |-> TRUE, keyId |-> KeyString(s), iv |-> ct.iv,
                             text |-> ct.text, name |-> Name(s), old |-> FALSE,
                             of |-> c]}]
    BY <1>6 DEF UseEncrypt
  <2>1. PICK ct \in EncryptWith(s, k, c) :
          call' = [call EXCEPT ![c].pc = "logout",
                ![c].out = {[info |-> TRUE, keyId |-> KeyString(s), iv |-> ct.iv,
                             text |-> ct.text, name |-> Name(s), old |-> FALSE,
                             of |-> c]}]
    BY <2>0
  <2>2. PICK b : b = [info |-> TRUE, keyId |-> KeyString(s), iv |-> ct.iv,
                      text |-> ct.text, name |-> Name(s), old |-> FALSE, of |-> c]
    OBVIOUS
  <2>3. BlobMade(b, store)
    BY <1>0, <2>2, EncryptMakes
  <2>4. Moved(c, call[c].op, "logout", call[c].session, call[c].cfg, {b})
    BY <1>0, <2>1, <2>2, OutMoves DEF SetsOut
  <2>5. \A a \in blobs' : BlobMade(a, store)
    BY <1>6 DEF UseEncrypt, BlobsMade
  <2> QED
    BY <1>1, <2>3, <2>4, <2>5
<1>7. ASSUME NEW c \in Callers,
             Initialize(c) \/ Login(c) \/ UseOther(c) \/ Logout(c) \/ Configure(c)
      PROVE  BlobsMade'
  <2>1. blobs' = blobs /\ (Return(c) \/ \E pc : Goto(c, pc))
    BY <1>7 DEF Initialize, Login, UseOther, Logout, Configure
  <2> QED
    BY <1>0, <1>2, <2>1, ReturnMoves, GotoMoves
<1>8. ASSUME NEW c \in Callers, OpenSession(c) PROVE BlobsMade'
  <2>1. blobs' = blobs /\ (Return(c) \/ \E h : SetsSession(c, "login", h))
    BY <1>8 DEF OpenSession, SetsSession
  <2> QED
    BY <1>0, <1>2, <2>1, ReturnMoves, SessionMoves
<1>9. ASSUME NEW c \in Callers, CloseSession(c) PROVE BlobsMade'
  <2>1. Return(c) \/ Goto(c, "configure")
    BY <1>9 DEF CloseSession, Finish
  <2>2. \A b \in blobs' : BlobMade(b, store)
    BY <1>9 DEF CloseSession, Finish, BlobsMade
  <2>3. \A b \in call[c].out : BlobMade(b, store)
    BY DEF BlobsMade
  <2> QED
    BY <1>0, <1>1, <2>1, <2>2, <2>3, ReturnMoves, GotoMoves
<1>10. CASE Finalize \/ Destroy \/ UNCHANGED vars
  BY <1>0, <1>10 DEF Finalize, Destroy, vars, BlobsMade
<1>11. CASE Restart
  BY <1>0, <1>11 DEF Restart, Idle, BlobsMade
<1> QED
  BY <1>3, <1>4, <1>5, <1>6, <1>7, <1>8, <1>9, <1>10, <1>11 DEF Next, Step

-----------------------------------------------------------------------------
(***************************************************************************)
(* Reading a blob                                                          *)
(***************************************************************************)

(* A name that belongs to one key, or one pair, gives FindKey no choice.   *)
LEMMA FindsAll ==
    ASSUME NEW objs \in Stores, NEW l, NEW i, UniqueKey(objs, l, i)
    PROVE  FindKey(objs, l, i) = KeyInfos(objs, Matching(objs, l, i))
<1> DEFINE M == Matching(objs, l, i)
<1>1. M \in SUBSET objs /\ IsFiniteSet(objs)
  BY TokensAssumption DEF Matching
<1>2. IsFiniteSet(M)
  BY <1>1, FS_Subset
<1>3. Cardinality(M) \in {1, 2}
  BY DEF UniqueKey
<1> HIDE DEF M
<1>4. FindObjects(M, 2) = {M}
  <2>1. ASSUME NEW S \in SUBSET M, Cardinality(S) = Cardinality(M)
        PROVE  S = M
    BY <1>2, <2>1, FS_Subset
  <2>2. (IF Cardinality(M) < 2 THEN Cardinality(M) ELSE 2) = Cardinality(M)
    BY <1>3
  <2> QED
    BY <2>1, <2>2 DEF FindObjects
<1>5. UNION {KeyInfos(objs, S) : S \in {M}} = KeyInfos(objs, M)
  OBVIOUS
<1>6. FindKey(objs, l, i) = UNION {KeyInfos(objs, S) : S \in FindObjects(M, 2)}
  BY DEF FindKey, M
<1>7. FindKey(objs, l, i) = KeyInfos(objs, M)
  BY <1>4, <1>5, <1>6
<1> QED
  BY <1>7 DEF M

(* The object of that name that is not a public key is the key found, and  *)
(* an AES key of that name is alone.                                       *)
LEMMA FindsOne ==
    ASSUME NEW objs \in Stores, NEW l, NEW i, UniqueKey(objs, l, i),
           NEW o \in Matching(objs, l, i), o.class # "public"
    PROVE  /\ \A k \in FindKey(objs, l, i) : k.key = o
           /\ o.keytype = "AES" => FindKey(objs, l, i) # {}
<1> DEFINE M == Matching(objs, l, i)
<1>1. M \in SUBSET objs /\ IsFiniteSet(objs)
  BY TokensAssumption DEF Matching
<1>2. IsFiniteSet(M) /\ o \in M /\ o \in objs
  BY <1>1, FS_Subset
<1>3. FindKey(objs, l, i) = KeyInfos(objs, M)
  BY FindsAll
<1>4. \/ Cardinality(M) = 1
      \/ /\ Cardinality(M) = 2
         /\ \E a, p \in M : a.class = "private" /\ p.class = "public"
  BY DEF UniqueKey
<1> HIDE DEF M
<1>5. CASE Cardinality(M) = 1
  <2>1. M = {o}
    BY <1>2, <1>5, FS_Singleton
  <2>2. (CHOOSE x \in M : TRUE) = o
    BY <2>1
  <2>3. ASSUME NEW k \in KeyInfos(objs, M)
        PROVE  k.key = o
    <3>1. k.key = CHOOSE x \in M : TRUE
      BY <1>5, <2>3 DEF KeyInfos
    <3> QED
      BY <2>2, <3>1
  <2>4. ASSUME o.keytype = "AES"
        PROVE  KeyInfos(objs, M) # {}
    <3>1. o.class = "secret"
      BY <1>2, <2>4, TokensAssumption
    <3>2. [key |-> o, public |-> o] \in KeyInfos(objs, M)
      BY <1>5, <2>1, <2>2, <3>1 DEF KeyInfos
    <3> QED
      BY <3>2
  <2> QED
    BY <1>3, <2>3, <2>4
<1>6. CASE /\ Cardinality(M) = 2
           /\ \E a, p \in M : a.class = "private" /\ p.class = "public"
  <2>1. PICK a \in M, p \in M : a.class = "private" /\ p.class = "public"
    BY <1>6
  <2>2. Cardinality(M \ {p}) = 1 /\ IsFiniteSet(M \ {p})
    BY <1>2, <1>6, <2>1, FS_RemoveElement
  <2>3. PICK x : M \ {p} = {x}
    BY <2>2, FS_Singleton
  <2>4. M = {a, p} /\ a # p
    BY <2>1, <2>3
  <2>5. o = a
    BY <1>2, <2>1, <2>4
  <2>6. ASSUME NEW k \in KeyInfos(objs, M)
        PROVE  k.key = o
    <3>1. k.key \in M /\ k.key.class = "private"
      BY <1>6, <2>6 DEF KeyInfos
    <3> QED
      BY <2>1, <2>4, <2>5, <3>1
  <2>7. o.keytype # "AES"
    BY <1>2, <2>1, <2>5, TokensAssumption
  <2> QED
    BY <1>3, <2>6, <2>7
<1> QED
  BY <1>4, <1>5, <1>6

(* The name comes back from the text of the key if the id has no colon.    *)
LEMMA RoundTrip ==
    ASSUME NEW s \in Settings, Len(s.keyId) = 1
    PROVE  NewPkcs11Key(KeyString(s)) = Name(s)
<1>1. s.keyLabel \in Seq(Parts) /\ s.keyId \in Seq(Parts)
  BY TextsAssumption DEF Settings
<1>2. PICK l \in Seq(Parts), i \in Seq(Parts) : l = s.keyLabel /\ i = s.keyId
  BY <1>1
<1>3. /\ Len(l \o i) = Len(l) + 1 /\ Len(l) \in Nat /\ (l \o i)[Len(l) + 1] = i[1]
      /\ l \o i \in Seq(Parts)
  <2>1. /\ l \o i \in Seq(Parts) /\ Len(l \o i) = Len(l) + Len(i)
        /\ \A j \in 1 .. Len(l) + Len(i) : (l \o i)[j] =
                 IF j <= Len(l) THEN l[j] ELSE i[j - Len(l)]
    BY ConcatProperties
  <2>2. Len(i) = 1 /\ Len(l) \in Nat
    BY <1>2, LenProperties
  <2>3. Len(l) + 1 \in 1 .. Len(l) + Len(i) /\ ~(Len(l) + 1 <= Len(l))
        /\ (Len(l) + 1) - Len(l) = 1
    BY <2>2
  <2> QED
    BY <2>1, <2>2, <2>3
<1>4. SubSeq(l \o i, 1, Len(l)) = l
  <2>1. SubSeq(l \o i, 1, Len(l)) \in Seq(Parts) /\ Len(SubSeq(l \o i, 1, Len(l))) = Len(l)
    BY <1>3
  <2>2. \A j \in 1..Len(l) : SubSeq(l \o i, 1, Len(l))[j] = l[j]
    BY <1>3
  <2> QED
    BY <2>1, <2>2, SeqEqual
<1>5. <<i[1]>> = i
  BY <1>2
<1>6. Len(l \o i) - 1 = Len(l) /\ (l \o i)[Len(l \o i)] = i[1]
  BY <1>3
<1>7. KeyString(s) = l \o i
  BY <1>2 DEF KeyString
<1>8. NewPkcs11Key(l \o i) = [label |-> l, id |-> i]
  BY <1>4, <1>5, <1>6 DEF NewPkcs11Key
<1> QED
  BY <1>2, <1>7, <1>8 DEF Name

(* What FindKey finds by a unique name on a token where the halves of one  *)
(* CKA_ID belong together.                                                 *)
LEMMA FoundKey ==
    ASSUME NEW objs \in Stores, NEW l, NEW i, UniqueKey(objs, l, i), Paired(objs),
           NEW k \in FindKey(objs, l, i)
    PROVE  /\ k.key \in Matching(objs, l, i) /\ k.key.class # "public"
           /\ k.public.material = k.key.material
<1> DEFINE M == Matching(objs, l, i)
<1>1. M \in SUBSET objs /\ IsFiniteSet(M)
  <2>1. M \in SUBSET objs /\ IsFiniteSet(objs)
    BY TokensAssumption DEF Matching
  <2> QED
    BY <2>1, FS_Subset
<1>2. k \in KeyInfos(objs, M)
  BY FindsAll
<1>3. \/ Cardinality(M) = 1
      \/ /\ Cardinality(M) = 2
         /\ \E a, p \in M : a.class = "private" /\ p.class = "public"
                             /\ a.material = p.material
  BY DEF UniqueKey
<1> HIDE DEF M
<1>4. CASE Cardinality(M) = 1
  <2>1. PICK o : M = {o}
    BY <1>1, <1>4, FS_Singleton
  <2>2. (CHOOSE x \in M : TRUE) = o
    BY <2>1
  <2>3. CASE o.class = "secret"
    <3>1. KeyInfos(objs, M) \subseteq {[key |-> o, public |-> o]}
      BY <1>4, <2>2, <2>3 DEF KeyInfos
    <3> QED
      BY <1>2, <2>1, <2>3, <3>1 DEF M
  <2>4. CASE o.class = "private"
    <3>1. KeyInfos(objs, M) \subseteq
            {[key |-> o, public |-> p] : p \in FindMatchingPublicKey(objs, o)}
      BY <1>4, <2>2, <2>4 DEF KeyInfos
    <3>2. PICK p \in FindMatchingPublicKey(objs, o) : k = [key |-> o, public |-> p]
      BY <1>2, <3>1
    <3>3. p.material = o.material
      BY <1>1, <2>1, <2>4, <3>2 DEF FindMatchingPublicKey, Paired
    <3> QED
      BY <2>1, <2>4, <3>2, <3>3 DEF M
  <2>5. CASE o.class \notin {"secret", "private"}
    <3>1. KeyInfos(objs, M) = {}
      BY <1>4, <2>2, <2>5 DEF KeyInfos
    <3> QED
      BY <1>2, <3>1
  <2> QED
    BY <2>3, <2>4, <2>5
<1>5. CASE /\ Cardinality(M) = 2
           /\ \E a, p \in M : a.class = "private" /\ p.class = "public"
                               /\ a.material = p.material
  <2>1. PICK a \in M, p \in M : a.class = "private" /\ p.class = "public"
                               /\ a.material = p.material
    BY <1>5
  <2>2. Cardinality(M \ {p}) = 1 /\ IsFiniteSet(M \ {p})
    BY <1>1, <1>5, <2>1, FS_RemoveElement
  <2>3. PICK x : M \ {p} = {x}
    BY <2>2, FS_Singleton
  <2>4. M = {a, p} /\ a # p
    BY <2>1, <2>3
  <2>5. /\ k.key \in M /\ k.key.class = "private"
        /\ k.public \in M /\ k.public.class = "public"
    BY <1>2, <1>5 DEF KeyInfos
  <2>6. k.key = a /\ k.public = p
    BY <2>1, <2>4, <2>5
  <2> QED
    BY <2>1, <2>5, <2>6 DEF M
<1> QED
  BY <1>3, <1>4, <1>5

(* A unique name leads to the key that encrypted, or its private half.     *)
LEMMA KeyOfBlob ==
    ASSUME NEW objs \in Stores, NEW b, BlobMade(b, objs),
           UniqueKey(objs, b.name.label, b.name.id),
           IF b.old THEN \E o \in Matching(objs, b.name.label, b.name.id) :
                            o.class # "public" /\ o.material = b.text[1].by
                    ELSE Paired(objs)
    PROVE  \E o \in Matching(objs, b.name.label, b.name.id) :
               /\ o.class # "public" /\ o.material = b.text[1].by
               /\ Len(b.text) = 1 /\ b.text[1].of = b.of
               /\ FindKey(objs, b.name.label, b.name.id) # {}
               /\ b.text[1].mech = DefaultMechanism(o.keytype)
               /\ b.text[1].mech # None
               /\ b.text[1].mech # "CKM_AES_GCM" => b.text[1].mech = "CKM_RSA_PKCS_OAEP"
               /\ b.text[1].mech = "CKM_AES_GCM" => b.text[1].with = b.iv
<1> DEFINE l == b.name.label
           i == b.name.id
<1>1. CASE OldMade(b, objs)
  <2>1. PICK a \in objs : /\ a.keytype = "AES"
                          /\ b.text = Text(a.material, "CKM_AES_GCM", b.iv, b.of)
    BY <1>1 DEF OldMade
  <2>2. /\ Len(b.text) = 1 /\ b.text[1].of = b.of /\ b.text[1].by = a.material
        /\ b.text[1].mech = "CKM_AES_GCM" /\ b.text[1].with = b.iv
    BY <2>1 DEF Text
  <2>3. PICK o \in Matching(objs, l, i) : o.class # "public" /\ o.material = b.text[1].by
    BY <1>1 DEF OldMade
  <2>4. o \in objs
    BY <2>3 DEF Matching
  <2>5. o.keytype = "AES"
    BY <2>1, <2>2, <2>3, <2>4, TokensAssumption
  <2>6. FindKey(objs, l, i) # {}
    BY <2>3, <2>5, FindsOne
  <2> QED
    BY <2>2, <2>3, <2>5, <2>6 DEF DefaultMechanism, None
<1>2. CASE NewMade(b, objs)
  <2>1. PICK k \in FindKey(objs, l, i) :
          \/ /\ k.key.keytype = "AES"
             /\ b.text = Text(k.key.material, "CKM_AES_GCM", b.iv, b.of)
          \/ /\ k.key.keytype = "RSA"
             /\ \E n : b.text = Text(k.public.material, "CKM_RSA_PKCS_OAEP", n, b.of)
    BY <1>2 DEF NewMade
  <2>2. /\ k.key \in Matching(objs, l, i) /\ k.key.class # "public"
        /\ k.public.material = k.key.material
    BY <1>2, <2>1, FoundKey DEF NewMade
  <2>3. CASE /\ k.key.keytype = "AES"
             /\ b.text = Text(k.key.material, "CKM_AES_GCM", b.iv, b.of)
    BY <2>1, <2>2, <2>3 DEF Text, DefaultMechanism, None
  <2>4. CASE /\ k.key.keytype = "RSA"
             /\ \E n : b.text = Text(k.public.material, "CKM_RSA_PKCS_OAEP", n, b.of)
    BY <2>1, <2>2, <2>4 DEF Text, DefaultMechanism, None
  <2> QED
    BY <2>1, <2>3, <2>4
<1> QED
  BY <1>1, <1>2 DEF BlobMade

LEMMA Reads ==
    ASSUME NEW objs \in Stores, NEW s, NEW b, BlobMade(b, objs), b.info,
           Len(b.name.id) = 1,
           UniqueKey(objs, b.name.label, b.name.id),
           \A o \in Matching(objs, b.name.label, b.name.id) : o.class # "public" => o.decrypt,
           IF b.old THEN \E o \in Matching(objs, b.name.label, b.name.id) :
                            o.class # "public" /\ o.material = b.text[1].by
                    ELSE Paired(objs),
           s.mechanism \in {None, b.text[1].mech},
           b.text[1].mech = "CKM_RSA_PKCS_OAEP" => RsaOaepHash(s) = b.text[1].with
    PROVE  Decryptions(objs, s, b) = {b.of}
<1> DEFINE ks == FindKey(objs, b.name.label, b.name.id)
           ct == b.text[1]
<1>1. PICK o \in Matching(objs, b.name.label, b.name.id) :
        /\ o.class # "public" /\ o.material = ct.by
        /\ Len(b.text) = 1 /\ ct.of = b.of /\ ks # {}
        /\ ct.mech = DefaultMechanism(o.keytype) /\ ct.mech # None
        /\ ct.mech # "CKM_AES_GCM" => ct.mech = "CKM_RSA_PKCS_OAEP"
        /\ ct.mech = "CKM_AES_GCM" => ct.with = b.iv
  BY KeyOfBlob
<1>2. \A k \in ks : k.key = o
  BY <1>1, FindsOne
<1>3. MechanismFor(s, o) = ct.mech
  BY <1>1 DEF MechanismFor
<1>4. ASSUME NEW k \in ks
      PROVE  DecryptWith(s, k, b) = b.of
  BY <1>1, <1>2, <1>3, <1>4 DEF DecryptWith
<1>5. Named(s, b) = b
  BY DEF Named
<1>6. NewPkcs11Key(b.keyId) = b.name
  BY RoundTrip DEF BlobMade, Name
<1>7. Decryptions(objs, s, b) = {DecryptWith(s, k, b) : k \in ks}
  BY <1>1, <1>5, <1>6 DEF Decryptions
<1>8. ks # {}
  BY <1>1
<1> HIDE DEF ks
<1> QED
  BY <1>4, <1>7, <1>8

(* A blob is decrypted after any restarts and changes of the configured    *)
(* key, if the name it was encrypted under has no colon in its id and is   *)
(* that of one key or pair, the halves of one CKA_ID belong together, the  *)
(* key may decrypt and mechanism and hash are the same: for any            *)
(* goroutines, settings, blobs and tokens.                                 *)
THEOREM BlobsReadableHolds == Spec => []BlobsReadable
<1>1. IInv /\ BlobsMade => BlobsReadable
  <2> SUFFICES ASSUME IInv, BlobsMade, NEW b \in blobs, client # NoClient, b.info,
                      Len(b.name.id) = 1,
                      UniqueKey(store, b.name.label, b.name.id),
                      \A o \in Matching(store, b.name.label, b.name.id) :
                          o.class # "public" => o.decrypt,
                      IF b.old THEN \E o \in Matching(store, b.name.label, b.name.id) :
                                       o.class # "public" /\ o.material = b.text[1].by
                               ELSE Paired(store),
                      client.mechanism \in {None, b.text[1].mech},
                      b.text[1].mech = "CKM_RSA_PKCS_OAEP" =>
                          RsaOaepHash(client) = b.text[1].with
               PROVE  Decryptions(store, client, b) = {b.of}
    BY DEF BlobsReadable
  <2>1. store \in Stores /\ BlobMade(b, store)
    BY DEF IInv, TypeOK, BlobsMade
  <2> QED
    BY <2>1, Reads
<1> QED
  BY <1>1, InitBlobsMade, NextBlobsMade, AlwaysIInv, PTL DEF Spec

=============================================================================
