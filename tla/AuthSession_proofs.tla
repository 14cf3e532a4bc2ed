------------------------- MODULE AuthSession_proofs -------------------------
(***************************************************************************)
(* Theorems about AuthSession for any clients, requests and bounds.        *)
(***************************************************************************)
EXTENDS AuthSession, TLAPS

\* Where a token can be: signed for a client, then received by it; only tokens
\* received are retired, and a blacklisted one stays so until it has expired.
TokensTraced ==
  /\ held \subseteq 1..issued
  /\ \A t \in 1..issued : owner[t] \in Clients
  /\ ended \subseteq held
  /\ blacklist \subseteq banned
  /\ banned \subseteq held
  /\ banned \subseteq blacklist \union expired

\* A session holds a token of its own client that was never retired.
SessionsCurrent ==
  \A d \in Clients : session[d] # Null => session[d] \in held \ ended /\ owner[session[d]] = d

\* A request at work presented a token that was received; the one it is about to
\* save has reached nobody yet, and is for the client of the one presented; the
\* token of a late one is retired, or stopped at the blacklist.
CallWellFormed(call) ==
  /\ call.pc \notin {"idle", "save"} => call.token \in held
  /\ call.pc = "save" =>
       /\ call.new \in (1..issued) \ held
       /\ call.token # Null => call.token \in held /\ owner[call.new] = owner[call.token]
  /\ call.late /\ call.kind # "logout" =>
       /\ call.pc \in {"check", "get", "delete"}
       /\ call.token \in ended \/ (call.pc = "check" /\ call.token \in banned)

\* No two requests are about to save the same token.
SavesApart ==
  \A b, c \in Calls :
    calls[b].pc = "save" /\ calls[c].pc = "save" /\ calls[b].new = calls[c].new => b = c

CallsInv == (\A c \in Calls : CallWellFormed(calls[c])) /\ SavesApart

SessionInv == TypeOK /\ TokensTraced /\ SessionsCurrent /\ CallsInv

LEMMA NoCallType == NoCall \in Call /\ NoCall.pc = "idle" /\ ~NoCall.late
BY DEF NoCall, Call, Kinds, Pcs

LEMMA SessionInit == Init => SessionInv
<1> SUFFICES ASSUME Init PROVE SessionInv
  OBVIOUS
<1> USE SessionAssumption, NoCallType DEF Init
<1>1. TypeOK
  BY DEF TypeOK, Tokens
<1>2. TokensTraced /\ SessionsCurrent
  BY DEF TokensTraced, SessionsCurrent
<1>3. CallsInv
  BY DEF CallsInv, CallWellFormed, SavesApart
<1> QED BY <1>1, <1>2, <1>3 DEF SessionInv

\* One request moves on, and the tokens only go forward: those issued keep their
\* client, those received or retired stay so.
LEMMA CallsKept ==
  ASSUME SessionInv, NEW c \in Calls, NEW call \in Call, calls' = [calls EXCEPT ![c] = call],
         issued' \in Nat, issued <= issued', \A t \in 1..issued : owner'[t] = owner[t],
         held \subseteq held', ended \subseteq ended', banned \subseteq banned',
         CallWellFormed(call)',
         \A b \in Calls \ {c} : calls[b].pc = "save" =>
           calls[b].new \notin held' /\ (call.pc = "save" => calls[b].new # call.new)
  PROVE  CallsInv' /\ calls' \in [Calls -> Call]
<1> USE DEF SessionInv, TypeOK, CallsInv
<1>1. calls' \in [Calls -> Call]
  OBVIOUS
<1>2. calls'[c] = call /\ \A b \in Calls \ {c} : calls'[b] = calls[b]
  OBVIOUS
<1>3. ASSUME NEW b \in Calls \ {c} PROVE CallWellFormed(calls[b])'
  <2>1. CallWellFormed(calls[b])
    OBVIOUS
  <2>2. held \subseteq 1..issued /\ 1..issued \subseteq 1..issued'
    BY DEF TokensTraced
  <2> QED BY <1>2, <2>1, <2>2 DEF CallWellFormed
<1>4. ASSUME NEW b \in Calls PROVE CallWellFormed(calls[b])'
  BY <1>2, <1>3, <1>4
<1>5. SavesApart'
  BY <1>2 DEF SavesApart
<1> QED BY <1>1, <1>4, <1>5

\* A request that only moves its pc, or ends, with the rest as it was.
LEMMA StepKept ==
  ASSUME SessionInv, NEW c \in Calls, NEW call \in Call, calls' = [calls EXCEPT ![c] = call],
         UNCHANGED <<exists, tokens, redis, past, faults>>,
         call.pc # "save", CallWellFormed(call)
  PROVE  SessionInv'
<1> USE DEF SessionInv, tokens, redis, past
<1>0. issued' \in Nat /\ issued <= issued' /\ \A t \in 1..issued : owner'[t] = owner[t]
  BY SessionAssumption DEF TypeOK
<1>1. CallWellFormed(call)' /\ held \subseteq held' /\ ended \subseteq ended' /\ banned \subseteq banned'
  BY DEF CallWellFormed
<1>2. \A b \in Calls \ {c} : calls[b].pc = "save" => calls[b].new \notin held'
  BY DEF CallsInv, CallWellFormed
<1>3. CallsInv' /\ calls' \in [Calls -> Call]
  <2> HIDE DEF SessionInv, tokens, redis, past
  <2> QED BY <1>0, <1>1, <1>2, CallsKept
<1>4. TokensTraced' /\ SessionsCurrent'
  BY DEF TokensTraced, SessionsCurrent
<1> QED BY <1>3, <1>4 DEF TypeOK

LEMMA DoneKept ==
  ASSUME SessionInv, NEW c \in Calls, Done(c), UNCHANGED <<exists, tokens, redis, past, faults>>
  PROVE  SessionInv'
BY NoCallType, StepKept DEF Done, CallWellFormed

LEMMA GotoKept ==
  ASSUME SessionInv, NEW c \in Calls, NEW pc \in Pcs \ {"idle", "check", "save"}, Goto(c, pc),
         calls[c].pc \notin {"idle", "save"},
         calls[c].late /\ calls[c].kind # "logout" =>
           pc \in {"get", "delete"} /\ calls[c].token \in ended,
         UNCHANGED <<exists, tokens, redis, past, faults>>
  PROVE  SessionInv'
<1> DEFINE call == [calls[c] EXCEPT !.pc = pc]
<1>0. calls[c] \in Call /\ CallWellFormed(calls[c])
  BY DEF SessionInv, TypeOK, CallsInv
<1>1. calls' = [calls EXCEPT ![c] = call]
  BY DEF Goto, SessionInv, TypeOK
<1>2. /\ call \in Call /\ call.pc = pc /\ call.token = calls[c].token
      /\ call.kind = calls[c].kind /\ call.late = calls[c].late
  BY <1>0 DEF Call
<1> HIDE DEF call
<1>3. CallWellFormed(call)
  BY <1>0, <1>2 DEF CallWellFormed
<1> QED BY <1>1, <1>2, <1>3, StepKept

\* Signing leaves the tokens issued before alone and adds one nobody has.
LEMMA SignKept ==
  ASSUME SessionInv, NEW d \in Clients, Sign(d), UNCHANGED <<held, expired, ended>>,
         blacklist' \subseteq banned', banned \subseteq banned', banned' \subseteq held,
         banned' \subseteq blacklist' \union expired, UNCHANGED session
  PROVE  /\ TokensTraced' /\ SessionsCurrent'
         /\ issued' \in 0..MaxTokens /\ owner' \in [Tokens -> Clients \union {Null}]
         /\ issued' = issued + 1 /\ issued \in Nat /\ owner'[issued'] = d
         /\ \A t \in 1..issued : owner'[t] = owner[t]
         /\ issued' \in (1..issued') \ held
<1> USE SessionAssumption DEF SessionInv, TypeOK
<1>1. issued \in Nat /\ issued' = issued + 1 /\ issued' \in 0..MaxTokens /\ issued' \in Tokens
  BY DEF Sign, Tokens
<1>2. /\ owner' \in [Tokens -> Clients \union {Null}] /\ owner'[issued'] = d
      /\ \A t \in 1..issued : owner'[t] = owner[t]
  BY <1>1 DEF Sign, Tokens
<1>3. held \subseteq 1..issued /\ issued' \in (1..issued') \ held
  BY <1>1 DEF TokensTraced
<1>4. \A t \in 1..issued' : t \in 1..issued \/ t = issued'
  BY <1>1
<1>5. TokensTraced'
  BY <1>1, <1>2, <1>3, <1>4 DEF TokensTraced
<1>6. SessionsCurrent'
  BY <1>2, <1>3 DEF SessionsCurrent
<1> QED BY <1>1, <1>2, <1>3, <1>5, <1>6

\* Of the tokens about to be saved none is the next one signed.
LEMMA NextTokenFresh ==
  ASSUME SessionInv, NEW b \in Calls, calls[b].pc = "save"
  PROVE  calls[b].new # issued + 1 /\ calls[b].new \notin held
<1>1. calls[b].new \in (1..issued) \ held /\ issued \in Nat
  BY SessionAssumption DEF SessionInv, CallsInv, CallWellFormed, TypeOK
<1> QED BY <1>1

\* The key of a session changes to the token of its client that a request saves,
\* or to nothing; the token that was there is retired.
LEMMA PutSessionKept ==
  ASSUME SessionInv, NEW d \in Clients, NEW t, PutSession(d, t),
         t # Null => t \in held' \ held /\ owner[t] = d,
         held \subseteq held', UNCHANGED <<issued, owner, expired, blacklist, banned>>,
         held' \subseteq 1..issued
  PROVE  /\ TokensTraced' /\ SessionsCurrent' /\ ended \subseteq ended' /\ ended' \subseteq held
         /\ t \in Tokens \union {Null} => session' \in [Clients -> Tokens \union {Null}]
<1> USE DEF SessionInv, TypeOK
<1>1. session'[d] = t /\ \A e \in Clients \ {d} : session'[e] = session[e]
  BY DEF PutSession
<1>2. ended' = (IF session[d] = Null THEN ended ELSE ended \union {session[d]})
  BY DEF PutSession
<1>3. ended \subseteq ended' /\ ended' \subseteq held
  BY <1>2 DEF TokensTraced, SessionsCurrent
<1>4. TokensTraced'
  BY <1>3 DEF TokensTraced
<1>5. ASSUME NEW e \in Clients \ {d}, session[e] # Null
      PROVE  session[e] \in held' \ ended' /\ owner[session[e]] = e
  BY <1>2, <1>5 DEF SessionsCurrent
<1>6. SessionsCurrent'
  BY <1>1, <1>3, <1>5 DEF SessionsCurrent
<1> QED BY <1>3, <1>4, <1>6 DEF PutSession

LEMMA LoginInv ==
  ASSUME SessionInv, NEW c \in Calls, NEW d \in Clients, Login(c, d)
  PROVE  SessionInv'
<1>0. PICK call : call = [NoCall EXCEPT !.kind = "login", !.pc = "save", !.new = issued + 1]
  OBVIOUS
<1>1. /\ calls' = [calls EXCEPT ![c] = call] /\ Sign(d)
      /\ UNCHANGED <<exists, held, expired, session, blacklist, ended, banned, faults>>
  BY <1>0 DEF Login, redis, past
<1>2. /\ TokensTraced' /\ SessionsCurrent'
      /\ issued' \in 0..MaxTokens /\ owner' \in [Tokens -> Clients \union {Null}]
      /\ issued' = issued + 1 /\ issued \in Nat /\ owner'[issued'] = d
      /\ \A t \in 1..issued : owner'[t] = owner[t]
      /\ issued' \in (1..issued') \ held
  <2>1. blacklist \subseteq banned /\ banned \subseteq held /\ banned \subseteq blacklist \union expired
    BY DEF SessionInv, TokensTraced
  <2> QED BY <1>1, <2>1, SignKept
<1>3. /\ call \in Call /\ call.pc = "save" /\ call.new = issued' /\ call.token = Null /\ ~call.late
  <2>1. issued + 1 \in Tokens
    BY <1>2, SessionAssumption DEF Tokens
  <2>2. call \in Call
    BY <1>0, <2>1 DEF NoCall, Call, Kinds, Pcs
  <2> QED BY <1>0, <1>2, <2>2 DEF NoCall
<1>4. CallWellFormed(call)'
  BY <1>1, <1>2, <1>3 DEF CallWellFormed
<1>5. CallsInv' /\ calls' \in [Calls -> Call]
  <2>1. issued' \in Nat /\ issued <= issued'
    BY <1>2
  <2>2. held \subseteq held' /\ ended \subseteq ended' /\ banned \subseteq banned'
    BY <1>1
  <2>3. \A b \in Calls \ {c} : calls[b].pc = "save" =>
           calls[b].new \notin held' /\ calls[b].new # call.new
    BY <1>1, <1>2, <1>3, NextTokenFresh
  <2> QED BY <1>1, <1>2, <1>3, <1>4, <2>1, <2>2, <2>3, CallsKept
<1> QED BY <1>1, <1>2, <1>5 DEF SessionInv, TypeOK

LEMMA RequestInv ==
  ASSUME SessionInv, NEW c \in Calls, NEW t \in Tokens, NEW kind \in {"refresh", "logout", "access"},
         Request(c, kind, t)
  PROVE  SessionInv'
<1> DEFINE call == [kind |-> kind, token |-> t, new |-> Null,
                    pc |-> IF kind = "access" THEN "get" ELSE "check",
                    late |-> t \in ended \/ (kind = "refresh" /\ t \in banned)]
<1>1. call \in Call /\ call.pc # "save"
  BY DEF Call, Kinds, Pcs
<1>2. CallWellFormed(call)
  BY DEF CallWellFormed, Request
<1>3. calls' = [calls EXCEPT ![c] = call] /\ UNCHANGED <<exists, tokens, redis, past, faults>>
  BY DEF Request
<1> HIDE DEF call
<1> QED BY <1>1, <1>2, <1>3, StepKept

\* CheckToken stops a banned token; GetSession, a retired one.
LEMMA AnswerInv ==
  ASSUME SessionInv, NEW c \in Calls, CheckToken(c) \/ GetSession(c) \/ FindUserAnswered(c)
  PROVE  SessionInv'
<1>0. CallWellFormed(calls[c]) /\ calls[c] \in Call
  BY DEF SessionInv, CallsInv, TypeOK
<1>1. CASE CheckToken(c)
  <2>1. UNCHANGED <<exists, tokens, redis, past, faults>> /\ calls[c].pc = "check"
    BY <1>1 DEF CheckToken
  <2>2. CASE Done(c)
    BY <2>1, <2>2, DoneKept
  <2>3. CASE ~Done(c)
    <3> DEFINE pc == IF calls[c].kind = "logout" THEN "blacklist" ELSE "get"
    <3>1. calls[c].token \notin blacklist \union expired /\ Goto(c, pc)
      BY <1>1, <2>3 DEF CheckToken
    <3>2. calls[c].token \notin banned
      BY <3>1 DEF SessionInv, TokensTraced
    <3>3. calls[c].late /\ calls[c].kind # "logout" => pc \in {"get", "delete"} /\ calls[c].token \in ended
      BY <1>0, <2>1, <3>2 DEF CallWellFormed
    <3>4. pc \in Pcs \ {"idle", "check", "save"}
      BY DEF Pcs
    <3> HIDE DEF pc
    <3> QED BY <2>1, <3>1, <3>3, <3>4, GotoKept
  <2> QED BY <2>2, <2>3
<1>2. CASE GetSession(c)
  <2>1. UNCHANGED <<exists, tokens, redis, past, faults>> /\ calls[c].pc = "get"
    BY <1>2 DEF GetSession
  <2>2. calls[c].token \in held /\ owner[calls[c].token] \in Clients
    BY <1>0, <2>1 DEF CallWellFormed, SessionInv, TokensTraced
  <2>3. calls[c].late /\ calls[c].kind # "logout" => calls[c].token \in ended
    BY <1>0, <2>1 DEF CallWellFormed
  <2>4. CASE session[owner[calls[c].token]] = calls[c].token
    <3>1. calls[c].token # Null /\ calls[c].token \notin ended
      <4>1. Null \notin Tokens /\ held \subseteq Tokens
        BY SessionAssumption DEF SessionInv, TypeOK, Tokens
      <4> QED BY <2>2, <2>4, <4>1 DEF SessionInv, SessionsCurrent
    <3>2. Goto(c, "user") /\ "user" \in Pcs \ {"idle", "check", "save"}
      BY <1>2, <2>4 DEF GetSession, Pcs
    <3> QED BY <2>1, <2>3, <3>1, <3>2, GotoKept
  <2>5. CASE Goto(c, "delete")
    <3>1. "delete" \in Pcs \ {"idle", "check", "save"}
      BY DEF Pcs
    <3> QED BY <2>1, <2>3, <2>5, <3>1, GotoKept
  <2>6. CASE Done(c)
    BY <2>1, <2>6, DoneKept
  <2> QED BY <1>2, <2>4, <2>5, <2>6 DEF GetSession
<1>3. CASE FindUserAnswered(c)
  BY <1>3, DoneKept DEF FindUserAnswered
<1> QED BY <1>1, <1>2, <1>3

\* refreshToken signs for the client of the token presented, blacklisted or
\* expired by now.
LEMMA RefreshSignInv ==
  ASSUME SessionInv, NEW c \in Calls, calls[c].pc \in {"user", "blacklist"},
         calls[c].kind = "refresh", Sign(owner[calls[c].token]),
         calls' = [calls EXCEPT ![c].pc = "save", ![c].new = issued + 1],
         UNCHANGED <<exists, held, expired, session, ended, faults>>,
         \/ UNCHANGED <<blacklist, banned>>
         \/ Blacklist(c)
  PROVE  SessionInv'
<1> DEFINE t == calls[c].token
<1>0. calls[c] \in Call /\ CallWellFormed(calls[c])
  BY DEF SessionInv, TypeOK, CallsInv
<1>1. t \in held /\ owner[t] \in Clients /\ ~calls[c].late /\ held \subseteq 1..issued
      /\ held \subseteq Tokens
  BY <1>0 DEF CallWellFormed, SessionInv, TypeOK, TokensTraced
<1>2. /\ blacklist' \subseteq banned' /\ banned \subseteq banned' /\ banned' \subseteq held
      /\ banned' \subseteq blacklist' \union expired /\ blacklist' \subseteq Tokens
  BY <1>1 DEF Blacklist, SessionInv, TypeOK, TokensTraced
<1>3. /\ TokensTraced' /\ SessionsCurrent'
      /\ issued' \in 0..MaxTokens /\ owner' \in [Tokens -> Clients \union {Null}]
      /\ issued' = issued + 1 /\ issued \in Nat /\ owner'[issued'] = owner[t]
      /\ \A s \in 1..issued : owner'[s] = owner[s]
      /\ issued' \in (1..issued') \ held
  BY <1>1, <1>2, SignKept
<1>4. PICK call : call = [calls[c] EXCEPT !.pc = "save", !.new = issued + 1]
  OBVIOUS
<1>5. calls' = [calls EXCEPT ![c] = call]
  BY <1>4 DEF SessionInv, TypeOK
<1>6. /\ call \in Call /\ call.pc = "save" /\ call.new = issued' /\ call.token = t /\ ~call.late
  <2>1. issued + 1 \in Tokens
    BY <1>3, SessionAssumption DEF Tokens
  <2> QED BY <1>0, <1>1, <1>3, <1>4, <2>1 DEF Call, Pcs
<1>7. CallWellFormed(call)'
  BY <1>1, <1>3, <1>6 DEF CallWellFormed
<1>8. CallsInv' /\ calls' \in [Calls -> Call]
  <2>1. issued' \in Nat /\ issued <= issued'
    BY <1>3
  <2>2. \A b \in Calls \ {c} : calls[b].pc = "save" =>
           calls[b].new \notin held' /\ calls[b].new # call.new
    BY <1>3, <1>6, NextTokenFresh
  <2> QED BY <1>2, <1>3, <1>5, <1>6, <1>7, <2>1, <2>2, CallsKept
<1> QED BY <1>1, <1>2, <1>3, <1>8 DEF SessionInv, TypeOK

LEMMA RefreshInv ==
  ASSUME SessionInv, NEW c \in Calls, FindUserRefresh(c) \/ RotateToken(c)
  PROVE  SessionInv'
<1>1. CASE FindUserRefresh(c)
  <2>1. CASE calls[c].token \in expired
    BY <1>1, <2>1, RefreshSignInv DEF FindUserRefresh, redis, past
  <2>2. CASE calls[c].token \notin expired
    <3>1. CallWellFormed(calls[c])
      BY DEF SessionInv, CallsInv
    <3>2. ~(calls[c].late /\ calls[c].kind # "logout") /\ calls[c].pc = "user"
      BY <1>1, <3>1 DEF FindUserRefresh, CallWellFormed
    <3>3. Goto(c, "blacklist") /\ UNCHANGED <<exists, tokens, redis, past, faults>>
      BY <1>1, <2>2 DEF FindUserRefresh, tokens
    <3>4. "blacklist" \in Pcs \ {"idle", "check", "save"}
      BY DEF Pcs
    <3> QED BY <3>2, <3>3, <3>4, GotoKept
  <2> QED BY <2>1, <2>2
<1>2. CASE RotateToken(c)
  BY <1>2, RefreshSignInv DEF RotateToken
<1> QED BY <1>1, <1>2

LEMMA RevokeInv ==
  ASSUME SessionInv, NEW c \in Calls, RevokeToken(c)
  PROVE  SessionInv'
<1> DEFINE t == calls[c].token
<1>0. calls[c] \in Call /\ CallWellFormed(calls[c])
  BY DEF SessionInv, TypeOK, CallsInv
<1>1. /\ t \in held /\ held \subseteq Tokens /\ calls[c].kind = "logout"
      /\ UNCHANGED <<exists, issued, owner, held, expired, session, ended, faults>>
      /\ blacklist' = blacklist \union {t} /\ banned' = banned \union {t}
  BY <1>0 DEF RevokeToken, Blacklist, CallWellFormed, SessionInv, TypeOK, tokens
<1>2. TokensTraced' /\ SessionsCurrent'
  BY <1>1 DEF SessionInv, TokensTraced, SessionsCurrent
<1>3. PICK call : call = [calls[c] EXCEPT !.pc = "delete"]
  OBVIOUS
<1>4. calls' = [calls EXCEPT ![c] = call]
  BY <1>3 DEF RevokeToken, Goto, SessionInv, TypeOK
<1>5. call \in Call /\ call.pc = "delete" /\ call.token = t /\ call.kind = "logout"
  BY <1>0, <1>1, <1>3 DEF Call, Pcs
<1>6. CallWellFormed(call)'
  BY <1>1, <1>5 DEF CallWellFormed
<1>7. CallsInv' /\ calls' \in [Calls -> Call]
  <2>1. issued' \in Nat /\ issued <= issued' /\ \A s \in 1..issued : owner'[s] = owner[s]
    BY <1>1, SessionAssumption DEF SessionInv, TypeOK
  <2>2. \A b \in Calls \ {c} : calls[b].pc = "save" => calls[b].new \notin held'
    BY <1>1, NextTokenFresh
  <2> QED BY <1>1, <1>4, <1>5, <1>6, <2>1, <2>2, CallsKept
<1> QED BY <1>1, <1>2, <1>7 DEF SessionInv, TypeOK

\* A session key changes while a request ends: the calls that stay keep what
\* they know.
LEMMA EndedKept ==
  ASSUME SessionInv, NEW c \in Calls, Done(c) \/ UNCHANGED calls,
         UNCHANGED <<exists, issued, owner, expired, blacklist, banned, faults>>,
         NEW d \in Clients, NEW t \in Tokens \union {Null}, PutSession(d, t),
         t # Null => t \in held' \ held /\ owner[t] = d,
         held' \in {held, held \union {t}}, held' \subseteq 1..issued,
         \A b \in Calls \ {c} : calls[b].pc = "save" => calls[b].new # t,
         Done(c) \/ held' = held
  PROVE  SessionInv'
<1>1. /\ TokensTraced' /\ SessionsCurrent' /\ ended \subseteq ended' /\ ended' \subseteq held
      /\ session' \in [Clients -> Tokens \union {Null}]
  BY PutSessionKept
<1>2. held \subseteq Tokens /\ held' \subseteq Tokens \union {Null} /\ Null \notin 1..issued
  BY SessionAssumption DEF SessionInv, TypeOK
<1>3. held' \subseteq Tokens /\ ended' \subseteq Tokens
  BY <1>1, <1>2
<1>4. PICK call : call = IF Done(c) THEN NoCall ELSE calls[c]
  OBVIOUS
<1>5. calls' = [calls EXCEPT ![c] = call]
  BY <1>4 DEF Done, SessionInv, TypeOK
<1>6. call \in Call
  BY <1>4, NoCallType DEF SessionInv, TypeOK
<1>7. CallWellFormed(call)'
  <2>1. CASE Done(c)
    BY <1>4, <2>1, NoCallType DEF CallWellFormed
  <2>2. CASE ~Done(c)
    BY <1>1, <1>4, <2>2 DEF CallWellFormed, SessionInv, CallsInv
  <2> QED BY <2>1, <2>2
<1>8. CallsInv' /\ calls' \in [Calls -> Call]
  <2>1. issued' \in Nat /\ issued <= issued' /\ \A s \in 1..issued : owner'[s] = owner[s]
    BY SessionAssumption DEF SessionInv, TypeOK
  <2>2. held \subseteq held' /\ banned \subseteq banned'
    OBVIOUS
  <2>3. \A b \in Calls \ {c} : calls[b].pc = "save" =>
           calls[b].new \notin held' /\ (call.pc = "save" => calls[b].new # call.new)
    <3> SUFFICES ASSUME NEW b \in Calls \ {c}, calls[b].pc = "save"
                 PROVE  calls[b].new \notin held' /\ (call.pc = "save" => calls[b].new # call.new)
      OBVIOUS
    <3>1. calls[b].new \notin held'
      BY NextTokenFresh
    <3>2. call.pc = "save" => call = calls[c]
      BY <1>4, NoCallType
    <3>3. calls[c].pc = "save" => calls[b].new # calls[c].new
      BY DEF SessionInv, CallsInv, SavesApart
    <3> QED BY <3>1, <3>2, <3>3
  <2> QED BY <1>1, <1>5, <1>6, <1>7, <2>1, <2>2, <2>3, CallsKept
<1> QED BY <1>1, <1>3, <1>8 DEF SessionInv, TypeOK

LEMMA EndSessionInv ==
  ASSUME SessionInv, NEW c \in Calls, DeleteSession(c) \/ SaveSession(c)
  PROVE  SessionInv'
<1>0. CallWellFormed(calls[c]) /\ calls[c] \in Call /\ TokensTraced
  BY DEF SessionInv, TypeOK, CallsInv
<1>1. CASE DeleteSession(c)
  <2>1. owner[calls[c].token] \in Clients
    BY <1>0, <1>1 DEF DeleteSession, CallWellFormed, TokensTraced
  <2>2. \A b \in Calls \ {c} : calls[b].pc = "save" => calls[b].new # Null
    BY SessionAssumption DEF SessionInv, CallsInv, CallWellFormed, TypeOK
  <2>3. held \subseteq 1..issued
    BY <1>0 DEF TokensTraced
  <2> QED BY <1>1, <2>1, <2>2, <2>3, EndedKept DEF DeleteSession, tokens
<1>2. CASE SaveSession(c)
  <2>1. PICK t : t = calls[c].new
    OBVIOUS
  <2>2. t \in Tokens \union {Null} /\ t \in (1..issued) \ held /\ owner[t] \in Clients
    BY <1>0, <1>2, <2>1 DEF SaveSession, CallWellFormed, TokensTraced, Call
  <2>3. \A b \in Calls \ {c} : calls[b].pc = "save" => calls[b].new # t
    BY <1>2, <2>1 DEF SaveSession, SessionInv, CallsInv, SavesApart
  <2>4. held' = held \union {t} /\ held' \subseteq 1..issued
    BY <1>0, <1>2, <2>1, <2>2 DEF SaveSession, TokensTraced
  <2> QED BY <1>2, <2>1, <2>2, <2>3, <2>4, EndedKept DEF SaveSession
<1> QED BY <1>1, <1>2

LEMMA EnvironmentInv ==
  ASSUME SessionInv,
         \/ \E t \in Tokens : ExpireToken(t) \/ ExpireBlacklist(t)
         \/ DeleteUser
  PROVE  SessionInv'
<1> USE DEF SessionInv
<1>1. UNCHANGED <<issued, owner, held, session, calls, past, faults>>
  BY DEF ExpireToken, ExpireBlacklist, DeleteUser, tokens, redis, past
<1>2. CallsInv'
  BY <1>1 DEF CallsInv, CallWellFormed, SavesApart, past
<1>3. SessionsCurrent'
  BY <1>1 DEF SessionsCurrent, past
<1>4. TypeOK' /\ TokensTraced'
  BY <1>1 DEF ExpireToken, ExpireBlacklist, DeleteUser, tokens, redis, past, TypeOK, TokensTraced
<1> QED BY <1>2, <1>3, <1>4

LEMMA FaultInv ==
  ASSUME SessionInv, NEW K \in SUBSET Calls, Fault(K)
  PROVE  SessionInv'
<1> USE DEF SessionInv
<1>1. faults' \in 0..MaxFaults
  BY SessionAssumption DEF Fault, TypeOK
<1>2. UNCHANGED <<exists, tokens, redis, past>>
  BY DEF Fault
<1>3. \A c \in Calls : calls'[c] = NoCall \/ calls'[c] = calls[c]
  BY DEF Fault
<1>4. calls' \in [Calls -> Call]
  BY NoCallType DEF Fault, TypeOK
<1>5. CallsInv'
  BY <1>2, <1>3, NoCallType DEF CallsInv, CallWellFormed, SavesApart, tokens, past
<1> QED BY <1>1, <1>2, <1>4, <1>5 DEF TypeOK, TokensTraced, SessionsCurrent, tokens, redis, past

LEMMA SessionNext == SessionInv /\ [Next]_vars => SessionInv'
<1> SUFFICES ASSUME SessionInv, [Next]_vars PROVE SessionInv'
  OBVIOUS
<1>1. CASE UNCHANGED vars
  BY <1>1 DEF vars, SessionInv, TypeOK, TokensTraced, SessionsCurrent, CallsInv,
              CallWellFormed, SavesApart
<1>2. ASSUME NEW c \in Calls, CallStep(c) PROVE SessionInv'
  BY <1>2, AnswerInv, RefreshInv, RevokeInv, EndSessionInv DEF CallStep
<1>3. ASSUME NEW d \in Clients, ExpireSession(d) PROVE SessionInv'
  <2>1. held \subseteq 1..issued
    BY DEF SessionInv, TokensTraced
  <2>2. CASE Calls = {}
    <3>1. TokensTraced' /\ SessionsCurrent' /\ session' \in [Clients -> Tokens \union {Null}]
          /\ ended' \subseteq held
      BY <1>3, <2>1, PutSessionKept DEF ExpireSession, tokens
    <3> QED BY <1>3, <2>2, <3>1 DEF ExpireSession, tokens, SessionInv, TypeOK, CallsInv, SavesApart
  <2>3. ASSUME NEW c \in Calls PROVE SessionInv'
    <3>1. \A b \in Calls \ {c} : calls[b].pc = "save" => calls[b].new # Null
      BY SessionAssumption DEF SessionInv, CallsInv, CallWellFormed, TypeOK
    <3> QED BY <1>3, <2>1, <3>1, EndedKept DEF ExpireSession, tokens
  <2> QED BY <2>2, <2>3
<1>4. ASSUME NEW c \in Busy, Fault({c}) PROVE SessionInv'
  BY <1>4, FaultInv DEF Busy
<1>5. CASE Fault(Busy)
  BY <1>5, FaultInv DEF Busy
<1> QED
  BY <1>1, <1>2, <1>3, <1>4, <1>5, LoginInv, RequestInv, EnvironmentInv DEF Next

LEMMA SessionInvariant == Spec => []SessionInv
BY SessionInit, SessionNext, PTL DEF Spec

\* Every key, token and request of the sessions stays well formed, whatever calls
\* are in progress together.  (auth.service.ts:60-170)
THEOREM TypeCorrect == Spec => []TypeOK
<1>1. SessionInv => TypeOK
  BY DEF SessionInv
<1> QED BY <1>1, SessionInvariant, PTL

\* A token that was replaced, logged out or lost its session is never accepted
\* later, nor is a refresh token once blacklisted: the check of the blacklist and
\* of the session close every interleaving, expiry and crash between them.
\* (auth.service.ts:117-135, jwt.strategy.ts:39-56)
THEOREM RetiredTokensAlwaysRefused == Spec => []RetiredTokensRefused
<1>1. SessionInv => RetiredTokensRefused
  BY DEF SessionInv, CallsInv, CallWellFormed, RetiredTokensRefused
<1> QED BY <1>1, SessionInvariant, PTL

-----------------------------------------------------------------------------
(* The current token is usable *)

\* The request that blacklisted the token of a session is still there to replace
\* or delete it.
LEMMA UsableNext == SessionInv /\ CurrentTokenUsable /\ [Next]_vars => CurrentTokenUsable'
<1> SUFFICES ASSUME SessionInv, CurrentTokenUsable, [Next]_vars,
                    NEW d \in Clients, session'[d] \in blacklist', ~(faults' > 0)
             PROVE  \E c \in Calls : calls'[c].token = session'[d] /\ calls'[c].pc \in {"save", "delete"}
  BY DEF CurrentTokenUsable
<1> DEFINE Replacing(s) == \E c \in Calls : calls[c].token = s /\ calls[c].pc \in {"save", "delete"}
           Replacing1(s) == \E c \in Calls : calls'[c].token = s /\ calls'[c].pc \in {"save", "delete"}
<1>0. blacklist' \subseteq Tokens /\ Null \notin Tokens /\ session'[d] # Null /\ faults' = faults
  <2>1. SessionInv'
    BY SessionNext
  <2>2. Null \notin Tokens
    BY SessionAssumption DEF Tokens
  <2>3. ASSUME NEW K, Fault(K) PROVE FALSE
    BY <2>3, SessionAssumption DEF Fault, SessionInv, TypeOK
  <2>4. ASSUME NEW c \in Calls, CallStep(c) PROVE faults' = faults
    BY <2>4 DEF CallStep, CheckToken, GetSession, FindUserAnswered, FindUserRefresh, RotateToken,
                RevokeToken, DeleteSession, SaveSession
  <2>5. faults' = faults
    BY <2>3, <2>4 DEF Next, Login, Request, ExpireToken, ExpireBlacklist, ExpireSession, DeleteUser, vars
  <2> QED BY <2>1, <2>2, <2>5 DEF SessionInv, TypeOK
<1>1. session[d] \in blacklist => Replacing(session[d])
  BY <1>0 DEF CurrentTokenUsable
<1>2. ASSUME blacklist' \subseteq blacklist, session'[d] = session[d],
             \A c \in Calls : calls[c].pc \in {"save", "delete"} => calls'[c] = calls[c]
      PROVE  Replacing1(session'[d])
  BY <1>1, <1>2
<1>3. ASSUME NEW c \in Calls, NEW e \in Clients, Login(c, e) PROVE Replacing1(session'[d])
  BY <1>2, <1>3 DEF Login, redis, SessionInv, TypeOK
<1>4. ASSUME NEW c \in Calls, NEW t \in Tokens, NEW kind, Request(c, kind, t)
      PROVE  Replacing1(session'[d])
  BY <1>2, <1>4 DEF Request, redis, SessionInv, TypeOK
<1>5. ASSUME NEW c \in Calls,
             CheckToken(c) \/ GetSession(c) \/ FindUserAnswered(c) \/ FindUserRefresh(c)
      PROVE  Replacing1(session'[d])
  <2>1. calls[c].pc \notin {"save", "delete"} /\ UNCHANGED redis
    BY <1>5 DEF CheckToken, GetSession, FindUserAnswered, FindUserRefresh
  <2>2. \A b \in Calls \ {c} : calls'[b] = calls[b]
    BY <1>5 DEF CheckToken, GetSession, FindUserAnswered, FindUserRefresh, Goto, Done, SessionInv, TypeOK
  <2> QED BY <1>2, <2>1, <2>2 DEF redis
<1>6. ASSUME NEW c \in Calls, RotateToken(c) \/ RevokeToken(c) PROVE Replacing1(session'[d])
  <2>1. /\ calls[c].pc = "blacklist" /\ session' = session
        /\ blacklist' = blacklist \union {calls[c].token}
    BY <1>6 DEF RotateToken, RevokeToken, Blacklist
  <2>2. /\ calls'[c].pc \in {"save", "delete"} /\ calls'[c].token = calls[c].token
        /\ \A b \in Calls \ {c} : calls'[b] = calls[b]
    BY <1>6 DEF RotateToken, RevokeToken, Goto, SessionInv, TypeOK, Call
  <2> QED BY <1>1, <2>1, <2>2
<1>7. ASSUME NEW c \in Calls, DeleteSession(c) \/ SaveSession(c) PROVE Replacing1(session'[d])
  <2> DEFINE t == IF calls[c].pc = "save" THEN calls[c].new ELSE calls[c].token
  <2>0. CallWellFormed(calls[c]) /\ TokensTraced /\ SessionsCurrent
    BY DEF SessionInv, CallsInv
  <2>1. /\ blacklist' = blacklist /\ owner[t] \in Clients
        /\ session' = [session EXCEPT ![owner[t]] = IF calls[c].pc = "save" THEN t ELSE Null]
        /\ \A b \in Calls \ {c} : calls'[b] = calls[b]
    BY <1>7, <2>0 DEF DeleteSession, SaveSession, PutSession, Done, CallWellFormed, TokensTraced,
                      SessionInv, TypeOK
  <2>2. calls[c].pc = "save" => t \notin blacklist
    BY <2>0 DEF CallWellFormed, TokensTraced
  <2>3. d # owner[t] /\ session'[d] = session[d]
    BY <1>0, <2>1, <2>2 DEF SessionInv, TypeOK
  <2>4. owner[session[d]] = d
    BY <1>0, <2>0, <2>3 DEF SessionsCurrent
  <2>5. PICK b \in Calls : calls[b].token = session[d] /\ calls[b].pc \in {"save", "delete"}
    BY <1>1, <2>1, <2>3
  <2>6. b # c
    BY <1>0, <2>0, <2>3, <2>4, <2>5 DEF CallWellFormed
  <2> QED BY <2>1, <2>3, <2>5, <2>6
<1>8. ASSUME NEW c \in Calls, CallStep(c) PROVE Replacing1(session'[d])
  BY <1>5, <1>6, <1>7, <1>8 DEF CallStep
<1>9. CASE (\E t \in Tokens : ExpireToken(t) \/ ExpireBlacklist(t)) \/ DeleteUser \/ UNCHANGED vars
  BY <1>2, <1>9 DEF ExpireToken, ExpireBlacklist, DeleteUser, vars, redis
<1>10. ASSUME NEW e \in Clients, ExpireSession(e) PROVE Replacing1(session'[d])
  <2>1. blacklist' = blacklist /\ calls' = calls /\ session' = [session EXCEPT ![e] = Null]
    BY <1>10 DEF ExpireSession, PutSession
  <2>2. session'[d] = session[d]
    BY <1>0, <2>1 DEF SessionInv, TypeOK
  <2> QED BY <1>2, <2>1, <2>2
<1>11. ASSUME NEW K, Fault(K) PROVE FALSE
  BY <1>0, <1>11, SessionAssumption DEF Fault, SessionInv, TypeOK
<1> QED
  BY <1>3, <1>4, <1>8, <1>9, <1>10, <1>11 DEF Next

\* While the token of a session is blacklisted, the refresh or the logout that did
\* it is still about to replace or delete the session, unless a call failed: no
\* interleaving of refreshes, logins and logouts leaves a client with a session
\* whose refresh token is refused.  (auth.service.ts:95-103, 144-166)
THEOREM CurrentTokenAlwaysUsable == Spec => []CurrentTokenUsable
<1>1. Init => CurrentTokenUsable
  BY DEF Init, CurrentTokenUsable
<1> QED BY <1>1, SessionInvariant, UsableNext, PTL DEF Spec
=============================================================================
