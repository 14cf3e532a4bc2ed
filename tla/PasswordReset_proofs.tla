------------------------ MODULE PasswordReset_proofs ------------------------
(***************************************************************************)
(* Theorems about PasswordReset for any finite set of requests, limit and  *)
(* bounds.                                                                 *)
(***************************************************************************)
EXTENDS PasswordReset, FiniteSetTheorems, TLAPS

CallType == [pc : {"idle", "limit", "saveCode", "send", "incr", "expire", "readCode",
                   "findUser", "update", "deleteCode"},
             code : Codes \union {Null}, late : BOOLEAN]

N       == Cardinality(Calls)
Unsent  == At({"saveCode", "send"})           \* a code drawn and not mailed
Pending == At({"saveCode", "send", "incr"})   \* ... or mailed and not counted

\* Codes go from the request that drew them to the user, and from there to the
\* resets: a code not mailed yet is one request's alone, and cannot be used.
CodeTraced(call) ==
  /\ call.pc \in {"saveCode", "send"} => call.code \in (1..drawn) \ mailed
  /\ call.pc \in {"readCode", "findUser", "update", "deleteCode"} => call.code \in mailed
  /\ call.late => call.pc = "readCode" /\ call.code \in used

CodesApart ==
  \A b, c \in Calls :
    /\ calls[b].pc \in {"saveCode", "send"} /\ calls[c].pc \in {"saveCode", "send"}
    /\ calls[b].code = calls[c].code
    => b = c

CodesInv ==
  /\ used \subseteq mailed /\ mailed \subseteq 1..drawn
  /\ code \notin used
  /\ \A c \in Calls : CodeTraced(calls[c])
  /\ CodesApart

\* Every mail has a code of its own, and every increment a mail; what the counter
\* has not seen is pending or was lost in a fault.
MailsCounted ==
  /\ sent + Unsent =< drawn
  /\ counter + Pending =< drawn
  /\ sent + Unsent =< counter + Pending + N * faults
  /\ sent + Unsent =< Limit + (N - 1) + N * faults

ResetInv == TypeOK /\ CodesInv /\ MailsCounted

-----------------------------------------------------------------------------
(* Counting the requests *)

LEMMA Count ==
  ASSUME NEW pcs
  PROVE  /\ N \in Nat /\ At(pcs) \in 0..N
         /\ (At(pcs) > 0 <=> \E c \in Calls : calls[c].pc \in pcs)
<1> DEFINE S == {c \in Calls : calls[c].pc \in pcs}
<1>1. IsFiniteSet(Calls) /\ S \in SUBSET Calls
  BY ResetAssumption
<1>2. IsFiniteSet(S) /\ Cardinality(S) =< N /\ Cardinality(S) \in Nat /\ N \in Nat
  BY <1>1, FS_Subset, FS_CardinalityType DEF N
<1>3. Cardinality(S) = 0 <=> S = {}
  BY <1>2, FS_EmptySet
<1>4. At(pcs) = Cardinality(S)
  BY DEF At
<1>5. S = {} <=> ~\E c \in Calls : calls[c].pc \in pcs
  OBVIOUS
<1> HIDE DEF S
<1> QED BY <1>2, <1>3, <1>4, <1>5

LEMMA CountNext ==
  ASSUME NEW pcs
  PROVE  At(pcs)' \in 0..N
<1> DEFINE S == {c \in Calls : calls'[c].pc \in pcs}
<1>1. IsFiniteSet(Calls) /\ S \in SUBSET Calls
  BY ResetAssumption
<1>2. Cardinality(S) =< N /\ Cardinality(S) \in Nat /\ N \in Nat
  BY <1>1, FS_Subset, FS_CardinalityType DEF N
<1>3. At(pcs)' = Cardinality(S)
  BY DEF At
<1> HIDE DEF S
<1> QED BY <1>2, <1>3

\* The count changes by the request that moves in or out.
LEMMA CountMoves ==
  ASSUME TypeOK, NEW pcs, NEW c \in Calls, NEW call, calls' = [calls EXCEPT ![c] = call]
  PROVE  /\ (call.pc \in pcs <=> calls[c].pc \in pcs) => At(pcs)' = At(pcs)
         /\ call.pc \in pcs /\ calls[c].pc \notin pcs => At(pcs)' = At(pcs) + 1
         /\ call.pc \notin pcs /\ calls[c].pc \in pcs => At(pcs)' = At(pcs) - 1
<1> DEFINE S == {b \in Calls : calls[b].pc \in pcs}
           R == S \ {c}
           T == {b \in Calls : calls'[b].pc \in pcs}
<1>1. calls'[c] = call /\ \A b \in Calls \ {c} : calls'[b] = calls[b]
  BY DEF TypeOK
<1>2. IsFiniteSet(S) /\ IsFiniteSet(R) /\ Cardinality(S) \in Nat
  BY ResetAssumption, FS_Subset, FS_CardinalityType
<1>3. Cardinality(R) = Cardinality(S) - (IF calls[c].pc \in pcs THEN 1 ELSE 0)
  BY <1>2, FS_RemoveElement
<1>4. T = IF call.pc \in pcs THEN R \union {c} ELSE R
  BY <1>1
<1>5. Cardinality(T) = Cardinality(R) + (IF call.pc \in pcs THEN 1 ELSE 0)
  <2>1. CASE call.pc \in pcs
    <3>1. Cardinality(R \union {c}) = Cardinality(R) + 1
      BY <1>2, FS_AddElement
    <3> QED BY <1>4, <2>1, <3>1
  <2>2. CASE call.pc \notin pcs
    <3>1. Cardinality(R) \in Nat
      BY <1>2, FS_CardinalityType
    <3> HIDE DEF R, T
    <3> QED BY <1>4, <2>2, <3>1
  <2> QED BY <2>1, <2>2
<1>6. At(pcs) = Cardinality(S) /\ At(pcs)' = Cardinality(T)
  BY DEF At
<1> HIDE DEF S, R, T
<1> QED BY <1>2, <1>3, <1>5, <1>6

\* The count only goes down when requests end.
LEMMA CountEnds ==
  ASSUME NEW pcs, "idle" \notin pcs,
         \A c \in Calls : calls'[c] = calls[c] \/ calls'[c] = NoCall
  PROVE  At(pcs)' =< At(pcs)
<1> DEFINE S == {b \in Calls : calls[b].pc \in pcs}
           T == {b \in Calls : calls'[b].pc \in pcs}
<1>1. IsFiniteSet(S)
  BY ResetAssumption, FS_Subset
<1>2. T \in SUBSET S
  BY DEF NoCall
<1>3. Cardinality(T) =< Cardinality(S)
  BY <1>1, <1>2, FS_Subset
<1>4. At(pcs) = Cardinality(S) /\ At(pcs)' = Cardinality(T)
  BY DEF At
<1> HIDE DEF S, T
<1> QED BY <1>3, <1>4

\* What is not mailed is not counted either.
LEMMA UnsentPending == Unsent =< Pending /\ Unsent \in Nat /\ Pending \in 0..N /\ N \in Nat
<1> DEFINE S == {c \in Calls : calls[c].pc \in {"saveCode", "send"}}
           T == {c \in Calls : calls[c].pc \in {"saveCode", "send", "incr"}}
<1>1. IsFiniteSet(T) /\ S \in SUBSET T
  BY ResetAssumption, FS_Subset
<1>2. Cardinality(S) =< Cardinality(T)
  BY <1>1, FS_Subset
<1>3. Unsent = Cardinality(S) /\ Pending = Cardinality(T)
  BY DEF Unsent, Pending, At
<1> HIDE DEF S, T
<1> QED BY <1>2, <1>3, Count DEF Unsent, Pending

-----------------------------------------------------------------------------
(* The invariant *)

LEMMA ResetInit == Init => ResetInv
<1> SUFFICES ASSUME Init PROVE ResetInv
  OBVIOUS
<1> USE ResetAssumption DEF Init
<1>1. TypeOK /\ \A c \in Calls : calls[c] = NoCall
  <2>1. NoCall \in CallType
    BY DEF NoCall, CallType
  <2>2. calls \in [Calls -> CallType] /\ \A c \in Calls : calls[c] = NoCall
    BY <2>1
  <2>3. 0 \in 0..MaxCodes /\ 0 \in 0..MaxFaults
    OBVIOUS
  <2> QED BY <2>2, <2>3 DEF TypeOK, CallType
<1>2. CodesInv
  BY <1>1 DEF CodesInv, CodeTraced, CodesApart, NoCall
<1>3. MailsCounted
  <2>1. ~(Unsent > 0) /\ ~(Pending > 0)
    BY <1>1, Count DEF Unsent, Pending, NoCall
  <2>2. Unsent = 0 /\ Pending = 0 /\ N \in Nat /\ N * faults = 0
    BY <2>1, UnsentPending
  <2> QED BY <2>2 DEF MailsCounted
<1> QED BY <1>1, <1>2, <1>3 DEF ResetInv

\* One request moves on and the codes only go forward.
LEMMA CodesKept ==
  ASSUME ResetInv, NEW c \in Calls, NEW call \in CallType, calls' = [calls EXCEPT ![c] = call],
         drawn' \in Nat, drawn <= drawn', mailed \subseteq mailed', used \subseteq used',
         used' \subseteq mailed', mailed' \subseteq 1..drawn', code' \notin used',
         CodeTraced(call)',
         \A b \in Calls \ {c} : calls[b].pc \in {"saveCode", "send"} =>
           /\ calls[b].code \notin mailed'
           /\ call.pc \in {"saveCode", "send"} => calls[b].code # call.code
  PROVE  CodesInv' /\ calls' \in [Calls -> CallType]
<1> USE DEF ResetInv, CodesInv
<1>1. calls' \in [Calls -> CallType] /\ calls'[c] = call
      /\ \A b \in Calls \ {c} : calls'[b] = calls[b]
  BY DEF TypeOK, CallType
<1>2. ASSUME NEW b \in Calls \ {c} PROVE CodeTraced(calls[b])'
  <2>1. CodeTraced(calls[b]) /\ calls'[b] = calls[b]
    BY <1>1
  <2>2. drawn \in Nat /\ 1..drawn \subseteq 1..drawn'
    BY ResetAssumption DEF TypeOK
  <2> QED BY <2>1, <2>2 DEF CodeTraced
<1>3. \A b \in Calls : CodeTraced(calls[b])'
  BY <1>1, <1>2
<1>4. CodesApart'
  BY <1>1 DEF CodesApart
<1> QED BY <1>1, <1>3, <1>4

\* ... or ends, or moves with its code.
LEMMA CodesSame ==
  ASSUME ResetInv, NEW c \in Calls, NEW call \in CallType, calls' = [calls EXCEPT ![c] = call],
         UNCHANGED <<drawn, mailed, used>>, code' \notin used, CodeTraced(call),
         call.pc \in {"saveCode", "send"} =>
           calls[c].pc \in {"saveCode", "send"} /\ call.code = calls[c].code
  PROVE  CodesInv' /\ calls' \in [Calls -> CallType]
<1>1. drawn' \in Nat /\ drawn <= drawn'
  BY ResetAssumption DEF ResetInv, TypeOK
<1>2. CodeTraced(call)'
  BY DEF CodeTraced
<1>3. \A b \in Calls \ {c} : calls[b].pc \in {"saveCode", "send"} =>
           /\ calls[b].code \notin mailed'
           /\ call.pc \in {"saveCode", "send"} => calls[b].code # call.code
  BY DEF ResetInv, CodesInv, CodeTraced, CodesApart
<1>4. used' \subseteq mailed' /\ mailed' \subseteq 1..drawn' /\ code' \notin used'
  BY DEF ResetInv, CodesInv
<1> QED BY <1>1, <1>2, <1>3, <1>4, CodesKept

LEMMA NoCallType == NoCall \in CallType /\ CodeTraced(NoCall)
BY DEF NoCall, CallType, CodeTraced

\* How the two counts change with one request.
LEMMA CountsMove ==
  ASSUME ResetInv, NEW c \in Calls, NEW call, calls' = [calls EXCEPT ![c] = call]
  PROVE  /\ LET U == {"saveCode", "send"}
            IN /\ (call.pc \in U <=> calls[c].pc \in U) => Unsent' = Unsent
               /\ call.pc \in U /\ calls[c].pc \notin U => Unsent' = Unsent + 1
               /\ call.pc \notin U /\ calls[c].pc \in U => Unsent' = Unsent - 1
         /\ LET P == {"saveCode", "send", "incr"}
            IN /\ (call.pc \in P <=> calls[c].pc \in P) => Pending' = Pending
               /\ call.pc \in P /\ calls[c].pc \notin P => Pending' = Pending + 1
               /\ call.pc \notin P /\ calls[c].pc \in P => Pending' = Pending - 1
         /\ Unsent \in Nat /\ Unsent' \in Nat /\ Pending \in Nat /\ Pending' \in 0..N
         /\ Unsent =< Pending /\ N \in Nat /\ N' = N
<1>1. TypeOK
  BY DEF ResetInv
<1>2. LET U == {"saveCode", "send"}
      IN /\ (call.pc \in U <=> calls[c].pc \in U) => Unsent' = Unsent
         /\ call.pc \in U /\ calls[c].pc \notin U => Unsent' = Unsent + 1
         /\ call.pc \notin U /\ calls[c].pc \in U => Unsent' = Unsent - 1
  BY <1>1, CountMoves DEF Unsent
<1>3. LET P == {"saveCode", "send", "incr"}
      IN /\ (call.pc \in P <=> calls[c].pc \in P) => Pending' = Pending
         /\ call.pc \in P /\ calls[c].pc \notin P => Pending' = Pending + 1
         /\ call.pc \notin P /\ calls[c].pc \in P => Pending' = Pending - 1
  BY <1>1, CountMoves DEF Pending
<1>4. Unsent' \in 0..N /\ Pending' \in 0..N
  BY CountNext DEF Unsent, Pending
<1>5. N' = N
  BY DEF N
<1>6. Unsent' \in Nat
  BY <1>4, UnsentPending
<1> QED BY <1>2, <1>3, <1>4, <1>5, <1>6, UnsentPending

\* A step that draws, mails and counts nothing.
LEMMA MailsSame ==
  ASSUME ResetInv, NEW c \in Calls, NEW call, calls' = [calls EXCEPT ![c] = call],
         UNCHANGED <<drawn, counter, sent, faults>>,
         call.pc \in {"saveCode", "send"} <=> calls[c].pc \in {"saveCode", "send"},
         call.pc = "incr" <=> calls[c].pc = "incr"
  PROVE  MailsCounted'
<1>1. Unsent' = Unsent /\ Pending' = Pending /\ N' = N
  BY CountsMove
<1> QED BY <1>1 DEF ResetInv, MailsCounted

LEMMA SendStepsInv ==
  ASSUME ResetInv, NEW c \in Calls,
         AskCode(c) \/ CheckLimit(c) \/ SaveCode(c) \/ SendMail(c) \/ Increment(c) \/ SetCounterTtl(c)
  PROVE  ResetInv'
<1> USE ResetAssumption
<1>0. calls[c] \in CallType /\ CodeTraced(calls[c]) /\ calls \in [Calls -> CallType]
  BY DEF ResetInv, CodesInv, TypeOK, CallType
<1>a. /\ drawn \in 0..MaxCodes /\ counter \in 0..MaxCodes /\ sent \in 0..MaxCodes /\ faults \in Nat
      /\ code \notin used
  BY DEF ResetInv, TypeOK, CodesInv
<1>1. CASE AskCode(c)
  <2>1. PICK call : call = [calls[c] EXCEPT !.pc = "limit"]
    OBVIOUS
  <2>2. calls' = [calls EXCEPT ![c] = call] /\ calls[c].pc = "idle"
    BY <1>0, <1>1, <2>1 DEF AskCode, Goto
  <2>3. call \in CallType /\ call.pc = "limit" /\ CodeTraced(call)
    BY <1>0, <2>1, <2>2 DEF CallType, CodeTraced
  <2>4. CodesInv' /\ calls' \in [Calls -> CallType]
    BY <1>1, <1>a, <2>2, <2>3, CodesSame DEF AskCode, mail
  <2>5. MailsCounted'
    BY <1>1, <2>2, <2>3, MailsSame DEF AskCode, mail, limit
  <2> QED BY <1>1, <2>4, <2>5 DEF AskCode, mail, limit, ResetInv, TypeOK, CallType
<1>2. CASE CheckLimit(c)
  <2>1. CASE counter >= Limit
    <3>1. calls' = [calls EXCEPT ![c] = NoCall] /\ drawn' = drawn /\ calls[c].pc = "limit"
      BY <1>2, <2>1 DEF CheckLimit, Done
    <3>2. CodesInv' /\ calls' \in [Calls -> CallType]
      BY <1>2, <1>a, <3>1, NoCallType, CodesSame DEF CheckLimit, mail, NoCall
    <3>3. MailsCounted'
      BY <1>2, <3>1, MailsSame DEF CheckLimit, mail, limit, NoCall
    <3> QED BY <1>2, <3>1, <3>2, <3>3 DEF CheckLimit, mail, limit, ResetInv, TypeOK, CallType
  <2>2. CASE ~(counter >= Limit)
    <3>1. PICK call : call = [calls[c] EXCEPT !.pc = "saveCode", !.code = drawn + 1]
      OBVIOUS
    <3>2. /\ calls' = [calls EXCEPT ![c] = call] /\ calls[c].pc = "limit"
          /\ drawn' = drawn + 1 /\ drawn < MaxCodes
          /\ UNCHANGED <<exists, code, counter, counterTtl, mailed, sent, password, used, faults>>
      BY <1>0, <1>2, <2>2, <3>1 DEF CheckLimit, mail, limit
    <3>n. drawn' \in 0..MaxCodes /\ drawn + 1 \in Codes
      BY <1>a, <3>2 DEF Codes
    <3>3. /\ call \in CallType /\ call.pc = "saveCode" /\ call.code = drawn + 1 /\ ~call.late
      BY <1>0, <3>1, <3>2, <3>n DEF CallType, CodeTraced
    <3>4. mailed \subseteq 1..drawn /\ used \subseteq mailed
          /\ \A b \in Calls : calls[b].pc \in {"saveCode", "send"} => calls[b].code \in (1..drawn) \ mailed
      BY DEF ResetInv, CodesInv, CodeTraced
    <3>5. CodeTraced(call)'
      BY <1>a, <3>2, <3>3, <3>4 DEF CodeTraced
    <3>6. CodesInv' /\ calls' \in [Calls -> CallType]
      <4>1. drawn' \in Nat /\ drawn <= drawn' /\ mailed' \subseteq 1..drawn'
        BY <1>a, <3>2, <3>4
      <4>2. \A b \in Calls \ {c} : calls[b].pc \in {"saveCode", "send"} =>
              calls[b].code \notin mailed' /\ calls[b].code # call.code
        BY <1>a, <3>2, <3>3, <3>4
      <4>3. mailed \subseteq mailed' /\ used \subseteq used' /\ used' \subseteq mailed' /\ code' \notin used'
        BY <1>a, <3>2, <3>4
      <4> QED BY <3>2, <3>3, <3>5, <4>1, <4>2, <4>3, CodesKept
    <3>7. MailsCounted'
      <4>1. /\ Unsent' = Unsent + 1 /\ Pending' = Pending + 1 /\ Pending' \in 0..N
            /\ Unsent \in Nat /\ Pending \in Nat /\ N \in Nat /\ N' = N
        BY <3>2, <3>3, CountsMove
      <4>2. PICK lost \in Nat : lost = N * faults /\ (N * faults)' = lost
        BY <1>a, <3>2, <4>1
      <4> QED BY <1>a, <2>2, <3>2, <4>1, <4>2 DEF ResetInv, MailsCounted
    <3> QED BY <3>2, <3>n, <3>6, <3>7 DEF ResetInv, TypeOK, CallType
  <2> QED BY <2>1, <2>2
<1>3. CASE SaveCode(c)
  <2>1. PICK call : call = [calls[c] EXCEPT !.pc = "send"]
    OBVIOUS
  <2>2. calls' = [calls EXCEPT ![c] = call] /\ calls[c].pc = "saveCode"
    BY <1>0, <1>3, <2>1 DEF SaveCode, Goto
  <2>3. call \in CallType /\ call.pc = "send" /\ call.code = calls[c].code /\ call.late = calls[c].late
    BY <1>0, <2>1 DEF CallType
  <2>4. CodeTraced(call) /\ code' \notin used /\ code' \in Codes \union {Null}
    BY <1>0, <1>3, <2>2, <2>3 DEF CodeTraced, SaveCode, ResetInv, CodesInv, CallType
  <2>5. CodesInv' /\ calls' \in [Calls -> CallType]
    BY <1>3, <2>2, <2>3, <2>4, CodesSame DEF SaveCode, mail
  <2>6. MailsCounted'
    BY <1>3, <2>2, <2>3, MailsSame DEF SaveCode, mail, limit
  <2> QED BY <1>3, <2>4, <2>5, <2>6 DEF SaveCode, mail, limit, ResetInv, TypeOK, CallType
<1>4. CASE SendMail(c)
  <2>1. PICK call : call = [calls[c] EXCEPT !.pc = "incr"]
    OBVIOUS
  <2>2. /\ calls' = [calls EXCEPT ![c] = call] /\ calls[c].pc = "send"
        /\ mailed' = mailed \union {calls[c].code} /\ sent' = sent + 1
        /\ UNCHANGED <<exists, drawn, code, counter, counterTtl, password, used, faults>>
    BY <1>0, <1>4, <2>1 DEF SendMail, Goto, limit
  <2>3. call \in CallType /\ call.pc = "incr" /\ call.late = calls[c].late
    BY <1>0, <2>1 DEF CallType
  <2>4. /\ CodeTraced(call)' /\ calls[c].code \in 1..drawn
    BY <1>0, <2>2, <2>3 DEF CodeTraced
  <2>5. CodesInv' /\ calls' \in [Calls -> CallType]
    <3>1. \A b \in Calls \ {c} : calls[b].pc \in {"saveCode", "send"} => calls[b].code \notin mailed'
      BY <2>2 DEF ResetInv, CodesInv, CodeTraced, CodesApart
    <3>2. mailed \subseteq mailed' /\ used \subseteq used' /\ used' \subseteq mailed'
          /\ mailed' \subseteq 1..drawn' /\ code' \notin used'
      BY <2>2, <2>4 DEF ResetInv, CodesInv
    <3>3. drawn' \in Nat /\ drawn <= drawn'
      BY <1>a, <2>2
    <3> QED BY <2>2, <2>3, <2>4, <3>1, <3>2, <3>3, CodesKept
  <2>6. MailsCounted'
    <3>1. /\ Unsent' = Unsent - 1 /\ Pending' = Pending /\ Unsent' \in Nat
          /\ Unsent \in Nat /\ Pending \in Nat /\ N \in Nat /\ N' = N
      BY <2>2, <2>3, CountsMove
    <3>2. PICK lost \in Nat : lost = N * faults /\ (N * faults)' = lost
      BY <1>a, <2>2, <3>1
    <3> QED BY <1>a, <2>2, <3>1, <3>2 DEF ResetInv, MailsCounted
  <2>7. sent' \in 0..MaxCodes /\ mailed' \subseteq Codes
    <3>1. Unsent' \in Nat /\ sent' + Unsent' =< drawn'
      BY <2>2, <2>6, CountsMove DEF MailsCounted
    <3>2. calls[c].code \in Codes
      BY <1>a, <2>4 DEF Codes
    <3>3. sent' \in 0..MaxCodes
      <4>1. PICK s \in Nat, u \in Nat, d \in 0..MaxCodes : s = sent' /\ u = Unsent' /\ d = drawn'
        BY <1>a, <2>2, <3>1
      <4>2. s + u =< d
        BY <3>1, <4>1
      <4>3. s \in 0..MaxCodes
        BY <4>2
      <4> QED BY <4>1, <4>3
    <3>4. mailed' \subseteq Codes
      BY <2>2, <3>2 DEF ResetInv, TypeOK
    <3> QED BY <3>3, <3>4
  <2> QED BY <2>2, <2>5, <2>6, <2>7 DEF ResetInv, TypeOK, CallType
<1>5. CASE Increment(c)
  <2>1. PICK call : call = IF counter' = 1 THEN [calls[c] EXCEPT !.pc = "expire"] ELSE NoCall
    OBVIOUS
  <2>2. /\ calls' = [calls EXCEPT ![c] = call] /\ calls[c].pc = "incr" /\ counter' = counter + 1
        /\ UNCHANGED <<exists, drawn, code, counterTtl, mailed, sent, password, used, faults>>
    BY <1>0, <1>5, <2>1 DEF Increment, Goto, Done, mail
  <2>3. call \in CallType /\ call.pc \in {"expire", "idle"} /\ CodeTraced(call)
    BY <1>0, <2>1, <2>2, NoCallType DEF CallType, NoCall, CodeTraced
  <2>4. CodesInv' /\ calls' \in [Calls -> CallType]
    BY <1>a, <2>2, <2>3, CodesSame
  <2>5. MailsCounted' /\ counter' \in 0..MaxCodes
    <3>1. /\ Unsent' = Unsent /\ Pending' = Pending - 1 /\ Pending' \in 0..N
          /\ Unsent \in Nat /\ Pending \in Nat /\ N \in Nat /\ N' = N
      BY <2>2, <2>3, CountsMove
    <3>2. PICK lost \in Nat : lost = N * faults /\ (N * faults)' = lost
      BY <1>a, <2>2, <3>1
    <3> QED BY <1>a, <2>2, <3>1, <3>2 DEF ResetInv, MailsCounted
  <2> QED BY <2>2, <2>4, <2>5 DEF ResetInv, TypeOK, CallType
<1>6. CASE SetCounterTtl(c)
  <2>1. calls' = [calls EXCEPT ![c] = NoCall] /\ calls[c].pc = "expire"
    BY <1>6 DEF SetCounterTtl, Done
  <2>2. CodesInv' /\ calls' \in [Calls -> CallType]
    BY <1>6, <1>a, <2>1, NoCallType, CodesSame DEF SetCounterTtl, mail, NoCall
  <2>3. MailsCounted'
    BY <1>6, <2>1, MailsSame DEF SetCounterTtl, mail, NoCall
  <2> QED BY <1>6, <2>2, <2>3 DEF SetCounterTtl, mail, ResetInv, TypeOK, CallType
<1> QED BY <1>1, <1>2, <1>3, <1>4, <1>5, <1>6

LEMMA ResetStepsInv ==
  ASSUME ResetInv, NEW c \in Calls,
         \/ \E k \in Codes : AskReset(c, k)
         \/ ReadCode(c) \/ FindUser(c) \/ UpdatePassword(c) \/ DeleteCode(c)
  PROVE  ResetInv'
<1>0. calls[c] \in CallType /\ CodeTraced(calls[c]) /\ calls \in [Calls -> CallType]
      /\ code \notin used
  BY DEF ResetInv, CodesInv, TypeOK, CallType
<1>a. UNCHANGED <<exists, drawn, counter, counterTtl, mailed, sent, faults>>
  BY DEF AskReset, ReadCode, FindUser, UpdatePassword, DeleteCode, limit, mail
<1>b. ASSUME NEW call \in CallType, calls' = [calls EXCEPT ![c] = call], CodeTraced(call),
             call.pc \notin {"saveCode", "send", "incr"},
             calls[c].pc \notin {"saveCode", "send", "incr"},
             UNCHANGED <<code, used>>, password' \in Codes \union {Null}
      PROVE  ResetInv'
  <2>1. CodesInv' /\ calls' \in [Calls -> CallType]
    BY <1>0, <1>a, <1>b, CodesSame
  <2>2. MailsCounted'
    BY <1>a, <1>b, MailsSame
  <2> QED BY <1>a, <1>b, <2>1, <2>2 DEF ResetInv, TypeOK, CallType
<1>c. password \in Codes \union {Null} /\ CodeTraced(NoCall) /\ NoCall \in CallType /\ NoCall.pc = "idle"
  BY NoCallType DEF ResetInv, TypeOK, NoCall
<1>d. ASSUME NEW pc \in {"findUser", "update", "deleteCode"}, Goto(c, pc),
             calls[c].pc \in {"readCode", "findUser", "update"}, ~calls[c].late,
             UNCHANGED <<code, used>>, password' \in Codes \union {Null}
      PROVE  ResetInv'
  <2>1. PICK call : call = [calls[c] EXCEPT !.pc = pc]
    OBVIOUS
  <2>2. calls' = [calls EXCEPT ![c] = call]
    BY <1>0, <1>d, <2>1 DEF Goto
  <2>3. call \in CallType /\ call.pc = pc /\ call.code = calls[c].code /\ ~call.late
    BY <1>0, <1>d, <2>1 DEF CallType
  <2>4. CodeTraced(call)
    BY <1>0, <1>d, <2>3 DEF CodeTraced
  <2> QED BY <1>b, <1>d, <2>2, <2>3, <2>4
<1>e. ASSUME Done(c), calls[c].pc \notin {"saveCode", "send", "incr"}, UNCHANGED <<code, used, password>>
      PROVE  ResetInv'
  BY <1>b, <1>c, <1>e DEF Done
<1>1. ASSUME NEW k \in Codes, AskReset(c, k) PROVE ResetInv'
  <2>1. PICK call : call = [pc |-> "readCode", code |-> k, late |-> k \in used]
    OBVIOUS
  <2>2. /\ call.pc = "readCode" /\ call.code = k /\ call.late = (k \in used)
        /\ call \in CallType /\ k \in mailed
    BY <1>1, <2>1 DEF CallType, AskReset
  <2>3. CodeTraced(call)
    BY <2>2 DEF CodeTraced
  <2> QED BY <1>1, <1>b, <1>c, <2>1, <2>2, <2>3 DEF AskReset
<1>2. CASE ReadCode(c)
  <2>1. CASE code = calls[c].code
    <3>1. ~calls[c].late
      BY <1>0, <2>1 DEF CodeTraced
    <3> QED BY <1>2, <1>c, <1>d, <2>1, <3>1 DEF ReadCode
  <2>2. CASE code # calls[c].code
    BY <1>2, <1>e, <2>2 DEF ReadCode
  <2> QED BY <2>1, <2>2
<1>3. CASE FindUser(c)
  <2>1. ~calls[c].late
    BY <1>0, <1>3 DEF CodeTraced, FindUser
  <2> QED BY <1>3, <1>c, <1>d, <1>e, <2>1 DEF FindUser
<1>4. CASE UpdatePassword(c)
  <2>1. ~calls[c].late /\ calls[c].code \in Codes \union {Null}
    BY <1>0, <1>4 DEF CodeTraced, UpdatePassword, CallType
  <2> QED BY <1>4, <1>d, <1>e, <2>1 DEF UpdatePassword
<1>5. CASE DeleteCode(c)
  <2>1. /\ calls' = [calls EXCEPT ![c] = NoCall] /\ calls[c].pc = "deleteCode" /\ code' = Null
        /\ used' = used \union {calls[c].code} /\ password' = password
    BY <1>5 DEF DeleteCode, Done
  <2>2. calls[c].code \in mailed
    BY <1>0, <2>1 DEF CodeTraced
  <2>3. mailed \subseteq Codes /\ Null \notin Codes
    BY ResetAssumption DEF ResetInv, TypeOK, Codes
  <2>4. CodesInv' /\ calls' \in [Calls -> CallType]
    <3>1. drawn' \in Nat /\ drawn <= drawn'
      BY <1>a, ResetAssumption DEF ResetInv, TypeOK
    <3>2. used \subseteq used' /\ used' \subseteq mailed' /\ mailed' \subseteq 1..drawn' /\ mailed \subseteq mailed'
          /\ code' \notin used'
      BY <1>a, <2>1, <2>2, <2>3 DEF ResetInv, CodesInv
    <3>3. \A b \in Calls \ {c} : calls[b].pc \in {"saveCode", "send"} => calls[b].code \notin mailed'
      BY <1>a DEF ResetInv, CodesInv, CodeTraced
    <3>4. CodeTraced(NoCall)' /\ NoCall.pc = "idle"
      BY DEF NoCall, CodeTraced
    <3> QED BY <1>c, <2>1, <3>1, <3>2, <3>3, <3>4, CodesKept
  <2>5. MailsCounted'
    BY <1>a, <1>c, <2>1, MailsSame
  <2> QED BY <1>a, <2>1, <2>2, <2>3, <2>4, <2>5 DEF ResetInv, TypeOK, CallType
<1> QED BY <1>1, <1>2, <1>3, <1>4, <1>5

LEMMA EnvironmentInv ==
  ASSUME ResetInv, ExpireCode \/ ExpireCounter \/ DeleteUser
  PROVE  ResetInv'
<1> USE ResetAssumption
<1>1. /\ UNCHANGED <<drawn, mailed, used, calls, faults>> /\ code' \in {code, Null}
      /\ \/ UNCHANGED <<counter, sent>>
         \/ counter' = 0 /\ sent' = 0
  BY DEF ExpireCode, ExpireCounter, DeleteUser, limit, mail
<1>2. CodesInv'
  <2>1. Null \notin used
    <3>1. Null \notin Codes
      BY DEF Codes
    <3> QED BY <3>1 DEF ResetInv, TypeOK
  <2> QED BY <1>1, <2>1 DEF ResetInv, CodesInv, CodeTraced, CodesApart
<1>3. MailsCounted'
  <2>1. Unsent' = Unsent /\ Pending' = Pending /\ N' = N
    BY <1>1 DEF Unsent, Pending, N, At
  <2>2. PICK lost \in Nat : lost = N * faults /\ (N * faults)' = lost
    BY <1>1, <2>1, UnsentPending DEF ResetInv, TypeOK
  <2>3. Unsent =< Pending /\ Unsent \in Nat /\ Pending \in 0..N /\ N \in Nat
        /\ counter \in Nat /\ sent \in Nat
    BY UnsentPending DEF ResetInv, TypeOK
  <2> QED BY <1>1, <2>1, <2>2, <2>3 DEF ResetInv, MailsCounted, TypeOK
<1>4. TypeOK'
  <2>1. counter' \in 0..MaxCodes /\ sent' \in 0..MaxCodes
    BY <1>1 DEF ResetInv, TypeOK
  <2>2. exists' \in BOOLEAN /\ counterTtl' \in BOOLEAN /\ password' = password
    BY DEF ExpireCode, ExpireCounter, DeleteUser, limit, mail, ResetInv, TypeOK
  <2> QED BY <1>1, <2>1, <2>2 DEF ResetInv, TypeOK
<1> QED BY <1>2, <1>3, <1>4 DEF ResetInv

\* A fault loses at most a mail of every request.
LEMMA FaultInv ==
  ASSUME ResetInv, NEW K \in SUBSET Calls, Fault(K)
  PROVE  ResetInv'
<1> USE ResetAssumption
<1>1. /\ UNCHANGED <<exists, drawn, code, counter, counterTtl, mailed, sent, password, used>>
      /\ faults' = faults + 1 /\ faults \in Nat /\ faults' \in 0..MaxFaults
  BY DEF Fault, limit, mail, ResetInv, TypeOK
<1>2. \A c \in Calls : calls'[c] = calls[c] \/ calls'[c] = NoCall
  BY DEF Fault
<1>3. calls' \in [Calls -> CallType]
  BY NoCallType DEF Fault, ResetInv, TypeOK, CallType
<1>4. CodesInv'
  <2>1. \A c \in Calls : CodeTraced(calls[c])'
    BY <1>1, <1>2, NoCallType DEF ResetInv, CodesInv, CodeTraced, NoCall
  <2>2. CodesApart'
    BY <1>2 DEF ResetInv, CodesInv, CodesApart, NoCall
  <2> QED BY <1>1, <2>1, <2>2 DEF ResetInv, CodesInv
<1>5. MailsCounted'
  <2>1. /\ Unsent' =< Unsent /\ Pending' =< Pending
        /\ Unsent \in Nat /\ Unsent' \in 0..N /\ Pending \in 0..N /\ Pending' \in 0..N /\ N \in Nat
    BY <1>2, CountEnds, CountNext, UnsentPending DEF Unsent, Pending
  <2>2. PICK lost \in Nat : lost = N * faults /\ (N * faults)' = lost + N
    BY <1>1, <2>1 DEF N
  <2>3. N' = N /\ counter \in Nat /\ sent \in Nat /\ drawn \in Nat
    BY DEF N, ResetInv, TypeOK
  <2>4. /\ sent + Unsent =< drawn
        /\ counter + Pending =< drawn
        /\ sent + Unsent =< counter + Pending + lost
        /\ sent + Unsent =< Limit + (N - 1) + lost
    BY <2>2 DEF ResetInv, MailsCounted
  <2>5. /\ sent' + Unsent' =< drawn'
        /\ counter' + Pending' =< drawn'
        /\ sent' + Unsent' =< counter' + Pending' + (lost + N)
        /\ sent' + Unsent' =< Limit + (N - 1) + (lost + N)
    <3>1. PICK u \in Nat, u1 \in Nat, k \in Nat, k1 \in Nat, n \in Nat :
            /\ u = Unsent /\ u1 = Unsent' /\ k = Pending /\ k1 = Pending' /\ n = N
            /\ k =< n /\ u1 =< u /\ k1 =< k
      BY <2>1
    <3>2. /\ sent + u =< drawn /\ counter + k =< drawn
          /\ sent + u =< counter + k + lost /\ sent + u =< Limit + (n - 1) + lost
      BY <2>4, <3>1
    <3>3. /\ k =< n /\ u1 =< u /\ k1 =< k
          /\ counter \in Nat /\ sent \in Nat /\ drawn \in Nat
      BY <2>3, <3>1
    <3>4. sent + u1 =< drawn /\ counter + k1 =< drawn
      BY <3>2, <3>3
    <3>5. sent + u1 =< counter + k1 + (lost + n) /\ sent + u1 =< Limit + (n - 1) + (lost + n)
      BY <3>2, <3>3
    <3> QED BY <1>1, <3>1, <3>4, <3>5
  <2> QED BY <2>2, <2>3, <2>5 DEF MailsCounted
<1> QED BY <1>1, <1>3, <1>4, <1>5 DEF ResetInv, TypeOK, CallType

LEMMA ResetNext == ResetInv /\ [Next]_vars => ResetInv'
<1> SUFFICES ASSUME ResetInv, [Next]_vars PROVE ResetInv'
  OBVIOUS
<1>1. CASE UNCHANGED vars
  <2>1. Unsent' = Unsent /\ Pending' = Pending /\ N' = N
    BY <1>1 DEF vars, Unsent, Pending, N, At
  <2> QED BY <1>1, <2>1 DEF vars, limit, mail, ResetInv, TypeOK, CodesInv, CodeTraced, CodesApart,
                            MailsCounted
<1>2. ASSUME NEW c \in Calls, AskCode(c) \/ CallStep(c) PROVE ResetInv'
  BY <1>2, SendStepsInv, ResetStepsInv DEF CallStep
<1>3. ASSUME NEW c \in Calls, NEW k \in Codes, AskReset(c, k) PROVE ResetInv'
  BY <1>3, ResetStepsInv
<1>4. ASSUME NEW c \in Busy, Fault({c}) PROVE ResetInv'
  BY <1>4, FaultInv DEF Busy
<1>5. CASE Fault(Busy)
  BY <1>5, FaultInv DEF Busy
<1> QED BY <1>1, <1>2, <1>3, <1>4, <1>5, EnvironmentInv DEF Next

LEMMA ResetInvariant == Spec => []ResetInv
BY ResetInit, ResetNext, PTL DEF Spec

-----------------------------------------------------------------------------
(* Theorems *)

\* Keys, counters and requests stay well formed; the counter and the mails of a
\* day never outnumber the codes drawn.  (auth.service.ts:171-300)
THEOREM TypeCorrect == Spec => []TypeOK
<1>1. ResetInv => TypeOK
  BY DEF ResetInv
<1> QED BY <1>1, ResetInvariant, PTL

\* The limit of mails is exceeded by at most the other requests in progress and
\* the mails that faults left uncounted, for any number of requests.
\* (auth.service.ts:186-192, 240-243)
THEOREM MailsAlwaysBounded == Spec => []MailsBounded
<1>1. ResetInv => MailsBounded
  <2> SUFFICES ASSUME ResetInv PROVE MailsBounded
    OBVIOUS
  <2>1. Unsent \in Nat /\ N \in Nat /\ sent \in Nat /\ faults \in Nat
    BY UnsentPending, ResetAssumption DEF ResetInv, TypeOK
  <2>2. PICK lost \in Nat : lost = N * faults /\ lost = faults * N
    BY <2>1
  <2>3. sent + Unsent =< Limit + (N - 1) + lost
    BY <2>2 DEF ResetInv, MailsCounted
  <2>4. sent =< Limit + (N - 1) + lost
    BY <2>1, <2>2, <2>3, ResetAssumption
  <2> QED BY <2>2, <2>4 DEF MailsBounded, N
<1> QED BY <1>1, ResetInvariant, PTL

\* A code whose reset is complete never reaches the account again: its key is
\* gone, no request can save it again, and the resets that had passed the check
\* had arrived before.  (auth.service.ts:268-297)
THEOREM UsedCodesAlwaysRefused == Spec => []UsedCodesRefused
<1>1. ResetInv => UsedCodesRefused
  BY DEF ResetInv, CodesInv, CodeTraced, UsedCodesRefused
<1> QED BY <1>1, ResetInvariant, PTL

LEMMA LockoutNext == ResetInv /\ LockoutEnds /\ [Next]_vars => LockoutEnds'
<1> SUFFICES ASSUME ResetInv, LockoutEnds, [Next]_vars,
                    counter' > 0, ~counterTtl', ~(faults' > 0)
             PROVE  At({"expire"})' > 0
  BY DEF LockoutEnds
<1>0. counter \in Nat /\ faults \in Nat /\ calls \in [Calls -> CallType]
  BY DEF ResetInv, TypeOK, CallType
<1>1. At({"expire"})' > 0 <=> \E c \in Calls : calls'[c].pc = "expire"
  <2> DEFINE S == {c \in Calls : calls'[c].pc \in {"expire"}}
  <2>1. IsFiniteSet(S)
    BY ResetAssumption, FS_Subset
  <2>2. Cardinality(S) \in Nat /\ (Cardinality(S) = 0 <=> S = {})
    BY <2>1, FS_CardinalityType, FS_EmptySet
  <2>3. At({"expire"})' = Cardinality(S) /\ (S = {} <=> ~\E c \in Calls : calls'[c].pc = "expire")
    BY DEF At
  <2> HIDE DEF S
  <2> QED BY <2>2, <2>3
<1>2. counter > 0 /\ ~counterTtl /\ ~(faults > 0) => \E c \in Calls : calls[c].pc = "expire"
  BY Count DEF LockoutEnds
<1>3. ASSUME UNCHANGED <<counter, counterTtl, faults>>,
             \A c \in Calls : calls[c].pc = "expire" => calls'[c].pc = "expire"
      PROVE  At({"expire"})' > 0
  BY <1>1, <1>2, <1>3
<1>4. ASSUME NEW c \in Calls, NEW call, calls[c].pc # "expire",
             calls' = [calls EXCEPT ![c] = call], UNCHANGED <<counter, counterTtl, faults>>
      PROVE  At({"expire"})' > 0
  BY <1>0, <1>3, <1>4
<1>5. ASSUME NEW c \in Calls, NEW pc, calls[c].pc # "expire",
             Goto(c, pc) \/ Done(c), UNCHANGED <<counter, counterTtl, faults>>
      PROVE  At({"expire"})' > 0
  BY <1>0, <1>3, <1>5 DEF Goto, Done
<1>6. ASSUME NEW c \in Calls, AskCode(c) \/ CheckLimit(c) \/ SaveCode(c) \/ SendMail(c)
      PROVE  At({"expire"})' > 0
  BY <1>0, <1>3, <1>6 DEF AskCode, CheckLimit, SaveCode, SendMail, Goto, Done, limit
<1>7. ASSUME NEW c \in Calls, ReadCode(c) \/ FindUser(c) \/ UpdatePassword(c) \/ DeleteCode(c)
      PROVE  At({"expire"})' > 0
  BY <1>5, <1>7 DEF ReadCode, FindUser, UpdatePassword, DeleteCode, limit
<1>8. ASSUME NEW c \in Calls, NEW k \in Codes, AskReset(c, k) PROVE At({"expire"})' > 0
  BY <1>4, <1>8 DEF AskReset, limit
<1>9. ASSUME NEW c \in Calls, Increment(c) PROVE At({"expire"})' > 0
  <2>1. calls[c].pc = "incr" /\ counter' = counter + 1 /\ UNCHANGED <<counterTtl, faults>>
    BY <1>9 DEF Increment
  <2>2. CASE counter' = 1
    <3>1. calls'[c].pc = "expire"
      BY <1>0, <1>9, <2>2 DEF Increment, Goto, CallType
    <3> QED BY <1>1, <3>1
  <2>3. CASE counter' # 1
    <3>1. PICK b \in Calls : calls[b].pc = "expire"
      BY <1>0, <1>2, <2>1, <2>3
    <3>2. b # c /\ calls' = [calls EXCEPT ![c] = NoCall]
      BY <1>9, <2>1, <2>3, <3>1 DEF Increment, Done
    <3> QED BY <1>0, <1>1, <3>1, <3>2
  <2> QED BY <2>2, <2>3
<1>10. ASSUME NEW c \in Calls, SetCounterTtl(c) PROVE FALSE
  BY <1>10 DEF SetCounterTtl
<1>11. ASSUME NEW K, Fault(K) PROVE FALSE
  BY <1>0, <1>11 DEF Fault
<1>12. CASE ExpireCode \/ DeleteUser \/ UNCHANGED vars
  BY <1>3, <1>12 DEF ExpireCode, DeleteUser, vars, limit
<1>13. ~ExpireCounter
  BY DEF ExpireCounter
<1>14. ASSUME NEW c \in Calls, CallStep(c) PROVE At({"expire"})' > 0
  BY <1>6, <1>7, <1>9, <1>10, <1>14 DEF CallStep
<1> QED
  BY <1>6, <1>8, <1>11, <1>12, <1>13, <1>14 DEF Next

\* Nobody stays locked out for good: a counter without a TTL is about to get one,
\* whatever mails and expiries come between INCR and EXPIRE, unless the request
\* that had to set it died.  (auth-redis.service.ts:119-131)
THEOREM LockoutAlwaysEnds == Spec => []LockoutEnds
<1>1. Init => LockoutEnds
  BY DEF Init, LockoutEnds
<1> QED BY <1>1, ResetInvariant, LockoutNext, PTL DEF Spec
=============================================================================
