---------------------------- MODULE Secrets_proofs ----------------------------
(***************************************************************************)
(* Proofs about Secrets, for any keys, users and bounds.                    *)
(***************************************************************************)
EXTENDS Secrets, FiniteSetTheorems, TLAPS

(***************************************************************************)
(* Type correctness, in parts that the steps disturb separately.           *)
(***************************************************************************)
UserPCs == {"idle", "find", "rotate", "create", "auditCreate", "auditRead", "decrypt"}
UserRecord == [pc : UserPCs, op : {"none", "set", "get"}, key : SecretKeys \cup {NoSecret},
               id : RowIds \cup {0}, row : Row, since : Nat]
AuditRecord == [create : Nat, read : Nat, rotate : Nat]

\* What a call knows at its await.
Knows(r) ==
  /\ r \in UserRecord
  /\ r.pc # "idle" => r.key \in SecretKeys
  /\ r.pc \in {"rotate", "auditCreate", "auditRead", "decrypt"} => r.id \in RowIds

RowsType == secrets \in [RowIds -> Row] /\ writes \in [SecretKeys -> Nat]
AuditType == audit \in [RowIds -> AuditRecord] /\ handedOut \in [RowIds -> Nat]
UserType == user \in [Users -> UserRecord] /\ \A u \in Users : Knows(user[u])
HistoryType == /\ staleRead \subseteq SecretKeys
               /\ budget \in [calls : Nat, refusals : Nat, crashes : Nat]
SecretsTypeInv == RowsType /\ AuditType /\ UserType /\ HistoryType

LEMMA SecretsTypeParts == SecretsTypeInv => SecretsTypeOK
BY DEF SecretsTypeInv, RowsType, AuditType, UserType, HistoryType, SecretsTypeOK, UserRecord, UserPCs,
       AuditRecord, Knows

LEMMA NoUseKnows == Knows(NoUse)
BY DEF Knows, NoUse, NoRow, UserRecord, UserPCs, Row

\* The call of one user changes.
LEMMA UserChanges ==
  ASSUME UserType, NEW u \in Users, NEW r, Knows(r), user' = [user EXCEPT ![u] = r]
  PROVE  UserType'
<1>1. r \in UserRecord
  BY DEF Knows
<1>2. user' \in [Users -> UserRecord]
  BY <1>1 DEF UserType
<1>3. ASSUME NEW v \in Users PROVE Knows(user'[v])
  <2>1. CASE v = u
    BY <2>1 DEF UserType
  <2>2. CASE v # u
    BY <2>2 DEF UserType
  <2> QED
    BY <2>1, <2>2
<1> QED
  BY <1>2, <1>3 DEF UserType, Knows

LEMMA UserStep ==
  ASSUME SecretsTypeInv, SecretsNext
  PROVE  UserType'
<1>0. UserType
  BY DEF SecretsTypeInv
<1>a. ASSUME NEW u \in Users PROVE user[u] \in UserRecord /\ Knows(user[u])
  BY <1>0 DEF UserType
<1>b. ASSUME NEW u \in Users, Answer(u) PROVE UserType'
  BY <1>0, <1>b, NoUseKnows, UserChanges DEF Answer
<1>c. ASSUME NEW u \in Users, NEW pc \in {"create", "decrypt"}, user[u].pc # "idle",
             pc = "decrypt" => user[u].id \in RowIds,
             user' = [user EXCEPT ![u].pc = pc]
      PROVE  UserType'
  <2>1. Knows([user[u] EXCEPT !.pc = pc])
    BY <1>a, <1>c DEF Knows, UserRecord, UserPCs
  <2>2. user' = [user EXCEPT ![u] = [user[u] EXCEPT !.pc = pc]]
    BY <1>c
  <2> QED
    BY <1>0, <2>1, <2>2, UserChanges
<1>1. ASSUME NEW u \in Users, NEW op \in {"set", "get"}, NEW k \in SecretKeys, Call(u, op, k)
      PROVE  UserType'
  <2>1. writes[k] \in Nat
    BY DEF SecretsTypeInv, RowsType
  <2>2. Knows([NoUse EXCEPT !.pc = "find", !.op = op, !.key = k, !.since = writes[k]])
    BY <2>1 DEF Knows, NoUse, NoRow, UserRecord, UserPCs, Row
  <2> QED
    BY <1>0, <1>1, <2>2, UserChanges DEF Call
<1>2. ASSUME NEW u \in Users, FindSecret(u) PROVE UserType'
  <2>1. user[u].pc = "find" /\ user[u].key \in SecretKeys
    BY <1>a, <1>2 DEF FindSecret, Knows
  <2>2. ASSUME NEW i \in RowIds, NEW pc \in {"rotate", "auditRead"},
               user' = [user EXCEPT ![u] =
                 [user[u] EXCEPT !.pc = pc, !.id = i, !.row = secrets[i]]]
        PROVE  UserType'
    <3>1. secrets[i] \in Row
      BY DEF SecretsTypeInv, RowsType
    <3>2. Knows([user[u] EXCEPT !.pc = pc, !.id = i, !.row = secrets[i]])
      BY <1>a, <2>1, <3>1 DEF Knows, UserRecord, UserPCs
    <3> QED
      BY <1>0, <2>2, <3>2, UserChanges
  <2>3. CASE user' = [user EXCEPT ![u].pc = "create"]
    BY <1>c, <2>1, <2>3
  <2>4. CASE user' = [user EXCEPT ![u] = NoUse]
    BY <1>b, <2>4 DEF Answer
  <2>5. CASE \E i \in RowsOf(user[u].key) :
               user' = [user EXCEPT ![u].pc = IF user[u].op = "set" THEN "rotate" ELSE "auditRead",
                                    ![u].id = i, ![u].row = secrets[i]]
    <3>1. PICK i \in RowIds :
            user' = [user EXCEPT ![u] = [user[u] EXCEPT
              !.pc = IF user[u].op = "set" THEN "rotate" ELSE "auditRead",
              !.id = i, !.row = secrets[i]]]
      BY <2>5 DEF RowsOf
    <3> DEFINE pc == IF user[u].op = "set" THEN "rotate" ELSE "auditRead"
    <3>2. pc \in {"rotate", "auditRead"}
      OBVIOUS
    <3> HIDE DEF pc
    <3> QED
      BY <2>2, <3>1, <3>2 DEF pc
  <2> QED
    BY <1>2, <2>3, <2>4, <2>5 DEF FindSecret
<1>3. ASSUME NEW u \in Users, Rotate(u) PROVE UserType'
  <2>1. user[u].pc = "rotate" /\ (Answer(u) \/ user' = [user EXCEPT ![u].pc = "create"])
    BY <1>3 DEF Rotate
  <2> QED
    BY <1>b, <1>c, <2>1
<1>4. ASSUME NEW u \in Users, InsertSecret(u) PROVE UserType'
  <2>1. user[u].pc = "create"
    BY <1>4 DEF InsertSecret
  <2>2. ASSUME NEW i \in RowIds, user' = [user EXCEPT ![u].pc = "auditCreate", ![u].id = i]
        PROVE  UserType'
    <3>1. Knows([user[u] EXCEPT !.pc = "auditCreate", !.id = i])
      BY <1>a, <2>1 DEF Knows, UserRecord, UserPCs
    <3>2. user' = [user EXCEPT ![u] = [user[u] EXCEPT !.pc = "auditCreate", !.id = i]]
      BY <2>2
    <3> QED
      BY <1>0, <3>1, <3>2, UserChanges
  <2> QED
    BY <1>4, <1>b, <2>2 DEF InsertSecret
<1>5. ASSUME NEW u \in Users, AuditCreate(u) \/ HandOut(u) PROVE UserType'
  BY <1>5, <1>b DEF AuditCreate, HandOut
<1>6. ASSUME NEW u \in Users, AuditRead(u) PROVE UserType'
  <2>1. user[u].pc = "auditRead" /\ (Answer(u) \/ user' = [user EXCEPT ![u].pc = "decrypt"])
    BY <1>6 DEF AuditRead
  <2>2. user[u].id \in RowIds
    BY <1>a, <2>1 DEF Knows
  <2> QED
    BY <1>b, <1>c, <2>1, <2>2
<1>7. CASE SecretsCrash
  BY <1>7, NoUseKnows DEF SecretsCrash, UserType, Knows
<1> QED
  BY <1>1, <1>2, <1>3, <1>4, <1>5, <1>6, <1>7 DEF SecretsNext

\* The row that a call changes, and what is written to it.
LEMMA FoundSecret ==
  ASSUME SecretsTypeInv, NEW u \in Users
  PROVE  /\ user[u].row.version \in Nat /\ user[u].row.write \in Nat /\ user[u].since \in Nat
         /\ user[u].pc # "idle" => user[u].key \in SecretKeys /\ writes[user[u].key] \in Nat
         /\ user[u].pc \in {"rotate", "auditCreate", "auditRead", "decrypt"} =>
              user[u].id \in RowIds
BY DEF SecretsTypeInv, RowsType, UserType, UserRecord, Row, Knows

\* Rows are rotated and inserted, and nothing else happens to them.
LEMMA RowSteps ==
  ASSUME SecretsTypeInv, SecretsNext
  PROVE  \/ UNCHANGED <<secrets, writes>>
         \/ \E u \in Users : Rotate(u) /\ user[u].id \in RowIds
                             /\ secrets' = [secrets EXCEPT ![user[u].id] =
                                  [secrets[user[u].id] EXCEPT !.version = user[u].row.version + 1,
                                                    !.write = writes[user[u].key] + 1]]
                             /\ writes' = [writes EXCEPT ![user[u].key] = @ + 1]
                             /\ audit' = [audit EXCEPT ![user[u].id].rotate = @ + 1]
                             /\ Answer(u)
         \/ \E u \in Users, i \in RowIds :
              /\ InsertSecret(u) /\ secrets[i] = NoRow /\ ~Taken(user[u].key)
              /\ secrets' = [secrets EXCEPT ![i] =
                   [key |-> user[u].key, version |-> 1, write |-> writes[user[u].key] + 1]]
              /\ writes' = [writes EXCEPT ![user[u].key] = @ + 1]
              /\ user' = [user EXCEPT ![u].pc = "auditCreate", ![u].id = i]
<1>1. ASSUME NEW u \in Users, Rotate(u) PROVE user[u].id \in RowIds
  BY <1>1, FoundSecret DEF Rotate
<1>2. ASSUME NEW u \in Users, InsertSecret(u), ~UNCHANGED <<secrets, writes>>
      PROVE  \E i \in RowIds :
              /\ secrets[i] = NoRow /\ ~Taken(user[u].key)
              /\ secrets' = [secrets EXCEPT ![i] =
                   [key |-> user[u].key, version |-> 1, write |-> writes[user[u].key] + 1]]
              /\ writes' = [writes EXCEPT ![user[u].key] = @ + 1]
              /\ user' = [user EXCEPT ![u].pc = "auditCreate", ![u].id = i]
  BY <1>2 DEF InsertSecret
<1>3. ASSUME NEW u \in Users, Rotate(u), ~UNCHANGED <<secrets, writes>>
      PROVE  /\ secrets' = [secrets EXCEPT ![user[u].id] =
                  [secrets[user[u].id] EXCEPT !.version = user[u].row.version + 1,
                                    !.write = writes[user[u].key] + 1]]
             /\ writes' = [writes EXCEPT ![user[u].key] = @ + 1]
             /\ audit' = [audit EXCEPT ![user[u].id].rotate = @ + 1]
             /\ Answer(u)
  BY <1>3 DEF Rotate
<1>4. ASSUME NEW u \in Users, FindSecret(u) PROVE UNCHANGED <<secrets, writes>>
  BY <1>4 DEF FindSecret
<1>5. ASSUME NEW u \in Users, \/ \E op \in {"set", "get"}, k \in SecretKeys : Call(u, op, k)
                              \/ AuditCreate(u) \/ AuditRead(u) \/ HandOut(u)
      PROVE  UNCHANGED <<secrets, writes>>
  BY <1>5 DEF Call, AuditCreate, AuditRead, HandOut
<1>6. CASE SecretsCrash
  BY <1>6 DEF SecretsCrash
<1>7. CASE \E u \in Users : Rotate(u)
  BY <1>1, <1>3, <1>7
<1>8. CASE \E u \in Users : InsertSecret(u)
  BY <1>2, <1>8
<1> QED
  BY <1>4, <1>5, <1>6, <1>7, <1>8 DEF SecretsNext

LEMMA RowStep ==
  ASSUME SecretsTypeInv, SecretsNext
  PROVE  RowsType'
<1>0. RowsType
  BY DEF SecretsTypeInv
<1>1. CASE UNCHANGED <<secrets, writes>>
  BY <1>0, <1>1 DEF RowsType
<1>2. ASSUME NEW i \in RowIds, NEW b \in Row, NEW k \in SecretKeys,
             secrets' = [secrets EXCEPT ![i] = b], writes' = [writes EXCEPT ![k] = @ + 1]
      PROVE  RowsType'
  BY <1>0, <1>2 DEF RowsType
<1>3. ASSUME NEW u \in Users, Rotate(u), user[u].id \in RowIds,
             secrets' = [secrets EXCEPT ![user[u].id] =
               [secrets[user[u].id] EXCEPT !.version = user[u].row.version + 1,
                                           !.write = writes[user[u].key] + 1]],
             writes' = [writes EXCEPT ![user[u].key] = @ + 1]
      PROVE  RowsType'
  <2>1. user[u].key \in SecretKeys /\ writes[user[u].key] \in Nat /\ user[u].row.version \in Nat
    BY <1>3, FoundSecret DEF Rotate
  <2>2. secrets[user[u].id] \in Row
    BY <1>0, <1>3 DEF RowsType
  <2>3. [secrets[user[u].id] EXCEPT !.version = user[u].row.version + 1,
                                    !.write = writes[user[u].key] + 1] \in Row
    <3>1. ASSUME NEW b \in Row, NEW n \in Nat, NEW m \in Nat
          PROVE  [b EXCEPT !.version = n, !.write = m] \in Row
      BY DEF Row
    <3>2. user[u].row.version + 1 \in Nat /\ writes[user[u].key] + 1 \in Nat
      BY <2>1
    <3> QED
      BY <2>2, <3>1, <3>2
  <2> QED
    BY <1>2, <1>3, <2>1, <2>3
<1>4. ASSUME NEW u \in Users, NEW i \in RowIds, InsertSecret(u),
             secrets' = [secrets EXCEPT ![i] =
               [key |-> user[u].key, version |-> 1, write |-> writes[user[u].key] + 1]],
             writes' = [writes EXCEPT ![user[u].key] = @ + 1]
      PROVE  RowsType'
  <2>1. user[u].key \in SecretKeys /\ writes[user[u].key] \in Nat
    BY <1>4, FoundSecret DEF InsertSecret
  <2>2. [key |-> user[u].key, version |-> 1, write |-> writes[user[u].key] + 1] \in Row
    BY <2>1 DEF Row
  <2> QED
    BY <1>2, <1>4, <2>1, <2>2
<1> QED
  BY <1>1, <1>3, <1>4, RowSteps

LEMMA AuditStep ==
  ASSUME SecretsTypeInv, SecretsNext
  PROVE  AuditType' /\ HistoryType'
<1>0. AuditType /\ HistoryType
  BY DEF SecretsTypeInv
<1>b. ASSUME DbAccepts \/ DbRefuses
      PROVE  budget' \in [calls : Nat, refusals : Nat, crashes : Nat]
  BY <1>0, <1>b DEF DbAccepts, DbRefuses, HistoryType
<1>1. ASSUME NEW u \in Users, \/ \E op \in {"set", "get"}, k \in SecretKeys : Call(u, op, k)
                              \/ FindSecret(u) \/ InsertSecret(u)
      PROVE  AuditType' /\ HistoryType'
  <2>1. UNCHANGED <<audit, handedOut, staleRead>>
    BY <1>1 DEF Call, FindSecret, InsertSecret
  <2>2. budget' \in [calls : Nat, refusals : Nat, crashes : Nat]
    <3>1. ASSUME NEW op, NEW k, Call(u, op, k) PROVE budget' \in [calls : Nat, refusals : Nat, crashes : Nat]
      BY <1>0, <3>1 DEF Call, HistoryType
    <3> QED
      BY <1>1, <1>b, <3>1 DEF FindSecret, InsertSecret
  <2> QED
    BY <1>0, <2>1, <2>2 DEF AuditType, HistoryType
<1>2. ASSUME NEW u \in Users, Rotate(u) \/ AuditCreate(u) \/ AuditRead(u)
      PROVE  AuditType' /\ HistoryType'
  <2>1. user[u].id \in RowIds
    BY <1>2, FoundSecret DEF Rotate, AuditCreate, AuditRead
  <2>2. audit[user[u].id] \in AuditRecord
    BY <1>0, <2>1 DEF AuditType
  <2>3. \/ UNCHANGED audit
        \/ audit' = [audit EXCEPT ![user[u].id] = [audit[user[u].id] EXCEPT !.rotate = @ + 1]]
        \/ audit' = [audit EXCEPT ![user[u].id] = [audit[user[u].id] EXCEPT !.create = @ + 1]]
        \/ audit' = [audit EXCEPT ![user[u].id] = [audit[user[u].id] EXCEPT !.read = @ + 1]]
    BY <1>2 DEF Rotate, AuditCreate, AuditRead
  <2>4. audit' \in [RowIds -> AuditRecord]
    BY <1>0, <2>1, <2>2, <2>3 DEF AuditType, AuditRecord
  <2>5. UNCHANGED <<handedOut, staleRead>> /\ (DbAccepts \/ DbRefuses)
    BY <1>2 DEF Rotate, AuditCreate, AuditRead
  <2> QED
    BY <1>0, <1>b, <2>4, <2>5 DEF AuditType, HistoryType
<1>3. ASSUME NEW u \in Users, HandOut(u) PROVE AuditType' /\ HistoryType'
  <2>1. user[u].id \in RowIds /\ user[u].key \in SecretKeys
    BY <1>3, FoundSecret DEF HandOut
  <2> QED
    BY <1>0, <1>3, <2>1 DEF HandOut, AuditType, HistoryType
<1>4. CASE SecretsCrash
  BY <1>0, <1>4 DEF SecretsCrash, AuditType, HistoryType
<1> QED
  BY <1>1, <1>2, <1>3, <1>4 DEF SecretsNext

LEMMA SecretsInitType == SecretsInit => SecretsTypeInv
BY NoUseKnows
   DEF SecretsInit, SecretsTypeInv, RowsType, AuditType, UserType, HistoryType, Row, NoRow, AuditRecord,
       Knows

LEMMA SecretsNextType == SecretsTypeInv /\ [SecretsNext]_secretsVars => SecretsTypeInv'
<1>1. CASE UNCHANGED secretsVars
  BY <1>1 DEF secretsVars, SecretsTypeInv, RowsType, AuditType, UserType, HistoryType
<1> QED
  BY <1>1, UserStep, RowStep, AuditStep DEF SecretsTypeInv

\* Type correctness: every variable keeps its type, and a call that has found a
\* row knows which.
THEOREM SecretsTypeCorrect == SecretsSpec => []SecretsTypeOK
<1>1. SecretsSpec => []SecretsTypeInv
  BY SecretsInitType, SecretsNextType, PTL DEF SecretsSpec
<1> QED
  BY <1>1, SecretsTypeParts, PTL

(***************************************************************************)
(* What the steps do to the call of their user.                            *)
(***************************************************************************)
UserStepOf(u) ==
  \/ \E op \in {"set", "get"}, k \in SecretKeys : Call(u, op, k)
  \/ FindSecret(u) \/ Rotate(u) \/ InsertSecret(u) \/ AuditCreate(u)
  \/ AuditRead(u) \/ HandOut(u)

LEMMA Others ==
  ASSUME SecretsTypeInv, NEW u \in Users, UserStepOf(u)
  PROVE  \A v \in Users \ {u} : user'[v] = user[v]
<1>0. user \in [Users -> UserRecord]
  BY DEF SecretsTypeInv, UserType
<1>1. ASSUME NEW r, user' = [user EXCEPT ![u] = r]
      PROVE  \A v \in Users \ {u} : user'[v] = user[v]
  BY <1>0, <1>1
<1>2. CASE \E op \in {"set", "get"}, k \in SecretKeys : Call(u, op, k)
  BY <1>1, <1>2 DEF Call
<1>3. CASE FindSecret(u)
  BY <1>1, <1>3 DEF FindSecret
<1>4. CASE Rotate(u) \/ InsertSecret(u) \/ AuditCreate(u) \/ AuditRead(u) \/ HandOut(u)
  BY <1>1, <1>4 DEF Rotate, InsertSecret, AuditCreate, AuditRead, HandOut, Answer
<1> QED
  BY <1>2, <1>3, <1>4 DEF UserStepOf

\* A call that is refused, or has found nothing, goes on with createSecret, or
\* gives up.
LEMMA FindSteps ==
  ASSUME SecretsTypeInv, NEW u \in Users, FindSecret(u)
  PROVE  /\ user[u].pc = "find" /\ UNCHANGED <<secrets, audit, writes, handedOut, staleRead>>
         /\ \/ /\ user'[u].pc \in {"rotate", "auditRead"}
               /\ user'[u].key = user[u].key /\ user'[u].since = user[u].since
               /\ \E i \in RowIds : /\ secrets[i].key = user[u].key
                                    /\ user'[u].id = i /\ user'[u].row = secrets[i]
            \/ /\ user'[u].pc = "create"
               /\ user'[u].key = user[u].key /\ user'[u].since = user[u].since
            \/ user'[u] = NoUse
<1>0. user \in [Users -> UserRecord] /\ user[u] \in UserRecord
  BY DEF SecretsTypeInv, UserType
<1>1. user[u].pc = "find" /\ UNCHANGED <<secrets, audit, writes, handedOut, staleRead>>
  BY DEF FindSecret
<1>2. CASE \E i \in RowsOf(user[u].key) :
             user' = [user EXCEPT ![u].pc = IF user[u].op = "set" THEN "rotate" ELSE "auditRead",
                                  ![u].id = i, ![u].row = secrets[i]]
  <2> DEFINE pc == IF user[u].op = "set" THEN "rotate" ELSE "auditRead"
  <2>1. PICK i \in RowsOf(user[u].key) :
          user' = [user EXCEPT ![u].pc = pc, ![u].id = i, ![u].row = secrets[i]]
    BY <1>2
  <2>2. i \in RowIds /\ secrets[i].key = user[u].key
    BY <2>1 DEF RowsOf
  <2>3. pc \in {"rotate", "auditRead"}
    OBVIOUS
  <2> HIDE DEF pc
  <2>4. /\ user'[u].pc = pc /\ user'[u].id = i /\ user'[u].row = secrets[i]
        /\ user'[u].key = user[u].key /\ user'[u].since = user[u].since
    BY <1>0, <2>1 DEF UserRecord
  <2> QED
    BY <1>1, <2>2, <2>3, <2>4
<1>3. CASE user' = [user EXCEPT ![u].pc = "create"]
  BY <1>0, <1>1, <1>3 DEF UserRecord
<1>4. CASE user' = [user EXCEPT ![u] = NoUse]
  BY <1>0, <1>1, <1>4
<1> QED
  BY <1>2, <1>3, <1>4 DEF FindSecret

LEMMA IdleUser == NoUse.pc = "idle"
BY DEF NoUse

LEMMA AnswerStep ==
  ASSUME SecretsTypeInv, NEW u \in Users, Answer(u)
  PROVE  user'[u].pc = "idle"
BY IdleUser DEF Answer, SecretsTypeInv, UserType

LEMMA ReadSteps ==
  ASSUME SecretsTypeInv, NEW u \in Users, AuditRead(u)
  PROVE  /\ user[u].pc = "auditRead" /\ user[u].id \in RowIds
         /\ UNCHANGED <<secrets, writes, handedOut, staleRead>>
         /\ \/ /\ audit' = [audit EXCEPT ![user[u].id].read = @ + 1]
               /\ user'[u].pc = "decrypt" /\ user'[u].id = user[u].id
               /\ user'[u].key = user[u].key /\ user'[u].row = user[u].row
               /\ user'[u].since = user[u].since
            \/ UNCHANGED audit /\ user'[u].pc = "idle"
<1>1. user[u] \in UserRecord
  BY DEF SecretsTypeInv, UserType
<1>2. user[u].pc = "auditRead" /\ user[u].id \in RowIds
  BY FoundSecret DEF AuditRead
<1>3. CASE user' = [user EXCEPT ![u].pc = "decrypt"]
  <2>1. /\ user'[u].pc = "decrypt" /\ user'[u].id = user[u].id
        /\ user'[u].key = user[u].key /\ user'[u].row = user[u].row
        /\ user'[u].since = user[u].since
    BY <1>1, <1>3 DEF UserRecord, SecretsTypeInv, UserType
  <2> QED
    BY <1>2, <1>3, <2>1, AnswerStep, IdleUser DEF AuditRead
<1>4. CASE Answer(u) /\ UNCHANGED audit
  BY <1>2, <1>4, AnswerStep DEF AuditRead
<1> QED
  BY <1>3, <1>4 DEF AuditRead

(***************************************************************************)
(* Versions.                                                               *)
(***************************************************************************)
VersionInv ==
  /\ \A i \in RowIds :
       /\ secrets[i] = NoRow <=> secrets[i].key = NoSecret
       /\ secrets[i].key = NoSecret => audit[i].rotate = 0
       /\ secrets[i].key # NoSecret =>
            /\ secrets[i].version \in 1..(audit[i].rotate + 1)
            /\ secrets[i].version > 1 <=> audit[i].rotate > 0
  /\ \A u \in Users : user[u].pc = "rotate" =>
       /\ secrets[user[u].id].key # NoSecret
       /\ user[u].row.version \in 1..(audit[user[u].id].rotate + 1)

LEMMA VersionParts == SecretsTypeInv /\ VersionInv => VersionsAreAudited
BY DEF VersionInv, VersionsAreAudited, SecretsTypeInv, RowsType, AuditType, AuditRecord, Row

LEMMA InitVersion == SecretsInit => VersionInv
BY IdleUser DEF SecretsInit, VersionInv, NoRow

\* No rotation is added: rows and audits of rotations stay.
LEMMA SameVersions ==
  ASSUME SecretsTypeInv, VersionInv, UNCHANGED secrets,
         \A i \in RowIds : audit'[i].rotate = audit[i].rotate,
         \A u \in Users : user'[u].pc = "rotate" =>
           \/ user'[u] = user[u]
           \/ \E i \in RowIds : /\ user'[u].id = i /\ user'[u].row = secrets[i]
                               /\ secrets[i].key # NoSecret
  PROVE  VersionInv'
<1>1. \A u \in Users : user[u].pc = "rotate" => user[u].id \in RowIds
  BY FoundSecret
<1>2. ASSUME NEW u \in Users, user'[u].pc = "rotate"
      PROVE  /\ secrets'[user'[u].id].key # NoSecret
             /\ user'[u].row.version \in 1..(audit'[user'[u].id].rotate + 1)
  <2>1. CASE user'[u] = user[u]
    BY <1>1, <1>2, <2>1 DEF VersionInv
  <2>2. CASE \E i \in RowIds : /\ user'[u].id = i /\ user'[u].row = secrets[i]
                               /\ secrets[i].key # NoSecret
    BY <1>2, <2>2 DEF VersionInv
  <2> QED
    BY <1>2, <2>1, <2>2
<1> QED
  BY <1>2 DEF VersionInv

LEMMA NextVersion == SecretsTypeInv /\ VersionInv /\ [SecretsNext]_secretsVars => VersionInv'
<1> SUFFICES ASSUME SecretsTypeInv, VersionInv, [SecretsNext]_secretsVars PROVE VersionInv'
  OBVIOUS
<1>1. CASE UNCHANGED secretsVars
  BY <1>1 DEF secretsVars, VersionInv
<1>2. ASSUME NEW u \in Users, UNCHANGED <<secrets, audit>>, user'[u].pc # "rotate", UserStepOf(u)
      PROVE  VersionInv'
  BY <1>2, Others, SameVersions
<1>3. ASSUME NEW u \in Users, NEW op \in {"set", "get"}, NEW k \in SecretKeys, Call(u, op, k)
      PROVE  VersionInv'
  <2>1. user'[u].pc = "find"
    BY <1>3 DEF Call, SecretsTypeInv, UserType, NoUse
  <2> QED
    BY <1>2, <1>3, <2>1 DEF Call, UserStepOf
<1>4. ASSUME NEW u \in Users, FindSecret(u) PROVE VersionInv'
  <2>1. user[u].key # NoSecret
    BY <1>4, FindSteps, FoundSecret, SecretsAssumption
  <2> QED
    BY <1>4, <2>1, FindSteps, IdleUser, Others, SameVersions DEF UserStepOf
<1>5. ASSUME NEW u \in Users, Rotate(u), ~UNCHANGED <<secrets, writes>> PROVE VersionInv'
  <2> DEFINE i == user[u].id
             n == user[u].row.version
  <2>1. /\ user[u].pc = "rotate" /\ i \in RowIds /\ n \in 1..(audit[i].rotate + 1)
        /\ secrets[i].key # NoSecret
    BY <1>5, FoundSecret DEF Rotate, VersionInv
  <2>2. \E m : secrets' = [secrets EXCEPT ![i] = [secrets[i] EXCEPT !.version = n + 1, !.write = m]]
    BY <1>5 DEF Rotate
  <2>3. /\ secrets'[i].version = n + 1 /\ secrets'[i].key = secrets[i].key
        /\ \A j \in RowIds \ {i} : secrets'[j] = secrets[j]
    BY <2>1, <2>2 DEF SecretsTypeInv, RowsType, Row
  <2>4. /\ audit'[i].rotate = audit[i].rotate + 1 /\ audit[i].rotate \in Nat
        /\ \A j \in RowIds \ {i} : audit'[j] = audit[j]
    BY <1>5, <2>1 DEF Rotate, SecretsTypeInv, AuditType, AuditRecord
  <2>5. user'[u].pc = "idle"
    BY <1>5, AnswerStep DEF Rotate
  <2>6. ASSUME NEW v \in Users, user'[v].pc = "rotate"
        PROVE  /\ secrets'[user'[v].id].key # NoSecret
               /\ user'[v].row.version \in 1..(audit'[user'[v].id].rotate + 1)
    <3>1. user'[v] = user[v] /\ user[v].id \in RowIds /\ user[v].pc = "rotate"
      BY <1>5, <2>5, <2>6, FoundSecret, Others DEF UserStepOf
    <3>2. /\ secrets[user[v].id].key # NoSecret /\ user[v].row.version \in Nat
          /\ user[v].row.version \in 1..(audit[user[v].id].rotate + 1)
      BY <3>1, FoundSecret DEF VersionInv
    <3> QED
      BY <2>1, <2>3, <2>4, <3>1, <3>2
  <2>7. ASSUME NEW j \in RowIds
        PROVE  /\ secrets'[j] = NoRow <=> secrets'[j].key = NoSecret
               /\ secrets'[j].key = NoSecret => audit'[j].rotate = 0
               /\ secrets'[j].key # NoSecret =>
                    /\ secrets'[j].version \in 1..(audit'[j].rotate + 1)
                    /\ secrets'[j].version > 1 <=> audit'[j].rotate > 0
    <3>1. CASE j = i
      <4>1. secrets'[i] # NoRow
        BY <2>1, <2>3 DEF NoRow
      <4> QED
        BY <2>1, <2>3, <2>4, <3>1, <4>1
    <3>2. CASE j # i
      BY <2>3, <2>4, <3>2 DEF VersionInv
    <3> QED
      BY <3>1, <3>2
  <2> QED
    BY <2>6, <2>7 DEF VersionInv
<1>6. ASSUME NEW u \in Users, Rotate(u), UNCHANGED <<secrets, writes>> PROVE VersionInv'
  <2>1. CASE UNCHANGED audit /\ user' = [user EXCEPT ![u].pc = "create"]
    <3>1. user'[u].pc = "create"
      BY <2>1 DEF SecretsTypeInv, UserType, UserRecord
    <3> QED
      BY <1>2, <1>6, <2>1, <3>1 DEF UserStepOf
  <2>2. CASE writes' = [writes EXCEPT ![user[u].key] = @ + 1]
    <3>1. user[u].key \in SecretKeys /\ writes[user[u].key] \in Nat
      BY <1>6, FoundSecret DEF Rotate
    <3> QED
      BY <1>6, <2>2, <3>1 DEF SecretsTypeInv, RowsType
  <2> QED
    BY <1>6, <2>1, <2>2 DEF Rotate
<1>7. ASSUME NEW u \in Users, InsertSecret(u) PROVE VersionInv'
  <2>1. user[u].pc = "create" /\ UNCHANGED audit /\ user[u].key # NoSecret
    BY <1>7, FoundSecret, SecretsAssumption DEF InsertSecret
  <2>2. CASE Answer(u) /\ UNCHANGED secrets
    BY <1>2, <1>7, <2>1, <2>2, AnswerStep DEF UserStepOf
  <2>3. ASSUME NEW i \in RowIds, secrets[i] = NoRow, NEW m,
               secrets' = [secrets EXCEPT ![i] = [key |-> user[u].key, version |-> 1, write |-> m]],
               user' = [user EXCEPT ![u].pc = "auditCreate", ![u].id = i]
        PROVE  VersionInv'
    <3>1. /\ secrets'[i] = [key |-> user[u].key, version |-> 1, write |-> m]
          /\ \A j \in RowIds \ {i} : secrets'[j] = secrets[j]
      BY <2>3 DEF SecretsTypeInv, RowsType
    <3>2. user'[u].pc = "auditCreate" /\ \A v \in Users \ {u} : user'[v] = user[v]
      BY <2>3 DEF SecretsTypeInv, UserType, UserRecord
    <3>3. secrets[i].key = NoSecret /\ audit[i].rotate = 0
      BY <2>3 DEF VersionInv
    <3>4. secrets'[i] # NoRow
      BY <2>1, <3>1 DEF NoRow
    <3>5. ASSUME NEW v \in Users, user'[v].pc = "rotate"
          PROVE  /\ secrets'[user'[v].id].key # NoSecret
                 /\ user'[v].row.version \in 1..(audit'[user'[v].id].rotate + 1)
      <4>1. v # u /\ user'[v] = user[v]
        BY <3>2, <3>5
      <4>2. user[v].id \in RowIds \ {i}
        BY <3>3, <3>5, <4>1, FoundSecret DEF VersionInv
      <4> QED
        BY <2>1, <3>1, <3>5, <4>1, <4>2 DEF VersionInv
    <3>6. ASSUME NEW j \in RowIds
          PROVE  /\ secrets'[j] = NoRow <=> secrets'[j].key = NoSecret
                 /\ secrets'[j].key = NoSecret => audit'[j].rotate = 0
                 /\ secrets'[j].key # NoSecret =>
                      /\ secrets'[j].version \in 1..(audit'[j].rotate + 1)
                      /\ secrets'[j].version > 1 <=> audit'[j].rotate > 0
      BY <2>1, <3>1, <3>3, <3>4 DEF VersionInv
    <3> QED
      BY <3>5, <3>6 DEF VersionInv
  <2> QED
    BY <1>7, <2>2, <2>3 DEF InsertSecret
<1>8. ASSUME NEW u \in Users, AuditCreate(u) \/ HandOut(u) PROVE VersionInv'
  <2>1. /\ UNCHANGED secrets /\ Answer(u) /\ user[u].id \in RowIds
        /\ audit' = audit \/ audit' = [audit EXCEPT ![user[u].id].create = @ + 1]
    BY <1>8, FoundSecret DEF AuditCreate, HandOut
  <2>2. \A i \in RowIds : audit'[i].rotate = audit[i].rotate
    <3>1. \A i \in RowIds : audit[i] \in AuditRecord
      BY DEF SecretsTypeInv, AuditType
    <3>2. audit[user[u].id].create + 1 \in Nat
      BY <2>1, <3>1 DEF AuditRecord
    <3> QED
      BY <2>1, <3>1, <3>2 DEF SecretsTypeInv, AuditType, AuditRecord
  <2> QED
    BY <1>8, <2>1, <2>2, AnswerStep, Others, SameVersions DEF UserStepOf
<1>9. ASSUME NEW u \in Users, AuditRead(u) PROVE VersionInv'
  <2>1. \A i \in RowIds : audit'[i].rotate = audit[i].rotate
    <3>1. \A i \in RowIds : audit[i] \in AuditRecord
      BY DEF SecretsTypeInv, AuditType
    <3>2. /\ user[u].id \in RowIds
          /\ audit' = audit \/ audit' = [audit EXCEPT ![user[u].id].read = @ + 1]
      BY <1>9, ReadSteps
    <3>3. audit[user[u].id].read + 1 \in Nat
      BY <3>1, <3>2 DEF AuditRecord
    <3> QED
      BY <3>1, <3>2, <3>3 DEF SecretsTypeInv, AuditType, AuditRecord
  <2> QED
    BY <1>9, <2>1, Others, ReadSteps, SameVersions DEF UserStepOf
<1>10. CASE SecretsCrash
  BY <1>10, IdleUser, SameVersions DEF SecretsCrash
<1> QED
  BY <1>1, <1>3, <1>4, <1>5, <1>6, <1>7, <1>8, <1>9, <1>10 DEF SecretsNext

\* keyVersion tells whether a secret was rotated and never more often than the
\* audit says, whichever rotations overlap, fail or die.
THEOREM VersionsAudited == SecretsSpec => []VersionsAreAudited
<1>1. SecretsSpec => [](SecretsTypeInv /\ VersionInv)
  BY SecretsInitType, SecretsNextType, InitVersion, NextVersion, PTL DEF SecretsSpec
<1> QED
  BY <1>1, VersionParts, PTL

(***************************************************************************)
(* Fresh reads.                                                            *)
(***************************************************************************)
FreshInv ==
  /\ \A k \in Scoped, i \in RowIds : secrets[i].key = k =>
       /\ secrets[i].write = writes[k]
       /\ \A j \in RowIds : secrets[j].key = k => i = j
  /\ \A u \in Users : user[u].pc # "idle" => user[u].since <= writes[user[u].key]
  /\ \A u \in Users : user[u].pc = "rotate" => secrets[user[u].id].key = user[u].key
  /\ \A u \in Users : user[u].pc \in {"auditRead", "decrypt"} /\ user[u].key \in Scoped =>
       user[u].since <= user[u].row.write
  /\ ReadIsFresh

\* What a call must know for it.
CallIsFresh(r) ==
  /\ r.pc # "idle" => r.since <= writes[r.key]
  /\ r.pc = "rotate" => secrets[r.id].key = r.key
  /\ r.pc \in {"auditRead", "decrypt"} /\ r.key \in Scoped => r.since <= r.row.write

LEMMA FreshParts ==
  FreshInv <=> /\ \A k \in Scoped, i \in RowIds : secrets[i].key = k =>
                    /\ secrets[i].write = writes[k]
                    /\ \A j \in RowIds : secrets[j].key = k => i = j
               /\ \A u \in Users : CallIsFresh(user[u])
               /\ ReadIsFresh
BY DEF FreshInv, CallIsFresh

LEMMA InitFresh == SecretsInit => FreshInv
BY IdleUser, SecretsAssumption DEF SecretsInit, FreshInv, ReadIsFresh, NoRow

\* The call of one user changes, and no secret.
LEMMA SameSecrets ==
  ASSUME SecretsTypeInv, FreshInv, NEW u \in Users, UserStepOf(u),
         UNCHANGED <<secrets, writes, staleRead>>, CallIsFresh(user[u])'
  PROVE  FreshInv'
<1>1. ASSUME NEW v \in Users PROVE CallIsFresh(user[v])'
  <2>1. CASE v = u
    BY <2>1
  <2>2. CASE v # u
    <3>1. user'[v] = user[v] /\ CallIsFresh(user[v])
      BY <2>2, FreshParts, Others
    <3> QED
      BY <3>1 DEF CallIsFresh
  <2> QED
    BY <2>1, <2>2
<1> QED
  BY <1>1 DEF FreshInv, CallIsFresh, ReadIsFresh

LEMMA IdleIsFresh ==
  ASSUME SecretsTypeInv, FreshInv, NEW u \in Users, UserStepOf(u),
         UNCHANGED <<secrets, writes, staleRead>>, user'[u].pc = "idle"
  PROVE  FreshInv'
BY SameSecrets DEF CallIsFresh

\* The call of u writes key k to row i; no other row has that key if it is scoped.
WritesRow(u, k, i) ==
  /\ UNCHANGED staleRead
  /\ writes' = [writes EXCEPT ![k] = @ + 1]
  /\ secrets'[i].key = k /\ secrets'[i].write = writes[k] + 1
  /\ \A j \in RowIds \ {i} : secrets'[j] = secrets[j]
  /\ k \in Scoped => \A j \in RowIds : secrets[j].key = k => j = i
  /\ \A j \in RowIds : secrets[j].key \in SecretKeys => secrets'[j].key = secrets[j].key
  /\ user'[u].pc \in {"idle", "auditCreate"}
  /\ user'[u].pc # "idle" => user'[u].key = k /\ user'[u].since <= writes[k]

LEMMA WriteIsFresh ==
  ASSUME SecretsTypeInv, FreshInv, NEW u \in Users, UserStepOf(u), NEW k \in SecretKeys,
         NEW i \in RowIds, WritesRow(u, k, i)
  PROVE  FreshInv'
<1> USE DEF WritesRow
<1>1. /\ writes'[k] = writes[k] + 1 /\ writes[k] \in Nat
      /\ \A l \in SecretKeys \ {k} : writes'[l] = writes[l]
  BY DEF SecretsTypeInv, RowsType
<1>2. ASSUME NEW v \in Users PROVE CallIsFresh(user[v])'
  <2>1. CASE v = u
    <3>1. CASE user'[u].pc = "idle"
      BY <2>1, <3>1 DEF CallIsFresh
    <3>2. CASE user'[u].pc = "auditCreate"
      <4>1. user'[u].since \in Nat
        BY SecretsNextType DEF SecretsTypeInv, UserType, UserRecord, UserStepOf, SecretsNext
      <4>2. user'[u].since <= writes'[user'[u].key]
        BY <1>1, <3>2, <4>1
      <4> QED
        BY <2>1, <3>2, <4>2 DEF CallIsFresh
    <3> QED
      BY <3>1, <3>2
  <2>2. CASE v # u
    <3>1. user'[v] = user[v] /\ CallIsFresh(user[v])
      BY <2>2, FreshParts, Others
    <3>2. user[v].pc # "idle" => /\ user[v].key \in SecretKeys /\ user[v].since \in Nat
                                 /\ writes[user[v].key] \in Nat
      BY FoundSecret
    <3>3. user[v].pc = "rotate" => user[v].id \in RowIds
      BY FoundSecret
    <3>4. user[v].pc # "idle" => user[v].since <= writes'[user[v].key]
      BY <1>1, <3>1, <3>2 DEF CallIsFresh
    <3>5. user[v].pc = "rotate" => secrets'[user[v].id].key = user[v].key
      BY <3>1, <3>2, <3>3 DEF CallIsFresh
    <3> QED
      BY <3>1, <3>4, <3>5 DEF CallIsFresh
  <2> QED
    BY <2>1, <2>2
<1>3. ASSUME NEW l \in Scoped, NEW j \in RowIds, secrets'[j].key = l
      PROVE  /\ secrets'[j].write = writes'[l]
             /\ \A n \in RowIds : secrets'[n].key = l => j = n
  <2>1. l \in SecretKeys
    BY SecretsAssumption
  <2>2. CASE l = k
    BY <1>1, <1>3, <2>2
  <2>3. CASE l # k
    <3>1. j # i /\ \A n \in RowIds : secrets'[n].key = l => n # i
      BY <1>3, <2>3
    <3> QED
      BY <1>1, <1>3, <2>1, <2>3, <3>1 DEF FreshInv
  <2> QED
    BY <2>2, <2>3
<1> QED
  BY <1>2, <1>3 DEF FreshInv, CallIsFresh, ReadIsFresh

LEMMA NextFresh == SecretsTypeInv /\ FreshInv /\ [SecretsNext]_secretsVars => FreshInv'
<1> SUFFICES ASSUME SecretsTypeInv, FreshInv, [SecretsNext]_secretsVars PROVE FreshInv'
  OBVIOUS
<1>1. CASE UNCHANGED secretsVars
  BY <1>1 DEF secretsVars, FreshInv, ReadIsFresh
<1>2. ASSUME NEW u \in Users, NEW op \in {"set", "get"}, NEW k \in SecretKeys, Call(u, op, k)
      PROVE  FreshInv'
  <2>1. /\ user'[u].pc = "find" /\ user'[u].key = k /\ user'[u].since = writes[k]
        /\ UNCHANGED <<secrets, writes, staleRead>>
    BY <1>2 DEF Call, NoUse, SecretsTypeInv, UserType
  <2>2. CallIsFresh(user[u])'
    <3>1. writes[k] \in Nat /\ writes' = writes
      BY <2>1 DEF SecretsTypeInv, RowsType
    <3>2. user'[u].since <= writes'[user'[u].key]
      BY <2>1, <3>1
    <3> QED
      BY <2>1, <3>2 DEF CallIsFresh
  <2> QED
    BY <1>2, <2>1, <2>2, SameSecrets DEF UserStepOf
<1>3. ASSUME NEW u \in Users, FindSecret(u) PROVE FreshInv'
  <2>1. /\ user[u].pc = "find" /\ UNCHANGED <<secrets, writes, staleRead>>
        /\ user[u].since <= writes[user[u].key]
    BY <1>3, FindSteps DEF FreshInv
  <2>2. CASE user'[u] = NoUse
    BY <1>3, <2>1, <2>2, IdleUser, IdleIsFresh DEF UserStepOf
  <2>3. CASE user'[u].pc = "create" /\ user'[u].key = user[u].key /\ user'[u].since = user[u].since
    <3>1. CallIsFresh(user[u])'
      BY <2>1, <2>3 DEF CallIsFresh
    <3> QED
      BY <1>3, <2>1, <3>1, SameSecrets DEF UserStepOf
  <2>4. ASSUME NEW i \in RowIds, user'[u].pc \in {"rotate", "auditRead"},
               user'[u].key = user[u].key, user'[u].since = user[u].since,
               secrets[i].key = user[u].key, user'[u].id = i, user'[u].row = secrets[i]
        PROVE  FreshInv'
    <3>1. user[u].key \in Scoped => user[u].since <= secrets[i].write
      BY <2>1, <2>4 DEF FreshInv
    <3>2. CallIsFresh(user[u])'
      BY <2>1, <2>4, <3>1 DEF CallIsFresh
    <3> QED
      BY <1>3, <2>1, <3>2, SameSecrets DEF UserStepOf
  <2> QED
    BY <1>3, <2>2, <2>3, <2>4, FindSteps
<1>4. ASSUME NEW u \in Users, Rotate(u) PROVE FreshInv'
  <2>0. PICK i \in RowIds, k \in SecretKeys : i = user[u].id /\ k = user[u].key
    BY <1>4, FoundSecret DEF Rotate
  <2>1. user[u].pc = "rotate" /\ UNCHANGED staleRead /\ secrets[i].key = k
    BY <1>4, <2>0 DEF Rotate, FreshInv
  <2>2. ASSUME NEW n, Answer(u), writes' = [writes EXCEPT ![k] = @ + 1],
               secrets' = [secrets EXCEPT ![i] =
                 [secrets[i] EXCEPT !.version = n, !.write = writes[k] + 1]]
        PROVE  FreshInv'
    <3>1. /\ secrets'[i].key = k /\ secrets'[i].write = writes[k] + 1
          /\ \A j \in RowIds \ {i} : secrets'[j] = secrets[j]
      BY <2>1, <2>2 DEF SecretsTypeInv, RowsType, Row
    <3>2. user'[u].pc = "idle"
      BY <2>2, AnswerStep
    <3>3. k \in Scoped => \A j \in RowIds : secrets[j].key = k => j = i
      BY <2>1 DEF FreshInv
    <3>4. \A j \in RowIds : secrets'[j].key = secrets[j].key
      BY <2>1, <3>1
    <3>5. WritesRow(u, k, i)
      BY <2>1, <2>2, <3>1, <3>2, <3>3, <3>4 DEF WritesRow
    <3> QED
      BY <1>4, <3>5, WriteIsFresh DEF UserStepOf
  <2>3. CASE user' = [user EXCEPT ![u].pc = "create"] /\ UNCHANGED <<secrets, writes>>
    <3>1. /\ user'[u].pc = "create" /\ user'[u].key = k /\ user'[u].since = user[u].since
      BY <2>0, <2>3 DEF SecretsTypeInv, UserType, UserRecord
    <3>2. CallIsFresh(user[u])'
      BY <2>0, <2>1, <2>3, <3>1 DEF CallIsFresh, FreshInv
    <3> QED
      BY <1>4, <2>1, <2>3, <3>2, SameSecrets DEF UserStepOf
  <2> QED
    BY <1>4, <2>0, <2>2, <2>3 DEF Rotate
<1>5. ASSUME NEW u \in Users, InsertSecret(u) PROVE FreshInv'
  <2> DEFINE k == user[u].key
  <2>1. user[u].pc = "create" /\ UNCHANGED staleRead /\ k \in SecretKeys
    BY <1>5, FoundSecret DEF InsertSecret
  <2>2. CASE Answer(u) /\ UNCHANGED <<secrets, writes>>
    BY <1>5, <2>1, <2>2, AnswerStep, IdleIsFresh DEF UserStepOf
  <2>3. ASSUME NEW i \in RowIds, secrets[i] = NoRow, ~Taken(k),
               secrets' = [secrets EXCEPT ![i] =
                 [key |-> k, version |-> 1, write |-> writes[k] + 1]],
               writes' = [writes EXCEPT ![k] = @ + 1],
               user' = [user EXCEPT ![u].pc = "auditCreate", ![u].id = i]
        PROVE  FreshInv'
    <3>1. /\ secrets'[i].key = k /\ secrets'[i].write = writes[k] + 1
          /\ \A j \in RowIds \ {i} : secrets'[j] = secrets[j]
      BY <2>3 DEF SecretsTypeInv, RowsType
    <3>2. /\ user'[u].pc = "auditCreate" /\ user'[u].key = k /\ user'[u].since = user[u].since
      BY <2>3 DEF SecretsTypeInv, UserType, UserRecord
    <3>3. user[u].since <= writes[k]
      BY <2>1 DEF FreshInv
    <3>4. secrets[i].key = NoSecret
      BY <2>3 DEF NoRow
    <3>5. k \in Scoped => \A j \in RowIds : secrets[j].key = k => j = i
      BY <2>3 DEF Taken, RowsOf
    <3>6. \A j \in RowIds : secrets[j].key \in SecretKeys => secrets'[j].key = secrets[j].key
      BY <3>1, <3>4, SecretsAssumption
    <3>7. WritesRow(u, k, i)
      BY <2>1, <2>3, <3>1, <3>2, <3>3, <3>5, <3>6 DEF WritesRow
    <3> QED
      BY <1>5, <2>1, <3>7, WriteIsFresh DEF UserStepOf
  <2> QED
    BY <1>5, <2>2, <2>3 DEF InsertSecret
<1>6. ASSUME NEW u \in Users, AuditCreate(u) PROVE FreshInv'
  BY <1>6, AnswerStep, IdleIsFresh DEF AuditCreate, UserStepOf
<1>7. ASSUME NEW u \in Users, AuditRead(u) PROVE FreshInv'
  <2>1. CASE user'[u].pc = "idle"
    BY <1>7, <2>1, ReadSteps, IdleIsFresh DEF UserStepOf
  <2>2. CASE /\ user'[u].pc = "decrypt" /\ user'[u].key = user[u].key
             /\ user'[u].row = user[u].row /\ user'[u].since = user[u].since
    <3>1. user[u].pc = "auditRead" /\ UNCHANGED <<secrets, writes, staleRead>>
      BY <1>7, ReadSteps
    <3>2. CallIsFresh(user[u])'
      BY <2>2, <3>1 DEF CallIsFresh, FreshInv
    <3> QED
      BY <1>7, <3>1, <3>2, SameSecrets DEF UserStepOf
  <2> QED
    BY <1>7, <2>1, <2>2, ReadSteps
<1>8. ASSUME NEW u \in Users, HandOut(u) PROVE FreshInv'
  <2>1. /\ user[u].pc = "decrypt" /\ user'[u].pc = "idle" /\ UNCHANGED <<secrets, writes>>
    BY <1>8, AnswerStep DEF HandOut
  <2>2. user[u].key \in Scoped => ~(user[u].row.write < user[u].since)
    BY <2>1, FoundSecret DEF FreshInv
  <2>3. ReadIsFresh'
    BY <1>8, <2>2 DEF HandOut, ReadIsFresh, FreshInv
  <2>4. ASSUME NEW v \in Users PROVE CallIsFresh(user[v])'
    <3>1. CASE v = u
      BY <2>1, <3>1 DEF CallIsFresh
    <3>2. CASE v # u
      <4>1. user'[v] = user[v] /\ CallIsFresh(user[v])
        BY <1>8, <3>2, FreshParts, Others DEF UserStepOf
      <4> QED
        BY <2>1, <4>1 DEF CallIsFresh
    <3> QED
      BY <3>1, <3>2
  <2> QED
    BY <2>1, <2>3, <2>4 DEF FreshInv, CallIsFresh
<1>9. CASE SecretsCrash
  BY <1>9, IdleUser DEF SecretsCrash, FreshInv, ReadIsFresh
<1> QED
  BY <1>1, <1>2, <1>3, <1>4, <1>5, <1>6, <1>7, <1>8, <1>9 DEF SecretsNext

\* A value of a project's secret that was replaced before a read began is not
\* what the read returns.
THEOREM ReadsAreFresh == SecretsSpec => []ReadIsFresh
<1>1. SecretsSpec => [](SecretsTypeInv /\ FreshInv)
  BY SecretsInitType, SecretsNextType, InitFresh, NextFresh, PTL DEF SecretsSpec
<1> QED
  BY <1>1, PTL DEF FreshInv

(***************************************************************************)
(* Audited accesses.                                                       *)
(***************************************************************************)

\* Reads that have their audit row and not yet their value.
Pending(i) == {u \in Users : user[u].pc = "decrypt" /\ user[u].id = i}
AccessInv == \A i \in RowIds : handedOut[i] + Cardinality(Pending(i)) <= audit[i].read

LEMMA PendingFinite ==
  ASSUME NEW i
  PROVE  IsFiniteSet(Pending(i)) /\ Cardinality(Pending(i)) \in Nat
BY SecretsAssumption, FS_Subset, FS_CardinalityType DEF Pending

LEMMA AccessParts == SecretsTypeInv /\ AccessInv => AccessIsAudited
BY PendingFinite DEF AccessInv, AccessIsAudited, SecretsTypeInv, AuditType, AuditRecord

LEMMA InitAccess == SecretsInit => AccessInv
<1> SUFFICES ASSUME SecretsInit, NEW i \in RowIds
             PROVE  handedOut[i] + Cardinality(Pending(i)) <= audit[i].read
  BY DEF AccessInv
<1>1. Pending(i) = {}
  BY IdleUser DEF SecretsInit, Pending
<1> QED
  BY <1>1, FS_EmptySet DEF SecretsInit

\* Fewer pending reads, and no access: the others stay.
LEMMA FewerPending ==
  ASSUME SecretsTypeInv, AccessInv, SecretsTypeInv', UNCHANGED handedOut,
         \A i \in RowIds : audit[i].read <= audit'[i].read /\ Pending(i)' \subseteq Pending(i)
  PROVE  AccessInv'
<1> SUFFICES ASSUME NEW i \in RowIds
             PROVE  (handedOut[i] + Cardinality(Pending(i)) <= audit[i].read)'
  BY DEF AccessInv
<1>1. Cardinality(Pending(i)') <= Cardinality(Pending(i)) /\ Cardinality(Pending(i)') \in Nat
  BY PendingFinite, FS_Subset, FS_CardinalityType
<1>2. /\ handedOut[i] \in Nat /\ audit[i].read \in Nat /\ audit'[i].read \in Nat
      /\ handedOut'[i] = handedOut[i]
  BY DEF SecretsTypeInv, AuditType, AuditRecord
<1>3. handedOut[i] + Cardinality(Pending(i)) <= audit[i].read /\ audit[i].read <= audit'[i].read
  BY DEF AccessInv
<1> QED
  BY <1>1, <1>2, <1>3, PendingFinite

LEMMA NextAccess ==
  SecretsTypeInv /\ AccessInv /\ [SecretsNext]_secretsVars => AccessInv'
<1> SUFFICES ASSUME SecretsTypeInv, AccessInv, [SecretsNext]_secretsVars PROVE AccessInv'
  OBVIOUS
<1>0. SecretsTypeInv'
  BY SecretsNextType
<1>a. ASSUME NEW i \in RowIds PROVE audit[i].read \in Nat /\ handedOut[i] \in Nat
  BY DEF SecretsTypeInv, AuditType, AuditRecord
<1>1. CASE UNCHANGED secretsVars
  <2>1. \A i \in RowIds : Pending(i)' = Pending(i) /\ audit'[i] = audit[i]
    BY <1>1 DEF secretsVars, Pending
  <2> QED
    BY <1>0, <1>1, <1>a, <2>1, FewerPending DEF secretsVars
\* A step of u after which it is not at decrypt.
<1>2. ASSUME NEW u \in Users, UserStepOf(u), user'[u].pc # "decrypt", UNCHANGED handedOut,
             \A i \in RowIds : audit'[i].read = audit[i].read
      PROVE  AccessInv'
  <2>1. \A i \in RowIds : Pending(i)' \subseteq Pending(i)
    BY <1>2, Others DEF Pending
  <2> QED
    BY <1>0, <1>2, <1>a, <2>1, FewerPending
<1>3. ASSUME NEW u \in Users, NEW op \in {"set", "get"}, NEW k \in SecretKeys, Call(u, op, k)
      PROVE  AccessInv'
  <2>1. user'[u].pc = "find"
    BY <1>3 DEF Call, NoUse, SecretsTypeInv, UserType
  <2> QED
    BY <1>2, <1>3, <2>1 DEF Call, UserStepOf
<1>4. ASSUME NEW u \in Users, FindSecret(u) PROVE AccessInv'
  BY <1>2, <1>4, FindSteps, IdleUser DEF UserStepOf
<1>5. ASSUME NEW u \in Users, Rotate(u) \/ AuditCreate(u) PROVE AccessInv'
  <2>1. user[u].id \in RowIds /\ UNCHANGED handedOut
    BY <1>5, FoundSecret DEF Rotate, AuditCreate
  <2>2. \A i \in RowIds : audit'[i].read = audit[i].read
    <3>1. \A i \in RowIds : audit[i] \in AuditRecord
      BY DEF SecretsTypeInv, AuditType
    <3>2. \/ audit' = audit
          \/ audit' = [audit EXCEPT ![user[u].id].rotate = @ + 1]
          \/ audit' = [audit EXCEPT ![user[u].id].create = @ + 1]
      BY <1>5 DEF Rotate, AuditCreate
    <3> QED
      BY <2>1, <3>1, <3>2 DEF SecretsTypeInv, AuditType, AuditRecord
  <2>3. user'[u].pc \in {"create", "idle"}
    <3>1. CASE user' = [user EXCEPT ![u].pc = "create"]
      BY <3>1 DEF SecretsTypeInv, UserType, UserRecord
    <3> QED
      BY <1>5, <3>1, AnswerStep DEF Rotate, AuditCreate
  <2> QED
    BY <1>2, <1>5, <2>1, <2>2, <2>3 DEF UserStepOf
<1>6. ASSUME NEW u \in Users, InsertSecret(u) PROVE AccessInv'
  <2>1. user'[u].pc \in {"auditCreate", "idle"}
    <3>1. CASE \E i : user' = [user EXCEPT ![u].pc = "auditCreate", ![u].id = i]
      BY <3>1 DEF SecretsTypeInv, UserType, UserRecord
    <3> QED
      BY <1>6, <3>1, AnswerStep DEF InsertSecret
  <2>2. UNCHANGED <<audit, handedOut>>
    BY <1>6 DEF InsertSecret
  <2> QED
    BY <1>2, <1>6, <2>1, <2>2 DEF UserStepOf
<1>7. ASSUME NEW u \in Users, AuditRead(u) PROVE AccessInv'
  <2>0. PICK i \in RowIds : i = user[u].id
    BY <1>7, ReadSteps
  <2>1. /\ user[u].pc = "auditRead" /\ UNCHANGED handedOut
        /\ \A v \in Users \ {u} : user'[v] = user[v]
    BY <1>7, Others, ReadSteps DEF UserStepOf
  <2>2. CASE UNCHANGED audit /\ user'[u].pc = "idle"
    BY <1>2, <1>7, <2>1, <2>2 DEF UserStepOf
  <2>3. CASE /\ audit' = [audit EXCEPT ![i].read = @ + 1]
             /\ user'[u].pc = "decrypt" /\ user'[u].id = i
    <3>1. /\ audit'[i].read = audit[i].read + 1
          /\ \A j \in RowIds \ {i} : audit'[j] = audit[j]
      BY <2>0, <2>1, <2>3 DEF SecretsTypeInv, AuditType, AuditRecord
    <3>2. Pending(i)' = Pending(i) \cup {u} /\ u \notin Pending(i)
      BY <2>0, <2>1, <2>3 DEF Pending
    <3>3. \A j \in RowIds \ {i} : Pending(j)' = Pending(j)
      BY <2>0, <2>1, <2>3 DEF Pending
    <3>4. Cardinality(Pending(i)') = Cardinality(Pending(i)) + 1
      BY <3>2, PendingFinite, FS_AddElement
    <3>5. ASSUME NEW j \in RowIds
          PROVE  (handedOut[j] + Cardinality(Pending(j)) <= audit[j].read)'
      <4>1. CASE j = i
        BY <1>a, <2>1, <3>1, <3>4, <4>1, PendingFinite DEF AccessInv
      <4>2. CASE j # i
        BY <2>1, <3>1, <3>3, <4>2 DEF AccessInv
      <4> QED
        BY <4>1, <4>2
    <3> QED
      BY <3>5 DEF AccessInv
  <2> QED
    BY <1>7, <2>0, <2>2, <2>3, ReadSteps
<1>8. ASSUME NEW u \in Users, HandOut(u) PROVE AccessInv'
  <2>0. PICK i \in RowIds : i = user[u].id
    BY <1>8, FoundSecret DEF HandOut
  <2>1. /\ user[u].pc = "decrypt" /\ user'[u].pc = "idle" /\ UNCHANGED audit
        /\ \A v \in Users \ {u} : user'[v] = user[v]
        /\ handedOut' = [handedOut EXCEPT ![i] = @ + 1]
    BY <1>8, <2>0, AnswerStep, Others DEF HandOut, UserStepOf
  <2>2. /\ handedOut'[i] = handedOut[i] + 1
        /\ \A j \in RowIds \ {i} : handedOut'[j] = handedOut[j]
    BY <2>0, <2>1 DEF SecretsTypeInv, AuditType
  <2>3. Pending(i)' = Pending(i) \ {u} /\ u \in Pending(i)
    BY <2>0, <2>1 DEF Pending
  <2>4. \A j \in RowIds \ {i} : Pending(j)' = Pending(j)
    BY <2>0, <2>1 DEF Pending
  <2>5. Cardinality(Pending(i)') = Cardinality(Pending(i)) - 1
    BY <2>3, PendingFinite, FS_RemoveElement
  <2>6. ASSUME NEW j \in RowIds
        PROVE  (handedOut[j] + Cardinality(Pending(j)) <= audit[j].read)'
    <3>1. CASE j = i
      BY <1>a, <2>1, <2>2, <2>5, <3>1, PendingFinite DEF AccessInv
    <3>2. CASE j # i
      BY <2>1, <2>2, <2>4, <3>2 DEF AccessInv
    <3> QED
      BY <3>1, <3>2
  <2> QED
    BY <2>6 DEF AccessInv
<1>9. CASE SecretsCrash
  <2>1. UNCHANGED <<audit, handedOut>> /\ \A i \in RowIds : Pending(i)' = {}
    BY <1>9, IdleUser DEF SecretsCrash, Pending
  <2> QED
    BY <1>0, <1>a, <2>1, FewerPending
<1> QED
  BY <1>1, <1>3, <1>4, <1>5, <1>6, <1>7, <1>8, <1>9 DEF SecretsNext

\* No value is handed out without an audit row of its own.
THEOREM AccessesAudited == SecretsSpec => []AccessIsAudited
<1>1. SecretsSpec => [](SecretsTypeInv /\ AccessInv)
  BY SecretsInitType, SecretsNextType, InitAccess, NextAccess, PTL DEF SecretsSpec
<1> QED
  BY <1>1, AccessParts, PTL
=============================================================================
