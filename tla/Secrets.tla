------------------------------- MODULE Secrets -------------------------------
(***************************************************************************)
(* KsmService: secrets that are created, read and rotated, each access with *)
(* a row in secret_audit, by two kinds of callers that do not wait for each *)
(* other: /config and setProjectProvider, which rotate a secret or else      *)
(* create it, and resolveProvider, which reads the provider of a project     *)
(* and falls back to another when that fails.                               *)
(*                                                                         *)
(* A value is represented by the number of the write that stored it.        *)
(***************************************************************************)
EXTENDS Naturals, FiniteSets

CONSTANTS
  SecretKeys,       \* (name, scope, scopeId) of secrets
  Scoped,           \* those with a scopeId: UNIQUE does not compare NULLs
  Users,            \* calls that may be in flight together
  NoSecret,         \* the absence of a key
  MaxSecrets,       \* bound: rows inserted
  MaxCalls,         \* bound: calls made
  MaxDbRefusals,    \* bound: statements that PostgreSQL refuses
  MaxSecretCrashes  \* bound: crashes of the process

ASSUME SecretsAssumption ==
  /\ Scoped \subseteq SecretKeys /\ NoSecret \notin SecretKeys /\ IsFiniteSet(Users)
  /\ MaxSecrets \in Nat /\ MaxCalls \in Nat
  /\ MaxDbRefusals \in Nat /\ MaxSecretCrashes \in Nat

VARIABLES
  secrets,   \* rows of `secrets' by identifier: key, keyVersion, the write it holds
  audit,     \* rows of `secret_audit' of each secret, counted by action
  user,      \* the call each user is in the middle of, by await
  writes,    \* history: writes committed to each key
  handedOut, \* history: how often the value of each secret was handed out
  staleRead, \* history: keys of which a read has returned a replaced value
  budget     \* what has been used of the bounds

secretsVars == <<secrets, audit, user, writes, handedOut, staleRead, budget>>

----------------------------------------------------------------------------
RowIds == 1..MaxSecrets
NoRow == [key |-> NoSecret, version |-> 0, write |-> 0]
NoUse == [pc |-> "idle", op |-> "none", key |-> NoSecret, id |-> 0, row |-> NoRow, since |-> 0]
RowsOf(k) == {i \in RowIds : secrets[i].key = k}

SecretsInit ==
  /\ secrets = [i \in RowIds |-> NoRow]
  /\ audit = [i \in RowIds |-> [create |-> 0, read |-> 0, rotate |-> 0]]
  /\ user = [u \in Users |-> NoUse]
  /\ writes = [k \in SecretKeys |-> 0]
  /\ handedOut = [i \in RowIds |-> 0]
  /\ staleRead = {}
  /\ budget = [calls |-> 0, refusals |-> 0, crashes |-> 0]

DbRefuses == /\ budget.refusals < MaxDbRefusals
             /\ budget' = [budget EXCEPT !.refusals = @ + 1]
DbAccepts == UNCHANGED budget
Answer(u) == user' = [user EXCEPT ![u] = NoUse]

----------------------------------------------------------------------------
\* A /config or setProjectProvider ("set"), or resolveProvider ("get").
Call(u, op, k) ==
  /\ user[u] = NoUse
  /\ budget.calls < MaxCalls
  /\ budget' = [budget EXCEPT !.calls = @ + 1]
  /\ user' = [user EXCEPT ![u] = [NoUse EXCEPT !.pc = "find", !.op = op, !.key = k,
                                               !.since = writes[k]]]
  /\ UNCHANGED <<secrets, audit, writes, handedOut, staleRead>>

\* findOne, in rotateSecret and getSecret.  Whatever error rotateSecret throws,
\* its callers go on with createSecret; those of getSecret do without a value.
FindSecret(u) ==
  /\ user[u].pc = "find"
  /\ LET k == user[u].key
         failed == IF user[u].op = "set" THEN [user EXCEPT ![u].pc = "create"]
                   ELSE [user EXCEPT ![u] = NoUse]
     IN \/ /\ DbAccepts
           /\ \E i \in RowsOf(k) :
                user' = [user EXCEPT ![u].pc = IF user[u].op = "set" THEN "rotate"
                                               ELSE "auditRead",
                                     ![u].id = i, ![u].row = secrets[i]]
        \/ DbAccepts /\ RowsOf(k) = {} /\ user' = failed
        \/ DbRefuses /\ user' = failed
  /\ UNCHANGED <<secrets, audit, writes, handedOut, staleRead>>

\* Mutant: the audit row of a rotation is written after the transaction.
Rotate_AuditApart(u) ==
  /\ user[u].pc = "rotate"
  /\ LET i == user[u].id
         k == user[u].key
     IN /\ secrets' = [secrets EXCEPT ![i].version = user[u].row.version + 1,
                                      ![i].write = writes[k] + 1]
        /\ writes' = [writes EXCEPT ![k] = @ + 1]
        /\ \/ DbAccepts /\ audit' = [audit EXCEPT ![i].rotate = @ + 1]
           \/ DbRefuses /\ UNCHANGED audit
  /\ Answer(u)
  /\ UNCHANGED <<handedOut, staleRead>>

\* One transaction for the row and its audit; the version is the one that was
\* found, plus one, whoever has rotated the secret since.
Rotate(u) ==
  /\ user[u].pc = "rotate"
  /\ LET i == user[u].id
         k == user[u].key
     IN \/ /\ secrets' = [secrets EXCEPT ![i].version = user[u].row.version + 1,
                                         ![i].write = writes[k] + 1]
           /\ writes' = [writes EXCEPT ![k] = @ + 1]
           /\ audit' = [audit EXCEPT ![i].rotate = @ + 1]
           /\ Answer(u) /\ DbAccepts
        \/ /\ user' = [user EXCEPT ![u].pc = "create"] /\ DbRefuses
           /\ UNCHANGED <<secrets, writes, audit>>
  /\ UNCHANGED <<handedOut, staleRead>>

\* Mutant: a table without UQ_secrets_name_scope_scopeId.
Taken_Never(k) == FALSE

\* UQ_secrets_name_scope_scopeId: NULLs are distinct.
Taken(k) == k \in Scoped /\ RowsOf(k) # {}

\* Mutant: the audit row is for the entity as it was before it was saved.
InsertSecret_Unsaved(u) ==
  /\ user[u].pc = "create"
  /\ LET k == user[u].key
     IN \/ /\ ~Taken(k) /\ DbAccepts
           /\ \E i \in RowIds :
                /\ secrets[i] = NoRow
                /\ \A n \in RowIds : secrets[n] = NoRow => i <= n
                /\ secrets' = [secrets EXCEPT ![i] =
                     [key |-> k, version |-> 1, write |-> writes[k] + 1]]
                /\ user' = [user EXCEPT ![u].pc = "auditCreate"]
           /\ writes' = [writes EXCEPT ![k] = @ + 1]
        \/ /\ \/ Taken(k) /\ DbAccepts
              \/ DbRefuses
           /\ Answer(u)
           /\ UNCHANGED <<secrets, writes>>
  /\ UNCHANGED <<audit, handedOut, staleRead>>

\* createSecret: the row, then its audit, in two statements.
InsertSecret(u) ==
  /\ user[u].pc = "create"
  /\ LET k == user[u].key
     IN \/ /\ ~Taken(k) /\ DbAccepts
           /\ \E i \in RowIds :
                /\ secrets[i] = NoRow
                /\ \A n \in RowIds : secrets[n] = NoRow => i <= n
                /\ secrets' = [secrets EXCEPT ![i] =
                     [key |-> k, version |-> 1, write |-> writes[k] + 1]]
                /\ user' = [user EXCEPT ![u].pc = "auditCreate", ![u].id = i]
           /\ writes' = [writes EXCEPT ![k] = @ + 1]
        \/ /\ \/ Taken(k) /\ DbAccepts
              \/ DbRefuses
           /\ Answer(u)
           /\ UNCHANGED <<secrets, writes>>
  /\ UNCHANGED <<audit, handedOut, staleRead>>

\* A secret whose audit row is refused stays, and its creator gets an error.
AuditCreate(u) ==
  /\ user[u].pc = "auditCreate"
  /\ \/ audit' = [audit EXCEPT ![user[u].id].create = @ + 1] /\ DbAccepts
     \/ UNCHANGED audit /\ DbRefuses
  /\ Answer(u)
  /\ UNCHANGED <<secrets, writes, handedOut, staleRead>>

\* Mutant: writeAudit is not awaited, its failure is nobody's.
AuditRead_NoAwait(u) ==
  /\ user[u].pc = "auditRead"
  /\ \/ audit' = [audit EXCEPT ![user[u].id].read = @ + 1] /\ DbAccepts
     \/ UNCHANGED audit /\ DbRefuses
  /\ user' = [user EXCEPT ![u].pc = "decrypt"]
  /\ UNCHANGED <<secrets, writes, handedOut, staleRead>>

\* getSecret: no value without an audit row.
AuditRead(u) ==
  /\ user[u].pc = "auditRead"
  /\ \/ /\ audit' = [audit EXCEPT ![user[u].id].read = @ + 1] /\ DbAccepts
        /\ user' = [user EXCEPT ![u].pc = "decrypt"]
     \/ UNCHANGED audit /\ DbRefuses /\ Answer(u)
  /\ UNCHANGED <<secrets, writes, handedOut, staleRead>>

\* The value that was found, which may have been replaced since the read began
\* or, without the constraint, long before.
HandOut(u) ==
  /\ user[u].pc = "decrypt"
  /\ handedOut' = [handedOut EXCEPT ![user[u].id] = @ + 1]
  /\ staleRead' = IF user[u].row.write < user[u].since
                  THEN staleRead \cup {user[u].key} ELSE staleRead
  /\ Answer(u)
  /\ UNCHANGED <<secrets, audit, writes, budget>>

\* The process dies with every call it has in flight; an open transaction has
\* not been committed.
SecretsCrash ==
  /\ budget.crashes < MaxSecretCrashes
  /\ budget' = [budget EXCEPT !.crashes = @ + 1]
  /\ user' = [u \in Users |-> NoUse]
  /\ UNCHANGED <<secrets, audit, writes, handedOut, staleRead>>

SecretsNext ==
  \/ \E u \in Users : \/ \E op \in {"set", "get"}, k \in SecretKeys : Call(u, op, k)
                      \/ FindSecret(u) \/ Rotate(u) \/ InsertSecret(u) \/ AuditCreate(u)
                      \/ AuditRead(u) \/ HandOut(u)
  \/ SecretsCrash

SecretsSpec == SecretsInit /\ [][SecretsNext]_secretsVars

----------------------------------------------------------------------------
Row == [key : SecretKeys \cup {NoSecret}, version : Nat, write : Nat]

\* Every variable keeps its type; a call that has found a row knows which.
SecretsTypeOK ==
  /\ secrets \in [RowIds -> Row]
  /\ audit \in [RowIds -> [create : Nat, read : Nat, rotate : Nat]]
  /\ user \in [Users -> [pc : {"idle", "find", "rotate", "create", "auditCreate",
                               "auditRead", "decrypt"},
                         op : {"none", "set", "get"}, key : SecretKeys \cup {NoSecret},
                         id : RowIds \cup {0}, row : Row, since : Nat]]
  /\ \A u \in Users : user[u].pc # "idle" => user[u].key \in SecretKeys
  /\ \A u \in Users : user[u].pc \in {"rotate", "auditCreate", "auditRead", "decrypt"} =>
       user[u].id \in RowIds
  /\ writes \in [SecretKeys -> Nat] /\ handedOut \in [RowIds -> Nat]
  /\ staleRead \subseteq SecretKeys
  /\ budget \in [calls : Nat, refusals : Nat, crashes : Nat]

----------------------------------------------------------------------------
\* keyVersion tells whether a secret was rotated and never claims a rotation
\* that the audit does not have, whichever rotations overlap, fail or die (it may
\* claim fewer: two that find the same version both write the next one).
VersionsAreAudited ==
  \A i \in RowIds : secrets[i] # NoRow =>
    /\ secrets[i].version <= audit[i].rotate + 1
    /\ secrets[i].version > 1 <=> audit[i].rotate > 0

\* A value of a project's secret that was replaced before a read began is not
\* what the read returns: there is one row per name and project, whatever races
\* create it, and a rotation replaces the one that is read.
ReadIsFresh == staleRead \cap Scoped = {}

\* No value is handed out without an audit row of its own: the row is committed
\* first, also when the audit fails, the process dies or reads overlap.
AccessIsAudited == \A i \in RowIds : handedOut[i] <= audit[i].read
=============================================================================
