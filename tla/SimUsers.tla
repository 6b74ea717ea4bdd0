------------------------------ MODULE SimUsers ------------------------------
(***************************************************************************)
(* The simulator's accounts and sessions (user_manager.cpp), called by     *)
(* handleUserSyscall (kernel.cpp) and by the shell of the host program.    *)
(*                                                                         *)
(* Names and passwords are model values; hashPassword is the constant      *)
(* PasswordHash, which may send two passwords to one hash as djb2 does.    *)
(* The audit log is its length; home directories and events are left out.  *)
(***************************************************************************)
EXTENDS Naturals, FiniteSets

CONSTANTS
    UserNames, Passwords,
    PasswordHash,       \* password -> hash
    RootPassword,       \* "root"
    AUDIT_MAX, AUDIT_DROP,      \* 10000 and 5000
    MaxUid, MaxSession, MaxFailed       \* bounds: uids, sessions, failures

VARIABLES
    accounts_,          \* uid -> [username, hash, role, enabled, failedLogins]
    sessions_,          \* session -> [uid, username]
    nextUid_, nextSessionId_,
    auditLength

userVars == <<accounts_, sessions_, nextUid_, nextSessionId_, auditLength>>

RootUser == 0
RootName == "root"

UserRoles == {"Root", "User"}

hashPassword(p) == PasswordHash[p]

NewAccount(name, pass, role) ==
    [username |-> name, hash |-> hashPassword(pass), role |-> role,
     enabled |-> TRUE, failedLogins |-> 0]

Extend(f, k, v) == [x \in DOMAIN f \cup {k} |-> IF x = k THEN v ELSE f[x]]
Forget(f, ks) == [x \in DOMAIN f \ ks |-> f[x]]

audit == auditLength' = IF auditLength + 1 > AUDIT_MAX
                        THEN auditLength + 1 - AUDIT_DROP ELSE auditLength + 1

UsersInit ==
    /\ accounts_ = [u \in {RootUser} |-> NewAccount(RootName, RootPassword, "Root")]
    /\ sessions_ = <<>>
    /\ nextUid_ = RootUser + 1 /\ nextSessionId_ = 1
    /\ auditLength = 1

resolveUid(name) == {u \in DOMAIN accounts_ : accounts_[u].username = name}

createUser(name, pass, role, requestor) ==
    IF requestor # RootUser
    THEN audit /\ UNCHANGED <<accounts_, sessions_, nextUid_, nextSessionId_>>
    ELSE /\ resolveUid(name) = {} /\ nextUid_ <= MaxUid
         /\ accounts_' = Extend(accounts_, nextUid_, NewAccount(name, pass, role))
         /\ nextUid_' = nextUid_ + 1
         /\ audit
         /\ UNCHANGED <<sessions_, nextSessionId_>>

(* A bug: sessions are closed by name of the account, once it is erased.   *)
logoutAll_Late(uid) == UNCHANGED sessions_

logoutAll(uid) ==
    sessions_' = Forget(sessions_, {s \in DOMAIN sessions_ : sessions_[s].uid = uid})

deleteUser(uid, requestor) ==
    /\ requestor = RootUser /\ uid # RootUser /\ uid \in DOMAIN accounts_
    /\ logoutAll(uid)
    /\ accounts_' = Forget(accounts_, {uid})
    /\ audit
    /\ UNCHANGED <<nextUid_, nextSessionId_>>

changePassword(uid, old, new) ==
    /\ uid \in DOMAIN accounts_
    /\ accounts_' = IF accounts_[uid].hash # hashPassword(old) THEN accounts_
                    ELSE [accounts_ EXCEPT ![uid].hash = hashPassword(new)]
    /\ audit
    /\ UNCHANGED <<sessions_, nextUid_, nextSessionId_>>

setUserRole(uid, role, requestor) ==
    /\ requestor = RootUser /\ uid \in DOMAIN accounts_
    /\ accounts_' = [accounts_ EXCEPT ![uid].role = role]
    /\ audit
    /\ UNCHANGED <<sessions_, nextUid_, nextSessionId_>>

enableUser(uid, enabled, requestor) ==
    /\ requestor = RootUser /\ uid # RootUser /\ uid \in DOMAIN accounts_
    /\ accounts_' = [accounts_ EXCEPT ![uid].enabled = enabled]
    /\ IF enabled THEN UNCHANGED sessions_ ELSE logoutAll(uid)
    /\ UNCHANGED <<nextUid_, nextSessionId_, auditLength>>

(* The account is looked up, then its flag, then the hash.                 *)
LoginFails(name, pass) ==
    /\ \A u \in resolveUid(name) :
          ~accounts_[u].enabled \/ accounts_[u].hash # hashPassword(pass)
    /\ accounts_' = [u \in DOMAIN accounts_ |->
            IF u \in resolveUid(name) /\ accounts_[u].enabled
               /\ accounts_[u].failedLogins < MaxFailed
            THEN [accounts_[u] EXCEPT !.failedLogins = @ + 1] ELSE accounts_[u]]
    /\ audit
    /\ UNCHANGED <<sessions_, nextUid_, nextSessionId_>>

LoginSucceeds(name, pass) ==
    \E u \in resolveUid(name) :
        /\ accounts_[u].enabled /\ accounts_[u].hash = hashPassword(pass)
        /\ nextSessionId_ <= MaxSession
        /\ sessions_' = Extend(sessions_, nextSessionId_, [uid |-> u, username |-> name])
        /\ nextSessionId_' = nextSessionId_ + 1
        /\ accounts_' = [accounts_ EXCEPT ![u].failedLogins = 0]
        /\ audit
        /\ UNCHANGED nextUid_

login(name, pass) == LoginFails(name, pass) \/ LoginSucceeds(name, pass)

logout(sid) ==
    /\ sid \in DOMAIN sessions_
    /\ sessions_' = Forget(sessions_, {sid})
    /\ audit
    /\ UNCHANGED <<accounts_, nextUid_, nextSessionId_>>

isLoggedIn(uid) == \E s \in DOMAIN sessions_ : sessions_[s].uid = uid

UsersNext ==
    \/ \E name \in UserNames, pass \in Passwords, role \in UserRoles, r \in 0 .. MaxUid :
            createUser(name, pass, role, r)
    \/ \E uid, r \in 0 .. MaxUid :
            \/ deleteUser(uid, r)
            \/ \E role \in UserRoles : setUserRole(uid, role, r)
            \/ \E e \in BOOLEAN : enableUser(uid, e, r)
    \/ \E uid \in 0 .. MaxUid, old, new \in Passwords : changePassword(uid, old, new)
    \/ \E name \in UserNames, pass \in Passwords : login(name, pass)
    \/ \E sid \in 1 .. MaxSession : logout(sid)

(* Every open session belongs to an account that exists under the name the *)
(* session carries and is enabled: deleting or disabling an account ends   *)
(* its sessions, and a name used again does not inherit them.  Names stay  *)
(* unique, and root stays able to log in (deleteUser, enableUser, login).  *)
SessionsValid ==
    /\ \A s \in DOMAIN sessions_ :
          LET u == sessions_[s].uid
          IN  /\ u \in DOMAIN accounts_
              /\ accounts_[u].username = sessions_[s].username
              /\ accounts_[u].enabled
              /\ isLoggedIn(u)
    /\ \A u, v \in DOMAIN accounts_ :
          accounts_[u].username = accounts_[v].username => u = v
    /\ accounts_[RootUser].enabled /\ accounts_[RootUser].username = RootName
    /\ auditLength <= AUDIT_MAX
=============================================================================
