----------------------------- MODULE Operators -----------------------------
(***************************************************************************)
(* One operator of table operinfo (tcMng.c, OPAdminOperHandle).  A request *)
(* is at most a SELECT, the decision taken on it, and an UPDATE; several   *)
(* requests for the operator are served at the same time.                  *)
(***************************************************************************)
EXTENDS Naturals

CONSTANTS Desks,    \* processes that serve the requests
          Secrets,  \* passwords, as GenOperPwd makes them from the operator
          Blank     \* the one OPT_OPER_CLRPWD sets

ASSUME OperatorsAssumption == Blank \in Secrets

VARIABLES operstat,   \* operinfo.status
          passwd,   \* operinfo.passwd
          ostage,   \* what each process is about to UPDATE
          told,     \* what each process answered
          barred,   \* history: cancelled, and neither logged out since nor
                    \* changed by a request that had looked before
          looked    \* history: requests that looked before the last CANCEL

operVars == <<operstat, passwd, ostage, told, barred, looked>>

OperatorsInit == /\ operstat = "LOGOFF" /\ passwd = Blank
                 /\ ostage = [d \in Desks |-> "idle"]
                 /\ told = [d \in Desks |-> "none"]
                 /\ barred = FALSE /\ looked = {}

About(d, u)  == ostage' = [ostage EXCEPT ![d] = u] /\ told' = [told EXCEPT ![d] = "none"]
Tell(d, a) == ostage' = [ostage EXCEPT ![d] = "idle"] /\ told' = [told EXCEPT ![d] = a]
Quit(d) == Tell(d, "error")

(* The SELECT fails, or ChkOperPwd does not accept the password. *)
Reject(d, a) == /\ Tell(d, a)
                /\ looked' = looked \ {d}
                /\ UNCHANGED <<operstat, passwd, barred>>

(* The checks in front of the UPDATE u. *)
Enter(d, u) == /\ About(d, u)
               /\ looked' = looked \ {d}
               /\ UNCHANGED <<operstat, passwd, barred>>

\* Mutant: the state is not looked at.
LoginAny(d, s) ==
    /\ ostage[d] = "idle"
    /\ \/ s # passwd /\ Reject(d, "PASSWD")
       \/ s = passwd /\ Enter(d, "login")

OPT_OPER_LOGIN(d, s) ==
    /\ ostage[d] = "idle"
    /\ \/ s # passwd /\ Reject(d, "PASSWD")
       \/ s = passwd /\ operstat = "CANCEL" /\ Reject(d, "CANCEL")
       \/ s = passwd /\ operstat # "CANCEL" /\ Enter(d, "login")

OPT_OPER_MODPWD(d, s) ==
    /\ ostage[d] = "idle"
    /\ \/ s # passwd /\ Reject(d, "PASSWD")
       \/ s = passwd /\ Enter(d, "modpwd")

(* RESET and CLRPWD need no password of the operator, AUTHORIZE and        *)
(* GETRIGHTS update nothing modelled here.                                 *)
OPT_OPER_RESET(d) ==
    /\ ostage[d] = "idle"
    /\ \/ operstat = "CANCEL" /\ Reject(d, "CANCEL")
       \/ operstat # "CANCEL" /\ Enter(d, "reset")

OPT_OPER_CLRPWD(d) ==
    /\ ostage[d] = "idle"
    /\ \/ operstat = "CANCEL" /\ Reject(d, "CANCEL")
       \/ operstat # "CANCEL" /\ Enter(d, "clrpwd")

OPT_OPER_AUTHORIZE(d, s) ==
    /\ ostage[d] = "idle"
    /\ Reject(d, CASE s # passwd -> "PASSWD" [] operstat = "CANCEL" -> "CANCEL" [] OTHER -> "OK")

(* No SELECT: one UPDATE, whatever the state was. *)
OPT_OPER_LOGOUT(d) ==
    /\ ostage[d] = "idle" /\ Tell(d, "OK")
    /\ operstat' = "LOGOFF" /\ barred' = FALSE
    /\ UNCHANGED <<passwd, looked>>

OPT_OPER_CANCEL(d) ==
    /\ ostage[d] = "idle" /\ Tell(d, "OK")
    /\ operstat' = "CANCEL" /\ barred' = TRUE
    /\ looked' = {e \in Desks : ostage[e] # "idle"}
    /\ UNCHANGED passwd

(* The UPDATE; it may fail. *)
UpdateOper(d) ==
    /\ ostage[d] # "idle"
    /\ \/ Quit(d) /\ UNCHANGED <<operstat, passwd, barred>>
       \/ /\ Tell(d, "OK")
          /\ operstat' = CASE ostage[d] = "login" -> "LOGIN" [] ostage[d] = "reset" -> "LOGOFF"
                         [] OTHER -> operstat
          /\ \/ ostage[d] = "modpwd" /\ \E s \in Secrets : passwd' = s
             \/ passwd' = IF ostage[d] = "clrpwd" THEN Blank ELSE passwd
          /\ barred' = (barred /\ ~(d \in looked /\ ostage[d] \in {"login", "reset"}))
    /\ looked' = looked \ {d}

OperatorsNext ==
    \E d \in Desks :
        \/ OPT_OPER_RESET(d) \/ OPT_OPER_CLRPWD(d) \/ OPT_OPER_LOGOUT(d)
        \/ OPT_OPER_CANCEL(d) \/ UpdateOper(d)
        \/ \E s \in Secrets : \/ OPT_OPER_LOGIN(d, s) \/ OPT_OPER_MODPWD(d, s)
                              \/ OPT_OPER_AUTHORIZE(d, s)

OperatorsSpec == OperatorsInit /\ [][OperatorsNext]_operVars

-----------------------------------------------------------------------------
(* A cancelled operator stays cancelled, whatever logs in, is reset or     *)
(* gets a password meanwhile -- unless a log-out sets the state, or a      *)
(* log-in or reset that had looked before the cancellation comes after it. *)
CancelledStays == barred => operstat = "CANCEL"
=============================================================================
