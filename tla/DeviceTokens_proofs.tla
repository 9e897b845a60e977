------------------------ MODULE DeviceTokens_proofs ------------------------
(***************************************************************************)
(* Proofs about DeviceTokens, for every set of devices, secrets, handlers  *)
(* and lifetimes, with and without rotation and failing statements.        *)
(***************************************************************************)
EXTENDS DeviceTokens, TLAPS

-----------------------------------------------------------------------------
(***************************************************************************)
(* Types.  TypeOK alone is not inductive: that a token or an undelivered   *)
(* secret has a device rests on every running handler having one.          *)
(***************************************************************************)
HandlerOK(h) ==
    /\ h.pc = "idle" <=> h = Idle
    /\ h = Idle \/ h.device \in Device
    /\ h.pc \in {"record", "respond"} => h.token \in Token

HandlersOK ==
    /\ req \in [Request -> Handler]
    /\ \A r \in Request : HandlerOK(req[r])

TypeInv == TypeOK /\ HandlersOK

LEMMA RowType ==
    /\ NoRow \in Row
    /\ \A s \in Secret \cup {Placeholder} : ActiveRow(s) \in Row
BY DeviceTokensAssumption DEF Row, NoRow, ActiveRow, Status, Time

LEMMA IdleOK == Idle \in Handler /\ HandlerOK(Idle)
BY DEF Idle, Handler, HandlerOK, Op, Pc

\* How a handler's locals may change: it starts, takes a step, or ends.
LEMMA StartHandler ==
    ASSUME HandlersOK, NEW r \in Request, NEW op \in Op, NEW d \in Device,
           NEW pc \in Pc \ {"idle", "record", "respond"}, NEW s \in Secret \cup {None},
           req' = [req EXCEPT ![r] = Running(op, pc, d, s)]
    PROVE  HandlersOK'
<1>1. Running(op, pc, d, s) \in Handler
  BY DEF Running, Handler
<1>2. HandlerOK(Running(op, pc, d, s))
  BY DEF HandlerOK, Running, Idle
<1> QED
  BY <1>1, <1>2 DEF HandlersOK

LEMMA StepHandler ==
    ASSUME HandlersOK, NEW r \in Request, NEW pc \in Pc \ {"idle"}, ~At(r, "idle"),
           pc \in {"record", "respond"} => req[r].token \in Token,
           Step(r, pc)
    PROVE  HandlersOK'
<1>1. /\ [req[r] EXCEPT !.pc = pc] \in Handler
      /\ HandlerOK([req[r] EXCEPT !.pc = pc])
  BY DEF HandlersOK, Handler, HandlerOK, At, Idle
<1> QED
  BY <1>1 DEF HandlersOK, Step

LEMMA EndHandler ==
    ASSUME HandlersOK, NEW r \in Request, End(r)
    PROVE  HandlersOK'
BY IdleOK DEF HandlersOK, End

\* What those three leave in a handler's locals.
Others(r) == \A x \in Request \ {r} : req'[x] = req[x]

LEMMA StartEffect ==
    ASSUME HandlersOK, NEW r \in Request, NEW op, NEW pc, NEW d, NEW s,
           req' = [req EXCEPT ![r] = Running(op, pc, d, s)]
    PROVE  /\ Others(r)
           /\ req'[r].op = op /\ req'[r].pc = pc /\ req'[r].device = d /\ req'[r].secret = s
           /\ req'[r].late <=> d \in revokedOnce
BY DEF HandlersOK, Running, Others

LEMMA StepEffect ==
    ASSUME HandlersOK, NEW r \in Request, NEW pc, Step(r, pc)
    PROVE  /\ Others(r)
           /\ req'[r].op = req[r].op /\ req'[r].pc = pc /\ req'[r].device = req[r].device
           /\ req'[r].secret = req[r].secret /\ req'[r].token = req[r].token
           /\ req'[r].late = req[r].late
<1>1. req[r] \in Handler
  BY DEF HandlersOK
<1> QED
  BY <1>1 DEF HandlersOK, Step, Others, Handler

LEMMA EndEffect ==
    ASSUME HandlersOK, NEW r \in Request, End(r)
    PROVE  /\ Others(r)
           /\ req'[r].op = "none" /\ req'[r].pc = "idle" /\ req'[r].device = None
           /\ req'[r].secret = None /\ req'[r].token = None /\ req'[r].late = FALSE
BY DEF HandlersOK, End, Others, Idle

LEMMA LosesType ==
    ASSUME HandlersOK, NEW R \in SUBSET Request
    PROVE  Loses(R) \subseteq Device
BY DeviceTokensAssumption DEF Loses, HoldsNewSecret, HandlersOK, HandlerOK, Idle

LEMMA InitTypeInv == Init => TypeInv
<1> SUFFICES ASSUME Init PROVE TypeInv
  OBVIOUS
<1>1. 0 \in Time
  BY DeviceTokensAssumption DEF Time
<1>2. HandlersOK
  BY IdleOK DEF Init, HandlersOK
<1> QED
  BY <1>1, <1>2, RowType DEF Init, TypeInv, TypeOK, HandlersOK

LEMMA NextTypeInv == TypeInv /\ [Next]_vars => TypeInv'
<1> SUFFICES ASSUME TypeInv, [Next]_vars PROVE TypeInv'
  OBVIOUS
<1> USE DEF TypeInv
<1>1. HandlersOK
  OBVIOUS
<1>2. /\ {"none", "session", "refresh", "cli", "auth", "revoke"} \subseteq Op
      /\ {"rotate", "insert", "reread", "sign", "record", "respond",
          "isActive", "authorized", "mark"} \subseteq Pc \ {"idle"}
  BY DEF Op, Pc
<1>3. ASSUME NEW r \in Request, ~At(r, "idle") PROVE req[r].device \in Device
  BY <1>1, <1>3 DEF HandlersOK, HandlerOK, At, Idle
<1>4. ASSUME NEW r \in Request, CreateDevice(r) PROVE TypeInv'
  <2> PICK d \in Device, s \in Secret :
          /\ InsertRow(d, s)
          /\ owner' = [owner EXCEPT ![s] = d]
          /\ req' = [req EXCEPT ![r] = Running("session", "reread", d, s)]
    BY <1>4 DEF CreateDevice
  <2>1. HandlersOK'
    BY <1>2, StartHandler
  <2>2. row' \in [Device -> Row] /\ born' \subseteq Device
    BY RowType DEF TypeOK, InsertRow
  <2> QED
    BY <1>4, <2>1, <2>2 DEF TypeOK, HandlersOK, CreateDevice, clients
<1>5. ASSUME NEW r \in Request, FindDeviceByID(r) PROVE TypeInv'
  <2>1. HandlersOK'
    BY <1>2, <1>5, StepHandler, EndHandler DEF FindDeviceByID, At
  <2>2. undelivered' \subseteq Device
    BY <1>5, LosesType DEF FindDeviceByID, LoseSecret, TypeOK
  <2> QED
    BY <1>5, <2>1, <2>2 DEF TypeOK, HandlersOK, FindDeviceByID, clients, db
<1>6. ASSUME NEW r \in Request, Sign(r) PROVE TypeInv'
  <2> PICK ttl \in TTL :
        req' = [req EXCEPT ![r].pc = "record",
                           ![r].token = [device |-> req[r].device, iat |-> now, ttl |-> ttl]]
    BY <1>6 DEF Sign
  <2> DEFINE t == [device |-> req[r].device, iat |-> now, ttl |-> ttl]
             h == [req[r] EXCEPT !.pc = "record", !.token = t]
  <2>1. t \in Token
    BY <1>3, <1>6 DEF Sign, At, Token, TypeOK
  <2>2. h \in Handler /\ HandlerOK(h)
    <3>1. req[r] \in Handler /\ req[r].device \in Device
      BY <1>1, <1>3, <1>6 DEF Sign, At, HandlersOK
    <3>2. h \in Handler /\ h.pc = "record" /\ h.device = req[r].device /\ h.token = t
      BY <1>2, <2>1, <3>1 DEF Handler
    <3> QED
      BY <2>1, <3>1, <3>2 DEF HandlerOK, Idle
  <2>3. HandlersOK'
    BY <2>2 DEF HandlersOK
  <2> QED
    BY <1>6, <2>3 DEF TypeOK, HandlersOK, Sign, clients, db, history
<1>7. ASSUME NEW r \in Request, RecordTokenAudit(r) PROVE TypeInv'
  <2>1. req[r].token \in Token
    BY <1>1, <1>7 DEF RecordTokenAudit, At, HandlersOK, HandlerOK
  <2>2. HandlersOK'
    BY <1>2, <1>7, <2>1, StepHandler DEF RecordTokenAudit, At
  <2>3. audit' \in [Token -> {"none", "active", "revoked"}]
    BY <1>7, <2>1 DEF RecordTokenAudit, Recorded, TypeOK
  <2> QED
    BY <1>7, <2>2, <2>3 DEF TypeOK, HandlersOK, RecordTokenAudit, clients, history
<1>8. ASSUME NEW r \in Request, Respond(r) PROVE TypeInv'
  <2>1. req[r].token \in Token
    BY <1>1, <1>8 DEF Respond, At, HandlersOK, HandlerOK
  <2>2. HandlersOK'
    BY <1>8, EndHandler DEF Respond
  <2> QED
    BY <1>8, <2>1, <2>2 DEF TypeOK, HandlersOK, Respond, Answered, db, history
<1>9. ASSUME NEW r \in Request, StartRefresh(r) PROVE TypeInv'
  <2> PICK s \in Secret, d \in Device :
        req' = [req EXCEPT ![r] = Running("refresh", "rotate", d, s)]
    BY <1>9 DEF StartRefresh, FindActiveDeviceByToken, TypeOK
  <2>1. HandlersOK'
    BY <1>2, StartHandler
  <2> QED
    BY <1>9, <2>1 DEF TypeOK, HandlersOK, StartRefresh, db, clients, history
<1>10. ASSUME NEW r \in Request, RotateDeviceToken(r) PROVE TypeInv'
  <2> PICK s \in Secret :
        /\ owner' = [owner EXCEPT ![s] = req[r].device]
        /\ row' = Rotated(req[r].device, s)
        /\ req' = [req EXCEPT ![r].pc = "sign", ![r].secret = NextSecret(r, s)]
    BY <1>10 DEF RotateDeviceToken
  <2>1. req[r].device \in Device
    BY <1>3, <1>10 DEF RotateDeviceToken, At
  <2>2. row' \in [Device -> Row]
    BY <2>1 DEF Rotated, TypeOK, Row
  <2> DEFINE h == [req[r] EXCEPT !.pc = "sign", !.secret = NextSecret(r, s)]
  <2>3. h \in Handler /\ HandlerOK(h)
    <3>1. req[r] \in Handler
      BY <1>1 DEF HandlersOK
    <3>2. h \in Handler /\ h.pc = "sign" /\ h.device = req[r].device
      BY <1>2, <3>1 DEF Handler, NextSecret
    <3> QED
      BY <2>1, <3>2 DEF HandlerOK, Idle
  <2>4. HandlersOK'
    BY <2>3 DEF HandlersOK
  <2> QED
    BY <1>10, <2>1, <2>2, <2>4 DEF TypeOK, HandlersOK, RotateDeviceToken, clients
<1>11. ASSUME NEW r \in Request, TouchDevice(r) PROVE TypeInv'
  <2>1. HandlersOK'
    BY <1>2, <1>11, StepHandler DEF TouchDevice, At
  <2> QED
    BY <1>11, <2>1 DEF TypeOK, HandlersOK, TouchDevice, db, clients, history
<1>12. ASSUME NEW r \in Request, RejectTTL(r) \/ HandlerFails(r) PROVE TypeInv'
  <2>1. HandlersOK'
    BY <1>12, EndHandler DEF RejectTTL, HandlerFails
  <2>2. undelivered' \subseteq Device
    BY <1>12, LosesType DEF RejectTTL, HandlerFails, LoseSecret, TypeOK
  <2> QED
    BY <1>12, <2>1, <2>2 DEF TypeOK, HandlersOK, RejectTTL, HandlerFails, db, clients
<1>13. ASSUME NEW r \in Request, NEW d \in Device, RevokeDevice(r, d) PROVE TypeInv'
  <2>1. HandlersOK'
    BY <1>2, <1>13, StartHandler DEF RevokeDevice
  <2>2. row' \in [Device -> Row] /\ revokedOnce' \subseteq Device
    BY <1>13 DEF RevokeDevice, Revoked, TypeOK, Row, Status
  <2> QED
    BY <1>13, <2>1, <2>2 DEF TypeOK, HandlersOK, RevokeDevice, clients
<1>14. ASSUME NEW r \in Request,
              AdminRevokeDevice(r) \/ AppLogout(r) \/ AppDeleteDevice(r)
       PROVE TypeInv'
  <2>1. KnownDevices \subseteq Device
    BY DeviceTokensAssumption DEF KnownDevices, TypeOK
  <2> QED
    BY <1>3, <1>13, <1>14, <2>1 DEF AdminRevokeDevice, AppLogout, AppDeleteDevice, At
<1>15. ASSUME NEW r \in Request, MarkTokensRevokedByDeviceID(r) PROVE TypeInv'
  <2>1. HandlersOK'
    BY <1>15, EndHandler DEF MarkTokensRevokedByDeviceID
  <2> QED
    BY <1>15, <2>1 DEF TypeOK, HandlersOK, MarkTokensRevokedByDeviceID, MarkedRevoked, clients, history
<1>16. ASSUME NEW r \in Request, PresentToken(r) PROVE TypeInv'
  <2> PICK t \in heldTokens :
        req' = [req EXCEPT ![r] = Running("auth", "isActive", t.device, None)]
    BY <1>16 DEF PresentToken
  <2>1. t.device \in Device
    BY DEF TypeOK, Token
  <2>2. HandlersOK'
    BY <1>2, <2>1, StartHandler
  <2> QED
    BY <1>16, <2>2 DEF TypeOK, HandlersOK, PresentToken, db, clients, history
<1>17. ASSUME NEW r \in Request, IsDeviceActive(r) PROVE TypeInv'
  <2>1. HandlersOK'
    BY <1>2, <1>17, StepHandler, EndHandler DEF IsDeviceActive, At
  <2> QED
    BY <1>17, <2>1 DEF TypeOK, HandlersOK, IsDeviceActive, db, clients, history
<1>18. ASSUME NEW r \in Request, RenameDevice(r) PROVE TypeInv'
  <2>1. HandlersOK'
    BY <1>18, EndHandler DEF RenameDevice
  <2>2. row' \in [Device -> Row]
    BY <1>18 DEF RenameDevice, Renamed, TypeOK, Row
  <2> QED
    BY <1>18, <2>1, <2>2 DEF TypeOK, HandlersOK, RenameDevice, clients, history
<1>19. ASSUME NEW r \in Request, FinishAuthorized(r) PROVE TypeInv'
  <2>1. HandlersOK'
    BY <1>19, EndHandler DEF FinishAuthorized
  <2> QED
    BY <1>19, <2>1 DEF TypeOK, HandlersOK, FinishAuthorized, db, clients, history
<1>20. ASSUME NEW r \in Request, CliEnsureWithID(r) \/ CliReuseByName(r) PROVE TypeInv'
  <2> PICK d \in Device, pc \in {"reread", "insert"} :
        req' = [req EXCEPT ![r] = Running("cli", pc, d, None)]
    BY <1>20, DeviceTokensAssumption DEF CliEnsureWithID, CliReuseByName
  <2>1. HandlersOK'
    BY <1>2, StartHandler
  <2> QED
    BY <1>20, <2>1 DEF TypeOK, HandlersOK, CliEnsureWithID, CliReuseByName, db, clients, history
<1>21. ASSUME NEW r \in Request, CliInsert(r) PROVE TypeInv'
  <2>1. HandlersOK'
    BY <1>2, <1>21, StepHandler, EndHandler DEF CliInsert, At
  <2>2. row' \in [Device -> Row] /\ born' \subseteq Device
    BY <1>3, <1>21, RowType DEF CliInsert, At, InsertRow, TypeOK
  <2> QED
    BY <1>21, <2>1, <2>2 DEF TypeOK, HandlersOK, CliInsert, clients
<1>22. ASSUME NEW r \in Request, CliInsertFresh(r) PROVE TypeInv'
  <2> PICK d \in Device :
        /\ InsertRow(d, Placeholder)
        /\ req' = [req EXCEPT ![r] = Running("cli", "reread", d, None)]
    BY <1>22 DEF CliInsertFresh
  <2>1. HandlersOK'
    BY <1>2, StartHandler
  <2>2. row' \in [Device -> Row] /\ born' \subseteq Device
    BY RowType DEF TypeOK, InsertRow
  <2> QED
    BY <1>22, <2>1, <2>2 DEF TypeOK, HandlersOK, CliInsertFresh, clients
<1>23. ASSUME NEW r \in Request, AuditFails(r) PROVE TypeInv'
  <2>1. HandlersOK'
    BY <1>1, <1>2, <1>23, StepHandler DEF AuditFails, At, HandlersOK, HandlerOK
  <2> QED
    BY <1>23, <2>1 DEF TypeOK, HandlersOK, AuditFails, db, clients, history
<1>24. CASE DeleteRevokedDevicesOlderThan \/ DeleteTokenAuditIssuedOlderThan
  BY <1>24, RowType DEF DeleteRevokedDevicesOlderThan, DeleteTokenAuditIssuedOlderThan,
     TypeOK, HandlersOK, clients, history
<1>25. CASE ServerRestart
  <2>1. HandlersOK'
    BY <1>25, IdleOK DEF ServerRestart, HandlersOK
  <2>2. undelivered' \subseteq Device
    BY <1>25, LosesType DEF ServerRestart, TypeOK
  <2> QED
    BY <1>25, <2>1, <2>2 DEF TypeOK, HandlersOK, ServerRestart, db, clients
<1>26. CASE Tick
  BY <1>26, DeviceTokensAssumption DEF Tick, TypeOK, HandlersOK, Time, db, clients, history
<1>27. CASE UNCHANGED vars
  BY <1>27 DEF vars, TypeOK, HandlersOK
<1> QED
  BY <1>4, <1>5, <1>6, <1>7, <1>8, <1>9, <1>10, <1>11, <1>12, <1>14, <1>15, <1>16, <1>17,
     <1>18, <1>19, <1>20, <1>21, <1>22, <1>23, <1>24, <1>25, <1>26, <1>27
     DEF Next, HandlerStep

\* Every variable keeps its type in every behaviour.
THEOREM TypeCorrect == Spec => []TypeOK
<1>1. TypeInv => TypeOK
  BY DEF TypeInv
<1> QED
  BY <1>1, InitTypeInv, NextTypeInv, PTL DEF Spec

-----------------------------------------------------------------------------
(***************************************************************************)
(* A device token names one device.  The invariant is inductive as it      *)
(* stands: a secret gets its owner when it is generated, and a fresh one   *)
(* is in no row and in no handler because those have owners.               *)
(***************************************************************************)
LEMMA NoneIsNoSecret == None \notin Secret /\ Placeholder \notin Secret /\ None \notin Device
BY DeviceTokensAssumption

LEMMA InitSecretInv == Init => SecretNamesItsDevice
BY NoneIsNoSecret DEF Init, SecretNamesItsDevice, NoRow, Idle

\* The steps that give no row and no handler a secret it did not have.
LEMMA SecretFrame ==
    ASSUME SecretNamesItsDevice, NEW r \in Request, Others(r), owner' = owner,
           \A d \in Device : row'[d].secret \in {row[d].secret, Placeholder, None},
           \/ req'[r].secret = None
           \/ req'[r].secret = req[r].secret /\ req'[r].device = req[r].device
    PROVE  SecretNamesItsDevice'
BY NoneIsNoSecret DEF SecretNamesItsDevice, Others

\* The steps that give a fresh secret to one row and to the handler that works for it.
LEMMA NewSecretFrame ==
    ASSUME SecretNamesItsDevice, HandlersOK,
           NEW r \in Request, NEW d \in Device, NEW s \in Secret,
           Others(r), req'[r].device = d, req'[r].secret = s, owner'[s] = d,
           \A z \in Secret : owner[z] # None => owner'[z] = owner[z],
           row'[d].secret \in {s, row[d].secret},
           \A x \in Device \ {d} : row'[x] = row[x]
    PROVE  SecretNamesItsDevice'
<1>1. ASSUME NEW x \in Device, row'[x].secret \in Secret PROVE owner'[row'[x].secret] = x
  <2>1. CASE row'[x].secret = row[x].secret
    BY <1>1, <2>1, NoneIsNoSecret DEF SecretNamesItsDevice
  <2>2. CASE row'[x].secret # row[x].secret
    BY <2>2
  <2> QED
    BY <2>1, <2>2
<1>2. ASSUME NEW x \in Request, req'[x].secret \in Secret
      PROVE  owner'[req'[x].secret] = req'[x].device
  <2>1. CASE x = r
    BY <2>1
  <2>2. CASE x # r
    <3>1. req'[x] = req[x]
      BY <2>2 DEF Others
    <3>2. owner[req[x].secret] = req[x].device /\ req[x].device # None
      BY <1>2, <3>1, NoneIsNoSecret DEF SecretNamesItsDevice, HandlersOK, HandlerOK, Idle
    <3> QED
      BY <1>2, <3>1, <3>2
  <2> QED
    BY <2>1, <2>2
<1> QED
  BY <1>1, <1>2 DEF SecretNamesItsDevice

LEMMA NextSecretInv == TypeInv /\ SecretNamesItsDevice /\ [Next]_vars => SecretNamesItsDevice'
<1> SUFFICES ASSUME TypeInv, SecretNamesItsDevice, [Next]_vars PROVE SecretNamesItsDevice'
  OBVIOUS
<1>1. /\ HandlersOK
      /\ row \in [Device -> Row]
      /\ owner \in [Secret -> Device \cup {None}]
  BY DEF TypeInv, TypeOK
<1>2. ASSUME NEW r \in Request, CreateDevice(r) PROVE SecretNamesItsDevice'
  <2> PICK d \in Device, s \in Secret :
        /\ FreshSecret(s)
        /\ InsertRow(d, s)
        /\ owner' = [owner EXCEPT ![s] = d]
        /\ req' = [req EXCEPT ![r] = Running("session", "reread", d, s)]
    BY <1>2 DEF CreateDevice
  <2>1. Others(r) /\ req'[r].device = d /\ req'[r].secret = s
    BY <1>1, StartEffect
  <2>2. row'[d].secret = s /\ \A x \in Device \ {d} : row'[x] = row[x]
    BY <1>1 DEF InsertRow, ActiveRow
  <2>3. owner'[s] = d /\ \A z \in Secret : owner[z] # None => owner'[z] = owner[z]
    BY <1>1 DEF FreshSecret
  <2> QED
    BY <1>1, <2>1, <2>2, <2>3, NewSecretFrame
<1>3. ASSUME NEW r \in Request, RotateDeviceToken(r) PROVE SecretNamesItsDevice'
  <2> PICK s \in Secret :
        /\ FreshSecret(s)
        /\ owner' = [owner EXCEPT ![s] = req[r].device]
        /\ row' = Rotated(req[r].device, s)
        /\ req' = [req EXCEPT ![r].pc = "sign", ![r].secret = NextSecret(r, s)]
    BY <1>3 DEF RotateDeviceToken
  <2>1. req[r].device \in Device /\ req[r] \in Handler
    BY <1>1, <1>3 DEF RotateDeviceToken, At, HandlersOK, HandlerOK, Idle
  <2>2. Others(r) /\ req'[r].device = req[r].device /\ req'[r].secret = s
    BY <1>1, <2>1 DEF Others, HandlersOK, Handler, NextSecret
  <2>3. /\ row'[req[r].device].secret \in {s, row[req[r].device].secret}
        /\ \A x \in Device \ {req[r].device} : row'[x] = row[x]
    BY <1>1, <2>1 DEF Rotated, Row
  <2>4. owner'[s] = req[r].device
        /\ \A z \in Secret : owner[z] # None => owner'[z] = owner[z]
    BY <1>1 DEF FreshSecret
  <2> QED
    BY <1>1, <2>1, <2>2, <2>3, <2>4, NewSecretFrame
<1>4. ASSUME NEW r \in Request, StartRefresh(r) PROVE SecretNamesItsDevice'
  <2> PICK s \in heldSecrets, d \in Device :
        /\ d \in FindActiveDeviceByToken(s)
        /\ req' = [req EXCEPT ![r] = Running("refresh", "rotate", d, s)]
    BY <1>4 DEF StartRefresh, FindActiveDeviceByToken
  <2>1. Others(r) /\ req'[r].device = d /\ req'[r].secret = s
    BY <1>1, StartEffect
  <2>2. d \in Device /\ row[d].secret = s
    BY DEF FindActiveDeviceByToken
  <2> QED
    BY <1>4, <2>1, <2>2 DEF SecretNamesItsDevice, Others, StartRefresh, db, history
<1>5. ASSUME NEW r \in Request,
             \/ RecordTokenAudit(r) \/ TouchDevice(r) \/ AuditFails(r) \/ Sign(r)
      PROVE SecretNamesItsDevice'
  <2>1. row' = row /\ owner' = owner
    BY <1>5 DEF RecordTokenAudit, TouchDevice, AuditFails, Sign, db, history
  <2>2. /\ Others(r)
        /\ req'[r].secret = req[r].secret /\ req'[r].device = req[r].device
    <3>1. CASE Sign(r)
      BY <1>1, <3>1 DEF Sign, Others, HandlersOK, Handler
    <3>2. CASE ~Sign(r)
      BY <1>1, <1>5, <3>2, StepEffect DEF RecordTokenAudit, TouchDevice, AuditFails
    <3> QED
      BY <3>1, <3>2
  <2> QED
    BY <2>1, <2>2, SecretFrame
<1>6. ASSUME NEW r \in Request,
             \/ FindDeviceByID(r) \/ Respond(r) \/ RejectTTL(r) \/ HandlerFails(r)
             \/ MarkTokensRevokedByDeviceID(r) \/ IsDeviceActive(r) \/ FinishAuthorized(r)
      PROVE SecretNamesItsDevice'
  <2>1. row' = row /\ owner' = owner
    BY <1>6 DEF FindDeviceByID, Respond, RejectTTL, HandlerFails, MarkTokensRevokedByDeviceID,
       IsDeviceActive, FinishAuthorized, db, history
  <2>2. End(r) \/ (\E pc \in Pc : Step(r, pc))
    BY <1>6 DEF FindDeviceByID, Respond, RejectTTL, HandlerFails, MarkTokensRevokedByDeviceID,
       IsDeviceActive, FinishAuthorized, Pc
  <2> QED
    BY <1>1, <2>1, <2>2, StepEffect, EndEffect, SecretFrame
<1>7. ASSUME NEW r \in Request, NEW d, RevokeDevice(r, d) PROVE SecretNamesItsDevice'
  <2>0. req' = [req EXCEPT ![r] = Running("revoke", "mark", d, None)]
    BY <1>7 DEF RevokeDevice
  <2>1. Others(r) /\ req'[r].secret = None
    BY <1>1, <2>0, StartEffect
  <2>2. \A x \in Device : row'[x].secret = row[x].secret
    BY <1>1, <1>7 DEF RevokeDevice, Revoked, Row
  <2> QED
    BY <1>7, <2>1, <2>2, SecretFrame DEF RevokeDevice
<1>8. ASSUME NEW r \in Request,
             \/ PresentToken(r) \/ CliEnsureWithID(r) \/ CliReuseByName(r)
      PROVE SecretNamesItsDevice'
  <2>1. row' = row /\ owner' = owner
    BY <1>8 DEF PresentToken, CliEnsureWithID, CliReuseByName, db, history
  <2>2. PICK op, pc, d : req' = [req EXCEPT ![r] = Running(op, pc, d, None)]
    BY <1>8 DEF PresentToken, CliEnsureWithID, CliReuseByName
  <2>3. Others(r) /\ req'[r].secret = None
    BY <1>1, <2>2, StartEffect
  <2> QED
    BY <2>1, <2>3, SecretFrame
<1>9. ASSUME NEW r \in Request, RenameDevice(r) PROVE SecretNamesItsDevice'
  <2>1. \A x \in Device : row'[x].secret = row[x].secret
    BY <1>1, <1>9 DEF RenameDevice, Renamed, Row
  <2> QED
    BY <1>1, <1>9, <2>1, EndEffect, SecretFrame DEF RenameDevice, history
<1>10. ASSUME NEW r \in Request, CliInsert(r) \/ CliInsertFresh(r) PROVE SecretNamesItsDevice'
  <2>1. \A x \in Device : row'[x].secret \in {row[x].secret, Placeholder}
    BY <1>1, <1>10 DEF CliInsert, CliInsertFresh, InsertRow, ActiveRow
  <2>2. \/ End(r) \/ Step(r, "reread")
        \/ \E d \in Device : req' = [req EXCEPT ![r] = Running("cli", "reread", d, None)]
    BY <1>10 DEF CliInsert, CliInsertFresh
  <2>3. /\ Others(r)
        /\ \/ req'[r].secret = None
           \/ req'[r].secret = req[r].secret /\ req'[r].device = req[r].device
    <3>1. CASE End(r)
      BY <1>1, <3>1, EndEffect
    <3>2. CASE Step(r, "reread")
      BY <1>1, <3>2, StepEffect
    <3>3. ASSUME NEW d \in Device, req' = [req EXCEPT ![r] = Running("cli", "reread", d, None)]
          PROVE  Others(r) /\ req'[r].secret = None
      BY <1>1, <3>3, StartEffect
    <3> QED
      BY <2>2, <3>1, <3>2, <3>3
  <2>4. owner' = owner
    BY <1>10 DEF CliInsert, CliInsertFresh
  <2> QED
    BY <2>1, <2>3, <2>4, SecretFrame
<1>11. CASE DeleteRevokedDevicesOlderThan
  BY <1>11, NoneIsNoSecret DEF SecretNamesItsDevice, DeleteRevokedDevicesOlderThan, NoRow, history
<1>12. CASE ServerRestart
  BY <1>1, <1>12, NoneIsNoSecret DEF SecretNamesItsDevice, ServerRestart, Idle, db
<1>13. CASE DeleteTokenAuditIssuedOlderThan \/ Tick \/ UNCHANGED vars
  BY <1>13 DEF SecretNamesItsDevice, DeleteTokenAuditIssuedOlderThan, Tick, vars, db, history
<1> QED
  BY <1>2, <1>3, <1>4, <1>5, <1>6, <1>7, <1>8, <1>9, <1>10, <1>11, <1>12, <1>13
     DEF Next, HandlerStep, AdminRevokeDevice, AppLogout, AppDeleteDevice

\* No two devices ever share a device token, and a refresh that read its row before
\* a rotation or a revocation still works for the device that token was made for.
THEOREM SecretNamesItsDeviceAlways == Spec => []SecretNamesItsDevice
BY InitTypeInv, NextTypeInv, InitSecretInv, NextSecretInv, PTL DEF Spec

-----------------------------------------------------------------------------
(***************************************************************************)
(* Revocation.  A device the server made is inserted once and never made   *)
(* ACTIVE again; what follows is stated of devices outside CliDevices.     *)
(* Gone is the stable fact the handlers' later steps rest on.              *)
(***************************************************************************)
Gone(d) == d \in born /\ ~IsActive(d)

RowsInv ==
    \A d \in Device :
        /\ row[d].status # "absent" => d \in born
        /\ row[d].status = "REVOKED" => d \in revokedOnce
        /\ d \in revokedOnce => d \in CliDevices \/ Gone(d)

\* A handler that started after its device's revocation is at the bearer check, is
\* itself a revocation, or works for a CLI device.
LateInv ==
    \A r \in Request :
        /\ req[r].late => req[r].device \in revokedOnce
        /\ req[r].late => req[r].pc \in {"isActive", "mark"} \/ req[r].device \in CliDevices
        /\ req[r].pc = "insert" => req[r].device \in CliDevices

RevocationInv == RowsInv /\ LateInv

LEMMA InitRevocationInv == Init => RevocationInv
BY DEF Init, RevocationInv, RowsInv, LateInv, NoRow, Idle

LEMMA NextRowsInv == TypeInv /\ RevocationInv /\ [Next]_vars => RowsInv'
<1> SUFFICES ASSUME TypeInv, RevocationInv, [Next]_vars PROVE RowsInv'
  OBVIOUS
<1> USE DEF RowsInv, Gone, IsActive, TypeInv, TypeOK
<1>1. RowsInv
  BY DEF RevocationInv
<1>2. ASSUME NEW r \in Request, CreateDevice(r) PROVE RowsInv'
  BY <1>1, <1>2 DEF CreateDevice, FreshDevice, InsertRow, ActiveRow
<1>3. ASSUME NEW r \in Request, RotateDeviceToken(r) PROVE RowsInv'
  BY <1>1, <1>3 DEF RotateDeviceToken, Rotated
<1>4. ASSUME NEW r \in Request,
             \/ AdminRevokeDevice(r) \/ AppLogout(r) \/ AppDeleteDevice(r)
      PROVE RowsInv'
  <2>1. KnownDevices \subseteq Device
    BY DeviceTokensAssumption DEF KnownDevices
  <2>2. At(r, "authorized") => req[r].device \in Device
    BY DEF At, HandlersOK, HandlerOK, Idle
  <2>3. PICK d \in Device : RevokeDevice(r, d)
    BY <1>4, <2>1, <2>2 DEF AdminRevokeDevice, AppLogout, AppDeleteDevice
  <2> QED
    BY <1>1, <2>3 DEF RevokeDevice, Revoked, Row
<1>5. ASSUME NEW r \in Request, RenameDevice(r) PROVE RowsInv'
  BY <1>1, <1>5 DEF RenameDevice, Renamed, history
<1>6. ASSUME NEW r \in Request, CliInsert(r) \/ CliInsertFresh(r) PROVE RowsInv'
  BY <1>1, <1>6 DEF RevocationInv, LateInv, CliInsert, CliInsertFresh, FreshDevice, At,
     InsertRow, ActiveRow
<1>7. CASE DeleteRevokedDevicesOlderThan
  BY <1>1, <1>7 DEF DeleteRevokedDevicesOlderThan, NoRow, history
<1>8. CASE UNCHANGED <<row, born, revokedOnce>>
  BY <1>1, <1>8
<1>9. ASSUME NEW r \in Request, HandlerStep(r),
             ~CreateDevice(r), ~RotateDeviceToken(r), ~AdminRevokeDevice(r), ~AppLogout(r),
             ~AppDeleteDevice(r), ~RenameDevice(r), ~CliInsert(r), ~CliInsertFresh(r)
      PROVE UNCHANGED <<row, born, revokedOnce>>
  BY <1>9 DEF HandlerStep, FindDeviceByID, Sign, RecordTokenAudit, Respond, StartRefresh,
     TouchDevice, RejectTTL, MarkTokensRevokedByDeviceID, PresentToken, IsDeviceActive,
     FinishAuthorized, CliEnsureWithID, CliReuseByName, HandlerFails, AuditFails, db, history
<1>10. CASE DeleteTokenAuditIssuedOlderThan \/ ServerRestart \/ Tick \/ UNCHANGED vars
  BY <1>8, <1>10 DEF DeleteTokenAuditIssuedOlderThan, ServerRestart, Tick, vars, db, history
<1> QED
  BY <1>2, <1>3, <1>4, <1>5, <1>6, <1>7, <1>8, <1>9, <1>10 DEF Next

LEMMA LateFrame ==
    ASSUME LateInv, NEW r \in Request, Others(r), revokedOnce \subseteq revokedOnce',
           req'[r].late => req'[r].device \in revokedOnce,
           req'[r].late => req'[r].pc \in {"isActive", "mark"} \/ req'[r].device \in CliDevices,
           req'[r].pc = "insert" => req'[r].device \in CliDevices
    PROVE  LateInv'
BY DEF LateInv, Others

LEMMA NextLateInv == TypeInv /\ RevocationInv /\ [Next]_vars => LateInv'
<1> SUFFICES ASSUME TypeInv, RevocationInv, [Next]_vars PROVE LateInv'
  OBVIOUS
<1>1. revokedOnce \subseteq revokedOnce'
  BY DEF Next, HandlerStep, CreateDevice, FindDeviceByID, Sign, RecordTokenAudit, Respond,
     StartRefresh, RotateDeviceToken, TouchDevice, RejectTTL, MarkTokensRevokedByDeviceID,
     AdminRevokeDevice, AppLogout, AppDeleteDevice, RevokeDevice, PresentToken, IsDeviceActive,
     RenameDevice, FinishAuthorized, CliEnsureWithID, CliInsert, CliReuseByName,
     CliInsertFresh, HandlerFails, AuditFails, DeleteRevokedDevicesOlderThan,
     DeleteTokenAuditIssuedOlderThan, ServerRestart, Tick, vars, db, history
<1>2. HandlersOK /\ LateInv /\ RowsInv
  BY DEF TypeInv, RevocationInv
<1>3. ASSUME NEW r \in Request, NEW op, NEW pc, NEW d, NEW s,
             req' = [req EXCEPT ![r] = Running(op, pc, d, s)],
             d \in revokedOnce => pc \in {"isActive", "mark"} \/ d \in CliDevices,
             pc = "insert" => d \in CliDevices
      PROVE LateInv'
  <2>1. /\ Others(r) /\ req'[r].pc = pc /\ req'[r].device = d
        /\ req'[r].late <=> d \in revokedOnce
    BY <1>2, <1>3, StartEffect
  <2> QED
    BY <1>1, <1>2, <1>3, <2>1, LateFrame
<1>4. ASSUME NEW r \in Request, NEW pc \in Pc \ {"insert"}, Step(r, pc),
             req[r].late => req[r].device \in CliDevices
      PROVE LateInv'
  <2>1. /\ Others(r) /\ req'[r].pc = pc /\ req'[r].device = req[r].device
        /\ req'[r].late = req[r].late
    BY <1>2, <1>4, StepEffect
  <2>2. req[r].late => req[r].device \in revokedOnce
    BY <1>2 DEF LateInv
  <2> QED
    BY <1>1, <1>2, <1>4, <2>1, <2>2, LateFrame
<1>5. ASSUME NEW r \in Request, End(r) PROVE LateInv'
  BY <1>1, <1>2, <1>5, EndEffect, LateFrame
<1>6. ASSUME NEW r \in Request, CreateDevice(r) \/ CliInsertFresh(r) PROVE LateInv'
  <2>1. PICK op \in {"session", "cli"}, d \in Device, s \in Secret \cup {None} :
          /\ FreshDevice(d)
          /\ req' = [req EXCEPT ![r] = Running(op, "reread", d, s)]
    BY <1>6 DEF CreateDevice, CliInsertFresh
  <2>2. d \notin revokedOnce
    BY <1>2, <2>1 DEF FreshDevice, RowsInv, Gone
  <2> QED
    BY <1>3, <2>1, <2>2
<1>7. ASSUME NEW r \in Request, StartRefresh(r) \/ CliReuseByName(r) PROVE LateInv'
  <2>1. PICK op \in {"refresh", "cli"}, pc \in {"rotate", "reread"}, d \in Device,
              s \in heldSecrets \cup {None} :
          IsActive(d) /\ req' = [req EXCEPT ![r] = Running(op, pc, d, s)]
    BY <1>7 DEF StartRefresh, CliReuseByName, FindActiveDeviceByToken
  <2>2. d \in revokedOnce => d \in CliDevices
    BY <1>2, <2>1 DEF RowsInv, Gone
  <2> QED
    BY <1>3, <2>1, <2>2
<1>8. ASSUME NEW r \in Request, PresentToken(r) PROVE LateInv'
  <2>1. PICK t \in heldTokens : req' = [req EXCEPT ![r] = Running("auth", "isActive", t.device, None)]
    BY <1>8 DEF PresentToken
  <2>2. /\ Others(r) /\ req'[r].pc = "isActive"
        /\ req'[r].late <=> req'[r].device \in revokedOnce
    BY <1>2, <2>1, StartEffect
  <2> QED
    BY <1>1, <1>2, <2>2, LateFrame
<1>9. ASSUME NEW r \in Request, CliEnsureWithID(r) PROVE LateInv'
  <2>1. PICK d \in CliDevices, pc \in {"reread", "insert"} :
          req' = [req EXCEPT ![r] = Running("cli", pc, d, None)]
    BY <1>9 DEF CliEnsureWithID
  <2> QED
    BY <1>3, <2>1
<1>10. ASSUME NEW r \in Request, NEW d, RevokeDevice(r, d) PROVE LateInv'
  <2>1. req' = [req EXCEPT ![r] = Running("revoke", "mark", d, None)]
    BY <1>10 DEF RevokeDevice
  <2>2. /\ Others(r) /\ req'[r].pc = "mark"
        /\ req'[r].late <=> req'[r].device \in revokedOnce
    BY <1>2, <2>1, StartEffect
  <2> QED
    BY <1>1, <1>2, <2>2, LateFrame
<1>11. ASSUME NEW r \in Request, IsDeviceActive(r) PROVE LateInv'
  <2>1. CASE IsActive(req[r].device)
    <3>1. req[r].device \in Device
      BY <1>2, <1>11 DEF IsDeviceActive, At, HandlersOK, HandlerOK, Idle
    <3>2. req[r].late => req[r].device \in CliDevices
      BY <1>2, <2>1, <3>1 DEF RowsInv, LateInv, Gone
    <3>3. Step(r, "authorized") /\ "authorized" \in Pc \ {"insert"}
      BY <1>11, <2>1 DEF IsDeviceActive, Accepts, Pc
    <3> QED
      BY <1>4, <3>2, <3>3
  <2>2. CASE ~IsActive(req[r].device)
    BY <1>5, <1>11, <2>2 DEF IsDeviceActive, Accepts
  <2> QED
    BY <2>1, <2>2
<1>12. ASSUME NEW r \in Request,
              \/ Respond(r) \/ RejectTTL(r) \/ HandlerFails(r) \/ RenameDevice(r)
              \/ MarkTokensRevokedByDeviceID(r) \/ FinishAuthorized(r)
       PROVE LateInv'
  BY <1>5, <1>12 DEF Respond, RejectTTL, HandlerFails, FinishAuthorized,
     MarkTokensRevokedByDeviceID, RenameDevice
<1>13. ASSUME NEW r \in Request,
              \/ FindDeviceByID(r) \/ CliInsert(r)
              \/ RecordTokenAudit(r) \/ TouchDevice(r) \/ AuditFails(r)
       PROVE LateInv'
  <2>1. req[r].pc \notin {"isActive", "mark"}
    BY <1>13 DEF FindDeviceByID, CliInsert, RecordTokenAudit, TouchDevice, AuditFails, At
  <2>2. End(r) \/ \E pc \in Pc \ {"insert"} : Step(r, pc)
    BY <1>13 DEF FindDeviceByID, CliInsert, RecordTokenAudit, TouchDevice, AuditFails, Pc
  <2>3. req[r].late => req[r].device \in CliDevices
    BY <1>2, <2>1 DEF LateInv
  <2> QED
    BY <1>4, <1>5, <2>2, <2>3
<1>14. ASSUME NEW r \in Request, Sign(r) \/ RotateDeviceToken(r) PROVE LateInv'
  <2>1. req[r] \in Handler
    BY <1>2 DEF HandlersOK
  <2>2. /\ Others(r)
        /\ req'[r].pc \in {"record", "sign"}
        /\ req'[r].device = req[r].device /\ req'[r].late = req[r].late
    BY <1>2, <1>14, <2>1 DEF Sign, RotateDeviceToken, HandlersOK, Handler, Others
  <2>3. req[r].pc \notin {"isActive", "mark"}
    BY <1>14 DEF Sign, RotateDeviceToken, At
  <2>4. /\ req[r].late => req[r].device \in revokedOnce
        /\ req[r].late => req[r].device \in CliDevices
    BY <1>2, <2>3 DEF LateInv
  <2> QED
    BY <1>1, <1>2, <2>2, <2>4, LateFrame
<1>15. CASE ServerRestart
  BY <1>1, <1>2, <1>15 DEF LateInv, ServerRestart, Idle
<1>16. CASE DeleteRevokedDevicesOlderThan \/ DeleteTokenAuditIssuedOlderThan \/ Tick
            \/ UNCHANGED vars
  <2>1. UNCHANGED req
    BY <1>16 DEF DeleteRevokedDevicesOlderThan, DeleteTokenAuditIssuedOlderThan, Tick, vars
  <2> QED
    BY <1>1, <1>2, <2>1 DEF LateInv
<1> QED
  BY <1>6, <1>7, <1>8, <1>9, <1>10, <1>11, <1>12, <1>13, <1>14, <1>15, <1>16
     DEF Next, HandlerStep, AdminRevokeDevice, AppLogout, AppDeleteDevice

LEMMA RevocationInvAlways == Spec => [](TypeInv /\ RevocationInv)
<1>1. TypeInv /\ RevocationInv /\ [Next]_vars => RevocationInv'
  BY NextRowsInv, NextLateInv DEF RevocationInv
<1> QED
  BY <1>1, InitTypeInv, NextTypeInv, InitRevocationInv, PTL DEF Spec

\* What starts after a device's revocation is refused, whatever was in flight then.
THEOREM NothingGrantedAfterRevokeAlways == Spec => []NothingGrantedAfterRevoke
<1>1. TypeInv /\ RevocationInv => NothingGrantedAfterRevoke
  BY DEF RevocationInv, LateInv, NothingGrantedAfterRevoke
<1> QED
  BY <1>1, RevocationInvAlways, PTL

\* No statement turns a REVOKED row ACTIVE in place, whatever its handler read before.
THEOREM RevokedIsFinalAlways == Spec => RevokedIsFinal
<1> DEFINE Stays == \A d \in Device : row[d].status = "REVOKED" => row'[d].status # "ACTIVE"
<1>1. TypeInv /\ RevocationInv /\ [Next]_vars => [Stays]_vars
  <2> SUFFICES ASSUME TypeInv, RevocationInv, Next PROVE Stays
    BY DEF vars
  <2>1. row \in [Device -> Row] /\ \A d \in Device : row[d].status # "absent" => d \in born
    BY DEF TypeInv, TypeOK, RevocationInv, RowsInv
  <2>2. ASSUME NEW r \in Request, CreateDevice(r) \/ CliInsertFresh(r) PROVE Stays
    BY <2>1, <2>2 DEF CreateDevice, CliInsertFresh, FreshDevice, InsertRow, ActiveRow
  <2>3. ASSUME NEW r \in Request, RotateDeviceToken(r) PROVE Stays
    BY <2>1, <2>3 DEF RotateDeviceToken, Rotated, IsActive, Row
  <2>4. ASSUME NEW r \in Request, NEW d, RevokeDevice(r, d) PROVE Stays
    BY <2>1, <2>4 DEF RevokeDevice, Revoked, IsActive, Row
  <2>5. ASSUME NEW r \in Request, RenameDevice(r) PROVE Stays
    BY <2>1, <2>5 DEF RenameDevice, Renamed, Row
  <2>6. ASSUME NEW r \in Request, CliInsert(r) PROVE Stays
    BY <2>1, <2>6 DEF CliInsert, PrimaryKeyAllows, InsertRow, ActiveRow
  <2>7. CASE DeleteRevokedDevicesOlderThan
    BY <2>1, <2>7 DEF DeleteRevokedDevicesOlderThan, NoRow
  <2>8. CASE UNCHANGED row
    BY <2>8
  <2>9. ASSUME NEW r \in Request,
               \/ FindDeviceByID(r) \/ Sign(r) \/ RecordTokenAudit(r) \/ Respond(r)
               \/ StartRefresh(r) \/ TouchDevice(r) \/ RejectTTL(r)
               \/ MarkTokensRevokedByDeviceID(r) \/ PresentToken(r) \/ IsDeviceActive(r)
               \/ FinishAuthorized(r) \/ CliEnsureWithID(r) \/ CliReuseByName(r)
               \/ HandlerFails(r) \/ AuditFails(r)
        PROVE UNCHANGED row
    BY <2>9 DEF FindDeviceByID, Sign, RecordTokenAudit, Respond, StartRefresh, TouchDevice,
       RejectTTL, MarkTokensRevokedByDeviceID, PresentToken, IsDeviceActive, FinishAuthorized,
       CliEnsureWithID, CliReuseByName, HandlerFails, AuditFails, db
  <2>10. CASE DeleteTokenAuditIssuedOlderThan \/ ServerRestart \/ Tick
    BY <2>8, <2>10 DEF DeleteTokenAuditIssuedOlderThan, ServerRestart, Tick, db
  <2> QED
    BY <2>2, <2>3, <2>4, <2>5, <2>6, <2>7, <2>8, <2>9, <2>10
       DEF Next, HandlerStep, AdminRevokeDevice, AppLogout, AppDeleteDevice
<1> QED
  BY <1>1, RevocationInvAlways, PTL DEF Spec, RevokedIsFinal

-----------------------------------------------------------------------------
(***************************************************************************)
(* The audit list.  A token is in it before a client has it, and is marked *)
(* there only for a device that no longer works.                           *)
(***************************************************************************)
\* What a handler step does to its own locals, and to nobody else's.
LEMMA HandlerEffect ==
    ASSUME TypeInv, NEW r \in Request, HandlerStep(r)
    PROVE  /\ Others(r)
           /\ req'[r].pc = "respond" => RecordTokenAudit(r) \/ AuditFails(r)
           /\ req'[r].pc = "record" => Sign(r)
           /\ req'[r].pc = "mark" => AdminRevokeDevice(r) \/ AppLogout(r) \/ AppDeleteDevice(r)
<1>1. HandlersOK /\ req[r] \in Handler
  BY DEF TypeInv, HandlersOK
<1> DEFINE Goal == /\ Others(r)
                   /\ req'[r].pc \notin {"respond", "record", "mark"}
<1>2. ASSUME NEW op, NEW pc \in {"rotate", "insert", "reread", "isActive"}, NEW d, NEW s,
             req' = [req EXCEPT ![r] = Running(op, pc, d, s)]
      PROVE  Goal
  BY <1>1, <1>2, StartEffect
<1>3. ASSUME End(r) PROVE Goal
  BY <1>1, <1>3, EndEffect
<1>4. ASSUME NEW pc \in {"sign", "reread", "authorized"}, Step(r, pc) PROVE Goal
  BY <1>1, <1>4, StepEffect
<1>5. CASE CreateDevice(r) \/ StartRefresh(r) \/ PresentToken(r)
           \/ CliEnsureWithID(r) \/ CliReuseByName(r) \/ CliInsertFresh(r)
  BY <1>2, <1>5 DEF CreateDevice, StartRefresh, PresentToken, CliEnsureWithID, CliReuseByName,
     CliInsertFresh
<1>6. CASE FindDeviceByID(r) \/ TouchDevice(r) \/ IsDeviceActive(r) \/ CliInsert(r)
  BY <1>3, <1>4, <1>6 DEF FindDeviceByID, TouchDevice, IsDeviceActive, CliInsert
<1>7. CASE Respond(r) \/ RejectTTL(r) \/ MarkTokensRevokedByDeviceID(r) \/ RenameDevice(r)
           \/ FinishAuthorized(r) \/ HandlerFails(r)
  BY <1>3, <1>7 DEF Respond, RejectTTL, MarkTokensRevokedByDeviceID, RenameDevice,
     FinishAuthorized, HandlerFails
<1>8. CASE RecordTokenAudit(r) \/ AuditFails(r)
  <2>1. Step(r, "respond")
    BY <1>8 DEF RecordTokenAudit, AuditFails
  <2> QED
    BY <1>1, <1>8, <2>1, StepEffect
<1>9. CASE Sign(r) \/ RotateDeviceToken(r)
  BY <1>1, <1>9 DEF Sign, RotateDeviceToken, HandlersOK, Handler, Others
<1>10. ASSUME NEW d \in Device, RevokeDevice(r, d)
       PROVE  Others(r) /\ req'[r].pc = "mark"
  BY <1>1, <1>10, StartEffect DEF RevokeDevice
<1>11. CASE AdminRevokeDevice(r) \/ AppLogout(r) \/ AppDeleteDevice(r)
  <2>1. KnownDevices \subseteq Device
    BY DeviceTokensAssumption DEF KnownDevices, TypeInv, TypeOK
  <2>2. At(r, "authorized") => req[r].device \in Device
    BY <1>1 DEF At, HandlersOK, HandlerOK, Idle
  <2>3. PICK d \in Device : RevokeDevice(r, d)
    BY <1>11, <2>1, <2>2 DEF AdminRevokeDevice, AppLogout, AppDeleteDevice
  <2> QED
    BY <1>10, <1>11, <2>3
<1> QED
  BY <1>5, <1>6, <1>7, <1>8, <1>9, <1>11 DEF HandlerStep

\* A missing record is a failed one or an old one.
Listed(t) == audit[t] = "none" => StoreFails \/ t.iat + Retention < now

ListedInv ==
    /\ \A t \in heldTokens : Listed(t)
    /\ \A r \in Request : At(r, "respond") => Listed(req[r].token)

LEMMA NextListed == TypeInv /\ ListedInv /\ [Next]_vars => ListedInv'
<1> SUFFICES ASSUME TypeInv, ListedInv, [Next]_vars PROVE ListedInv'
  OBVIOUS
<1>1. /\ HandlersOK /\ heldTokens \subseteq Token /\ now \in Nat /\ Retention \in Nat
      /\ audit \in [Token -> {"none", "active", "revoked"}]
      /\ \A r \in Request : req[r].pc \in {"record", "respond"} => req[r].token \in Token
      /\ \A t \in Token : t.iat \in Nat
  BY DeviceTokensAssumption DEF TypeInv, TypeOK, HandlersOK, HandlerOK, Token, Time
\* Only the cleanup takes tokens off the list.
<1>2. \A t \in Token : Listed(t) => Listed(t)'
  <2> SUFFICES ASSUME NEW t \in Token, Listed(t) PROVE Listed(t)'
    OBVIOUS
  <2>1. CASE DeleteTokenAuditIssuedOlderThan
    BY <1>1, <2>1 DEF DeleteTokenAuditIssuedOlderThan, OlderThanRetention, Listed
  <2>2. CASE Tick
    BY <1>1, <2>2 DEF Tick, db, Listed
  <2>3. CASE UNCHANGED <<audit, now>>
    BY <2>3 DEF Listed
  <2>4. ASSUME NEW r \in Request, RecordTokenAudit(r) PROVE Listed(t)'
    BY <1>1, <2>4 DEF RecordTokenAudit, Recorded, Listed
  <2>5. ASSUME NEW r \in Request, MarkTokensRevokedByDeviceID(r) PROVE Listed(t)'
    BY <1>1, <2>5 DEF MarkTokensRevokedByDeviceID, MarkedRevoked, Listed
  <2>6. ASSUME NEW r \in Request, HandlerStep(r),
               ~RecordTokenAudit(r), ~MarkTokensRevokedByDeviceID(r)
        PROVE  UNCHANGED <<audit, now>>
    BY <2>6 DEF HandlerStep, CreateDevice, FindDeviceByID, Sign, Respond, StartRefresh,
       RotateDeviceToken, TouchDevice, RejectTTL, AdminRevokeDevice, AppLogout, AppDeleteDevice,
       RevokeDevice, PresentToken, IsDeviceActive, RenameDevice, FinishAuthorized,
       CliEnsureWithID, CliInsert, CliReuseByName, CliInsertFresh, HandlerFails, AuditFails, db
  <2>7. CASE DeleteRevokedDevicesOlderThan \/ ServerRestart \/ UNCHANGED vars
    BY <2>3, <2>7 DEF DeleteRevokedDevicesOlderThan, ServerRestart, vars, db
  <2> QED
    BY <2>1, <2>2, <2>3, <2>4, <2>5, <2>6, <2>7 DEF Next
<1>3. ASSUME UNCHANGED heldTokens,
             \A r \in Request : req'[r].pc = "respond" => req'[r] = req[r]
      PROVE  ListedInv'
  BY <1>1, <1>2, <1>3 DEF ListedInv, At
<1>4. ASSUME NEW r \in Request, RecordTokenAudit(r) \/ AuditFails(r) PROVE ListedInv'
  <2>1. Others(r) /\ req'[r].token = req[r].token /\ req[r].token \in Token
    BY <1>1, <1>4, StepEffect DEF RecordTokenAudit, AuditFails, At
  <2>2. Listed(req[r].token)'
    <3> PICK t \in Token : t = req[r].token /\ req'[r].token = t
      BY <2>1
    <3>1. CASE RecordTokenAudit(r)
      <4>1. audit'[t] # "none"
        BY <1>1, <3>1 DEF RecordTokenAudit, Recorded
      <4> QED
        BY <4>1 DEF Listed
    <3>2. CASE AuditFails(r)
      BY <3>2 DEF AuditFails, Listed
    <3> QED
      BY <1>4, <3>1, <3>2
  <2>3. UNCHANGED heldTokens
    BY <1>4 DEF RecordTokenAudit, AuditFails, clients
  <2> QED
    BY <1>1, <1>2, <2>1, <2>2, <2>3 DEF ListedInv, At, Others
<1>5. ASSUME NEW r \in Request, Respond(r) PROVE ListedInv'
  <2>1. Others(r) /\ req'[r].pc = "idle"
    BY <1>1, <1>5, EndEffect DEF Respond
  <2>2. heldTokens' = heldTokens \cup {req[r].token} /\ req[r].token \in Token
        /\ Listed(req[r].token)
    BY <1>1, <1>5 DEF Respond, At, ListedInv
  <2> QED
    BY <1>1, <1>2, <2>1, <2>2 DEF ListedInv, At, Others
<1>6. ASSUME NEW r \in Request, HandlerStep(r),
             ~RecordTokenAudit(r), ~AuditFails(r), ~Respond(r)
      PROVE  ListedInv'
  <2>1. UNCHANGED heldTokens
    BY <1>6 DEF HandlerStep, CreateDevice, FindDeviceByID, Sign, StartRefresh,
       RotateDeviceToken, TouchDevice, RejectTTL, AdminRevokeDevice, AppLogout, AppDeleteDevice,
       RevokeDevice, MarkTokensRevokedByDeviceID, PresentToken, IsDeviceActive, RenameDevice,
       FinishAuthorized, CliEnsureWithID, CliInsert, CliReuseByName, CliInsertFresh,
       HandlerFails, clients
  <2>2. Others(r) /\ req'[r].pc # "respond"
    BY <1>6, HandlerEffect
  <2> QED
    BY <1>3, <2>1, <2>2 DEF Others
<1>7. CASE ServerRestart
  BY <1>1, <1>3, <1>7 DEF ServerRestart, clients, Idle
<1>8. CASE DeleteRevokedDevicesOlderThan \/ DeleteTokenAuditIssuedOlderThan \/ Tick
           \/ UNCHANGED vars
  BY <1>3, <1>8 DEF DeleteRevokedDevicesOlderThan, DeleteTokenAuditIssuedOlderThan, Tick, vars,
     clients
<1> QED
  BY <1>4, <1>5, <1>6, <1>7, <1>8 DEF Next

\* A token a client holds is in the audit list until retention has passed, unless the
\* statement that records it may fail.
THEOREM HeldTokensAreListed == Spec => []HeldTokensWereAudited
<1>1. Init => ListedInv
  BY DEF Init, ListedInv, At, Idle
<1>2. ListedInv => HeldTokensWereAudited
  BY DEF ListedInv, Listed, HeldTokensWereAudited
<1> QED
  BY <1>1, <1>2, InitTypeInv, NextTypeInv, NextListed, PTL DEF Spec

\* Whoever works for a device works for one that was inserted or is the operator's.
KnownInv ==
    /\ \A r \in Request :
        /\ req[r].pc # "idle" => req[r].device \in KnownDevices
        /\ req[r].pc \in {"record", "respond"} => req[r].token.device = req[r].device
    /\ \A t \in heldTokens : t.device \in KnownDevices

LEMMA KnownFrame ==
    ASSUME KnownInv, NEW r \in Request, Others(r), KnownDevices \subseteq KnownDevices',
           UNCHANGED heldTokens,
           req'[r].pc # "idle" => req'[r].device \in KnownDevices',
           req'[r].pc \in {"record", "respond"} => req'[r].token.device = req'[r].device
    PROVE  KnownInv'
BY DEF KnownInv, Others

LEMMA NextKnown == TypeInv /\ RowsInv /\ KnownInv /\ [Next]_vars => KnownInv'
<1> SUFFICES ASSUME TypeInv, RowsInv, KnownInv, [Next]_vars PROVE KnownInv'
  OBVIOUS
<1>1. /\ HandlersOK /\ CliDevices \subseteq KnownDevices
      /\ \A d \in Device : IsActive(d) => d \in KnownDevices
      /\ \A r \in Request : req[r].pc # "idle" => req[r].device \in KnownDevices
      /\ \A r \in Request :
            req[r].pc \in {"record", "respond"} => req[r].token.device = req[r].device
  BY DEF TypeInv, RowsInv, KnownInv, KnownDevices, IsActive
<1>2. born \subseteq born'
  BY DEF Next, HandlerStep, CreateDevice, FindDeviceByID, Sign, RecordTokenAudit, Respond,
     StartRefresh, RotateDeviceToken, TouchDevice, RejectTTL, MarkTokensRevokedByDeviceID,
     AdminRevokeDevice, AppLogout, AppDeleteDevice, RevokeDevice, PresentToken, IsDeviceActive,
     RenameDevice, FinishAuthorized, CliEnsureWithID, CliInsert, CliReuseByName,
     CliInsertFresh, HandlerFails, AuditFails, DeleteRevokedDevicesOlderThan,
     DeleteTokenAuditIssuedOlderThan, ServerRestart, Tick, vars, history, InsertRow
<1>3. KnownDevices \subseteq KnownDevices'
  BY <1>2 DEF KnownDevices
<1>4. ASSUME NEW r \in Request, UNCHANGED heldTokens, NEW op,
             NEW pc \in {"rotate", "insert", "reread", "isActive", "mark"}, NEW s,
             NEW d, d \in KnownDevices', req' = [req EXCEPT ![r] = Running(op, pc, d, s)]
      PROVE  KnownInv'
  <2>1. Others(r) /\ req'[r].pc = pc /\ req'[r].device = d
    <3>1. HandlersOK /\ req' = [req EXCEPT ![r] = Running(op, pc, d, s)]
      BY <1>1, <1>4
    <3> QED
      BY <3>1, StartEffect
  <2> QED
    BY <1>3, <1>4, <2>1, KnownFrame
<1>5. ASSUME NEW r \in Request, UNCHANGED heldTokens, End(r) PROVE KnownInv'
  BY <1>1, <1>3, <1>5, EndEffect, KnownFrame
<1>6. ASSUME NEW r \in Request, UNCHANGED heldTokens, req[r].pc # "idle", NEW pc, Step(r, pc),
             pc = "record" \/ (pc = "respond" => req[r].pc = "record"), pc # "record"
      PROVE  KnownInv'
  <2>1. /\ Others(r) /\ req'[r].pc = pc /\ req'[r].device = req[r].device
        /\ req'[r].token = req[r].token
    BY <1>1, <1>6, StepEffect
  <2> QED
    BY <1>1, <1>3, <1>6, <2>1, KnownFrame
<1>7. ASSUME NEW r \in Request, CreateDevice(r) \/ CliInsertFresh(r) PROVE KnownInv'
  <2>1. PICK op \in {"session", "cli"}, d \in Device, s \in Secret \cup {None} :
          /\ d \in born'
          /\ req' = [req EXCEPT ![r] = Running(op, "reread", d, s)]
    BY <1>7 DEF CreateDevice, CliInsertFresh, InsertRow
  <2>2. UNCHANGED heldTokens /\ d \in KnownDevices'
    BY <1>7, <2>1 DEF CreateDevice, CliInsertFresh, clients, KnownDevices
  <2> QED
    BY <1>4, <2>1, <2>2
<1>8. ASSUME NEW r \in Request, StartRefresh(r) \/ CliReuseByName(r) PROVE KnownInv'
  <2>1. PICK op \in {"refresh", "cli"}, pc \in {"rotate", "reread"}, d \in Device,
              s \in heldSecrets \cup {None} :
          IsActive(d) /\ req' = [req EXCEPT ![r] = Running(op, pc, d, s)]
    BY <1>8 DEF StartRefresh, CliReuseByName, FindActiveDeviceByToken
  <2>2. UNCHANGED heldTokens /\ d \in KnownDevices'
    BY <1>1, <1>3, <1>8, <2>1 DEF StartRefresh, CliReuseByName, clients
  <2> QED
    BY <1>4, <2>1, <2>2
<1>9. ASSUME NEW r \in Request, PresentToken(r) PROVE KnownInv'
  <2>1. PICK t \in heldTokens :
          req' = [req EXCEPT ![r] = Running("auth", "isActive", t.device, None)]
    BY <1>9 DEF PresentToken
  <2>2. UNCHANGED heldTokens /\ t.device \in KnownDevices'
    BY <1>3, <1>9 DEF PresentToken, clients, KnownInv
  <2> QED
    BY <1>4, <2>1, <2>2
<1>10. ASSUME NEW r \in Request, CliEnsureWithID(r) PROVE KnownInv'
  <2>1. PICK d \in CliDevices, pc \in {"reread", "insert"} :
          req' = [req EXCEPT ![r] = Running("cli", pc, d, None)]
    BY <1>10 DEF CliEnsureWithID
  <2>2. UNCHANGED heldTokens /\ d \in KnownDevices'
    BY <1>1, <1>3, <1>10 DEF CliEnsureWithID, clients
  <2> QED
    BY <1>4, <2>1, <2>2
<1>11. ASSUME NEW r \in Request, AdminRevokeDevice(r) \/ AppLogout(r) \/ AppDeleteDevice(r)
       PROVE  KnownInv'
  <2>1. PICK d \in KnownDevices : RevokeDevice(r, d)
    BY <1>1, <1>11 DEF AdminRevokeDevice, AppLogout, AppDeleteDevice, At
  <2>2. UNCHANGED heldTokens /\ d \in KnownDevices'
        /\ req' = [req EXCEPT ![r] = Running("revoke", "mark", d, None)]
    BY <1>3, <2>1 DEF RevokeDevice, clients
  <2> QED
    BY <1>4, <2>2
<1>12. ASSUME NEW r \in Request, FindDeviceByID(r) \/ TouchDevice(r) \/ IsDeviceActive(r)
                                 \/ CliInsert(r) \/ RecordTokenAudit(r) \/ AuditFails(r)
       PROVE  KnownInv'
  <2>1. UNCHANGED heldTokens /\ req[r].pc # "idle"
    BY <1>12 DEF FindDeviceByID, TouchDevice, IsDeviceActive, CliInsert, RecordTokenAudit,
       AuditFails, clients, At
  <2>2. \/ End(r)
        \/ \E pc \in {"sign", "authorized", "reread"} : Step(r, pc)
        \/ Step(r, "respond") /\ req[r].pc = "record"
    BY <1>12 DEF FindDeviceByID, TouchDevice, IsDeviceActive, CliInsert, RecordTokenAudit,
       AuditFails, At
  <2> QED
    BY <1>5, <1>6, <2>1, <2>2
<1>13. ASSUME NEW r \in Request, RejectTTL(r) \/ MarkTokensRevokedByDeviceID(r)
                                 \/ RenameDevice(r) \/ FinishAuthorized(r) \/ HandlerFails(r)
       PROVE  KnownInv'
  BY <1>5, <1>13 DEF RejectTTL, MarkTokensRevokedByDeviceID, RenameDevice, FinishAuthorized,
     HandlerFails, clients
<1>14. ASSUME NEW r \in Request, Sign(r) \/ RotateDeviceToken(r) PROVE KnownInv'
  <2>1. req[r] \in Handler /\ req[r].pc # "idle" /\ UNCHANGED heldTokens
    BY <1>1, <1>14 DEF HandlersOK, Sign, RotateDeviceToken, At, clients
  <2>2. /\ Others(r)
        /\ req'[r].device = req[r].device
        /\ \/ req'[r].pc = "sign"
           \/ req'[r].pc = "record" /\ req'[r].token.device = req[r].device
    BY <1>1, <1>14, <2>1 DEF Sign, RotateDeviceToken, HandlersOK, Handler, Others
  <2> QED
    BY <1>1, <1>3, <2>1, <2>2, KnownFrame
<1>15. ASSUME NEW r \in Request, Respond(r) PROVE KnownInv'
  <2>1. Others(r) /\ req'[r].pc = "idle"
    BY <1>1, <1>15, EndEffect DEF Respond
  <2>2. heldTokens' = heldTokens \cup {req[r].token} /\ req[r].token.device \in KnownDevices
    BY <1>1, <1>15 DEF Respond, At
  <2> QED
    BY <1>3, <2>1, <2>2 DEF KnownInv, Others
<1>16. CASE ServerRestart
  <2>1. UNCHANGED heldTokens /\ \A r \in Request : req'[r] \in {req[r], Idle}
    BY <1>16 DEF ServerRestart, clients
  <2> QED
    BY <1>3, <2>1 DEF KnownInv, Idle
<1>17. CASE DeleteRevokedDevicesOlderThan \/ DeleteTokenAuditIssuedOlderThan \/ Tick
            \/ UNCHANGED vars
  <2>1. UNCHANGED <<req, heldTokens>>
    BY <1>17 DEF DeleteRevokedDevicesOlderThan, DeleteTokenAuditIssuedOlderThan, Tick, vars,
       clients
  <2> QED
    BY <1>3, <2>1 DEF KnownInv
<1> QED
  BY <1>7, <1>8, <1>9, <1>10, <1>11, <1>12, <1>13, <1>14, <1>15, <1>16, <1>17
     DEF Next, HandlerStep

\* A device whose tokens are or will be marked does not work, for good.
Excused(d) == StoreFails \/ d \in CliDevices \/ Gone(d)

MarkedInv ==
    /\ \A t \in Token : audit[t] = "revoked" => Excused(t.device)
    /\ \A r \in Request : At(r, "mark") => Excused(req[r].device)

LEMMA ExcusedStays ==
    ASSUME TypeInv, RevocationInv, [Next]_vars, NEW d \in Device, Excused(d)
    PROVE  Excused(d)'
<1> SUFFICES ASSUME ~StoreFails, d \notin CliDevices, d \in born, row[d].status # "ACTIVE"
             PROVE  d \in born' /\ row'[d].status # "ACTIVE"
  BY DEF Excused, Gone, IsActive
<1>1. row \in [Device -> Row] /\ HandlersOK
  BY DEF TypeInv, TypeOK
<1>2. \A r \in Request : At(r, "insert") => req[r].device # d
  BY DEF RevocationInv, LateInv, At
<1>3. CASE UNCHANGED <<row, born>>
  BY <1>3
<1>4. ASSUME NEW r \in Request, CreateDevice(r) \/ CliInsertFresh(r)
      PROVE  d \in born' /\ row'[d].status # "ACTIVE"
  BY <1>1, <1>4 DEF CreateDevice, CliInsertFresh, FreshDevice, InsertRow
<1>5. ASSUME NEW r \in Request, CliInsert(r) PROVE d \in born' /\ row'[d].status # "ACTIVE"
  BY <1>1, <1>2, <1>5 DEF CliInsert, InsertRow
<1>6. ASSUME NEW r \in Request, RotateDeviceToken(r)
      PROVE  d \in born' /\ row'[d].status # "ACTIVE"
  BY <1>1, <1>6 DEF RotateDeviceToken, Rotated, IsActive, Row
<1>7. ASSUME NEW r \in Request, NEW c, RevokeDevice(r, c)
      PROVE  d \in born' /\ row'[d].status # "ACTIVE"
  BY <1>1, <1>7 DEF RevokeDevice, Revoked, IsActive, Row
<1>8. ASSUME NEW r \in Request, RenameDevice(r) PROVE d \in born' /\ row'[d].status # "ACTIVE"
  BY <1>1, <1>8 DEF RenameDevice, Renamed, Row, history
<1>9. CASE DeleteRevokedDevicesOlderThan
  BY <1>1, <1>9 DEF DeleteRevokedDevicesOlderThan, NoRow, history
<1>10. ASSUME NEW r \in Request,
              \/ FindDeviceByID(r) \/ Sign(r) \/ RecordTokenAudit(r) \/ Respond(r)
              \/ StartRefresh(r) \/ TouchDevice(r) \/ RejectTTL(r)
              \/ MarkTokensRevokedByDeviceID(r) \/ PresentToken(r) \/ IsDeviceActive(r)
              \/ FinishAuthorized(r) \/ CliEnsureWithID(r) \/ CliReuseByName(r)
              \/ HandlerFails(r) \/ AuditFails(r)
       PROVE  UNCHANGED <<row, born>>
  BY <1>10 DEF FindDeviceByID, Sign, RecordTokenAudit, Respond, StartRefresh, TouchDevice,
     RejectTTL, MarkTokensRevokedByDeviceID, PresentToken, IsDeviceActive, FinishAuthorized,
     CliEnsureWithID, CliReuseByName, HandlerFails, AuditFails, db, history
<1>11. CASE DeleteTokenAuditIssuedOlderThan \/ ServerRestart \/ Tick \/ UNCHANGED vars
  BY <1>3, <1>11 DEF DeleteTokenAuditIssuedOlderThan, ServerRestart, Tick, vars, db, history
<1> QED
  BY <1>3, <1>4, <1>5, <1>6, <1>7, <1>8, <1>9, <1>10, <1>11
     DEF Next, HandlerStep, AdminRevokeDevice, AppLogout, AppDeleteDevice

LEMMA NextMarked ==
    TypeInv /\ RevocationInv /\ KnownInv /\ MarkedInv /\ [Next]_vars => MarkedInv'
<1> SUFFICES ASSUME TypeInv, RevocationInv, KnownInv, MarkedInv, [Next]_vars
             PROVE  MarkedInv'
  OBVIOUS
<1>1. /\ HandlersOK /\ audit \in [Token -> {"none", "active", "revoked"}]
      /\ row \in [Device -> Row]
      /\ \A t \in Token : t.device \in Device
      /\ \A r \in Request : req[r].pc # "idle" => req[r].device \in Device
  BY DEF TypeInv, TypeOK, HandlersOK, HandlerOK, Token, Idle
\* Only MarkTokensRevokedByDeviceID marks a token.
<1>2. ASSUME NEW t \in Token, audit'[t] = "revoked" PROVE Excused(t.device)
  <2>1. CASE audit[t] = "revoked"
    BY <2>1 DEF MarkedInv
  <2>2. ASSUME NEW r \in Request, MarkTokensRevokedByDeviceID(r), audit[t] # "revoked"
        PROVE  Excused(t.device)
    <3>1. t.device = req[r].device /\ At(r, "mark")
      BY <1>2, <2>2 DEF MarkTokensRevokedByDeviceID, MarkedRevoked
    <3> QED
      BY <3>1 DEF MarkedInv
  <2>3. ASSUME NEW r \in Request, RecordTokenAudit(r) PROVE audit[t] = "revoked"
    BY <1>1, <1>2, <2>3 DEF RecordTokenAudit, Recorded
  <2>4. ASSUME NEW r \in Request, HandlerStep(r),
               ~RecordTokenAudit(r), ~MarkTokensRevokedByDeviceID(r)
        PROVE  UNCHANGED audit
    BY <2>4 DEF HandlerStep, CreateDevice, FindDeviceByID, Sign, Respond, StartRefresh,
       RotateDeviceToken, TouchDevice, RejectTTL, AdminRevokeDevice, AppLogout, AppDeleteDevice,
       RevokeDevice, PresentToken, IsDeviceActive, RenameDevice, FinishAuthorized,
       CliEnsureWithID, CliInsert, CliReuseByName, CliInsertFresh, HandlerFails, AuditFails, db
  <2>5. CASE DeleteTokenAuditIssuedOlderThan
    BY <1>1, <1>2, <2>1, <2>5 DEF DeleteTokenAuditIssuedOlderThan
  <2>6. CASE DeleteRevokedDevicesOlderThan \/ ServerRestart \/ Tick \/ UNCHANGED vars
    BY <1>2, <2>1, <2>6 DEF DeleteRevokedDevicesOlderThan, ServerRestart, Tick, vars, db
  <2> QED
    BY <1>2, <2>1, <2>2, <2>3, <2>4, <2>5, <2>6 DEF Next
<1>3. ASSUME NEW d \in Device, Excused(d) PROVE Excused(d)'
  BY <1>3, ExcusedStays
<1>4. ASSUME NEW r \in Request, At(r, "mark"), req'[r] = req[r],
             NEW d \in Device, d = req'[r].device
      PROVE  Excused(d)'
  BY <1>3, <1>4 DEF MarkedInv
\* A revocation whose first statement succeeded leaves the device dead.
<1>5. ASSUME NEW r \in Request, NEW d \in Device, d \in KnownDevices, RevokeDevice(r, d)
      PROVE  req'[r].device = d /\ Excused(d)'
  <2>1. req'[r].device = d
    BY <1>1, <1>5, StartEffect DEF RevokeDevice
  <2>2. ASSUME ~StoreFails, d \notin CliDevices PROVE d \in born' /\ row'[d].status # "ACTIVE"
    BY <1>1, <1>5, <2>2 DEF RevokeDevice, Revoked, IsActive, KnownDevices, Row
  <2> QED
    BY <2>1, <2>2 DEF Excused, Gone, IsActive
<1>6. ASSUME NEW r \in Request, At(r, "mark")', NEW d \in Device, d = req'[r].device
      PROVE  Excused(d)'
  <2>1. ASSUME NEW x \in Request, HandlerStep(x) PROVE Excused(d)'
    <3>1. CASE x = r
      <4>1. AdminRevokeDevice(r) \/ AppLogout(r) \/ AppDeleteDevice(r)
        BY <1>6, <2>1, <3>1, HandlerEffect DEF At
      <4>2. PICK c \in KnownDevices : RevokeDevice(r, c)
        BY <4>1 DEF AdminRevokeDevice, AppLogout, AppDeleteDevice, At, KnownInv
      <4>3. c \in Device
        BY DeviceTokensAssumption DEF KnownDevices, TypeInv, TypeOK
      <4> QED
        BY <1>5, <1>6, <4>2, <4>3
    <3>2. CASE x # r
      BY <1>4, <1>6, <2>1, <3>2, HandlerEffect DEF Others, At
    <3> QED
      BY <3>1, <3>2
  <2>2. CASE ServerRestart
    <3>1. req'[r] = req[r] /\ At(r, "mark")
      BY <1>6, <2>2 DEF ServerRestart, Idle, At
    <3> QED
      BY <1>4, <1>6, <3>1
  <2>3. CASE DeleteRevokedDevicesOlderThan \/ DeleteTokenAuditIssuedOlderThan \/ Tick
             \/ UNCHANGED vars
    <3>1. req'[r] = req[r] /\ At(r, "mark")
      BY <1>6, <2>3 DEF DeleteRevokedDevicesOlderThan, DeleteTokenAuditIssuedOlderThan, Tick,
         vars, At
    <3> QED
      BY <1>4, <1>6, <3>1
  <2> QED
    BY <2>1, <2>2, <2>3 DEF Next
<1>7. \A t \in Token : audit'[t] = "revoked" => Excused(t.device)'
  BY <1>1, <1>2, <1>3
<1>8. ASSUME NEW r \in Request, At(r, "mark")' PROVE Excused(req[r].device)'
  <2>1. req'[r].device \in Device
    <3>1. HandlersOK'
      BY NextTypeInv DEF TypeInv
    <3> QED
      BY <1>8, <3>1 DEF HandlersOK, HandlerOK, Idle, At
  <2> PICK d \in Device : d = req'[r].device
    BY <2>1
  <2>2. Excused(d)'
    BY <1>6, <1>8
  <2> QED
    BY <2>2 DEF Excused, Gone, IsActive
<1> QED
  BY <1>7, <1>8 DEF MarkedInv

\* The audit list calls no token revoked while its device works, unless the statement
\* that revokes the device may fail or the operator's CLI makes the id anew.
THEOREM MarkedDevicesAreDead == Spec => []AuditRevokedMeansDeviceIsNot
<1>1. Init => KnownInv /\ MarkedInv
  BY DEF Init, KnownInv, MarkedInv, At, Idle
<1>2. TypeInv /\ MarkedInv => AuditRevokedMeansDeviceIsNot
  BY DEF MarkedInv, Excused, Gone, AuditRevokedMeansDeviceIsNot
<1>3. TypeInv /\ RevocationInv /\ KnownInv /\ [Next]_vars => KnownInv'
  BY NextKnown DEF RevocationInv
<1> QED
  BY <1>1, <1>2, <1>3, RevocationInvAlways, NextMarked, PTL DEF Spec

-----------------------------------------------------------------------------
(***************************************************************************)
(* Delivery of device tokens.  A handler holds a secret only from the      *)
(* moment it read or made one until it answers, and one it read is a       *)
(* client's already, so that a rotation may forget it.                     *)
(***************************************************************************)
Carries(h) ==
    /\ h.pc \in {"idle", "insert", "isActive", "authorized", "mark"} => h.secret = None
    /\ h.pc = "rotate" => h.secret \in heldSecrets

CarriesInv == \A r \in Request : Carries(req[r])

\* What a handler step does to the secrets in hand.
LEMMA SecretEffect ==
    ASSUME TypeInv, CarriesInv, NEW r \in Request, HandlerStep(r)
    PROVE  /\ \/ req'[r].pc \in {"idle", "insert", "isActive", "mark"} /\ req'[r].secret = None
              \/ req'[r].pc = "authorized" /\ req[r].pc = "isActive" /\ req'[r].secret = None
              \/ req'[r].pc = "rotate" /\ req'[r].secret \in heldSecrets
              \/ req'[r].pc \in {"reread", "sign", "record", "respond"}
           /\ \/ req'[r].secret = req[r].secret
              \/ req[r].secret = None
              \/ req[r].secret \in heldSecrets
              \/ End(r) /\ (LoseSecret(r) \/ Respond(r))
<1>1. HandlersOK /\ req[r] \in Handler /\ Carries(req[r])
  BY DEF TypeInv, HandlersOK, CarriesInv
<1> DEFINE Goal ==
      /\ \/ req'[r].pc \in {"idle", "insert", "isActive", "mark"} /\ req'[r].secret = None
         \/ req'[r].pc = "authorized" /\ req[r].pc = "isActive" /\ req'[r].secret = None
         \/ req'[r].pc = "rotate" /\ req'[r].secret \in heldSecrets
         \/ req'[r].pc \in {"reread", "sign", "record", "respond"}
      /\ \/ req'[r].secret = req[r].secret
         \/ req[r].secret = None
         \/ req[r].secret \in heldSecrets
         \/ End(r) /\ (LoseSecret(r) \/ Respond(r))
<1>2. ASSUME req[r].secret = None, NEW op, NEW d, NEW s, NEW pc,
             req' = [req EXCEPT ![r] = Running(op, pc, d, s)],
             \/ pc \in {"insert", "isActive", "mark"} /\ s = None
             \/ pc = "rotate" /\ s \in heldSecrets
             \/ pc = "reread"
      PROVE  Goal
  <2>1. req'[r].pc = pc /\ req'[r].secret = s
    BY <1>1, <1>2, StartEffect
  <2> QED
    BY <1>2, <2>1
<1>3. ASSUME At(r, "idle") \/ At(r, "authorized") PROVE req[r].secret = None
  BY <1>1, <1>3 DEF At, Carries
<1>4. CASE CreateDevice(r) \/ CliReuseByName(r) \/ CliInsertFresh(r)
  <2>1. PICK op \in Op, d \in Device, s \in Secret \cup {None} :
          req' = [req EXCEPT ![r] = Running(op, "reread", d, s)]
    BY <1>4 DEF CreateDevice, CliReuseByName, CliInsertFresh, Op
  <2> QED
    BY <1>2, <1>3, <1>4, <2>1 DEF CreateDevice, CliReuseByName, CliInsertFresh
<1>5. CASE StartRefresh(r) \/ PresentToken(r) \/ CliEnsureWithID(r)
  BY <1>2, <1>3, <1>5 DEF StartRefresh, PresentToken, CliEnsureWithID
<1>6. CASE AdminRevokeDevice(r) \/ AppLogout(r) \/ AppDeleteDevice(r)
  BY <1>2, <1>3, <1>6 DEF AdminRevokeDevice, AppLogout, AppDeleteDevice, RevokeDevice
<1>7. ASSUME NEW pc \in {"sign", "reread", "respond"}, Step(r, pc) PROVE Goal
  BY <1>1, <1>7, StepEffect
<1>8. CASE RecordTokenAudit(r) \/ TouchDevice(r) \/ AuditFails(r)
  BY <1>7, <1>8 DEF RecordTokenAudit, TouchDevice, AuditFails
<1>9. ASSUME End(r), req[r].secret = None \/ LoseSecret(r) \/ Respond(r) PROVE Goal
  BY <1>1, <1>9, EndEffect
<1>10. CASE FindDeviceByID(r) \/ CliInsert(r)
  BY <1>1, <1>7, <1>9, <1>10 DEF FindDeviceByID, CliInsert, At, Carries
<1>11. CASE Respond(r) \/ RejectTTL(r) \/ HandlerFails(r)
  BY <1>9, <1>11 DEF Respond, RejectTTL, HandlerFails
<1>12. CASE MarkTokensRevokedByDeviceID(r) \/ RenameDevice(r) \/ FinishAuthorized(r)
  BY <1>1, <1>9, <1>12 DEF MarkTokensRevokedByDeviceID, RenameDevice, FinishAuthorized, At,
     Carries
<1>13. CASE IsDeviceActive(r)
  <2>1. req[r].pc = "isActive" /\ req[r].secret = None
    BY <1>1, <1>13 DEF IsDeviceActive, At, Carries
  <2>2. CASE Step(r, "authorized")
    BY <1>1, <2>1, <2>2, StepEffect
  <2> QED
    BY <1>9, <1>13, <2>1, <2>2 DEF IsDeviceActive
<1>14. CASE Sign(r)
  <2>1. req'[r].pc = "record" /\ req'[r].secret = req[r].secret
    BY <1>1, <1>14 DEF Sign, HandlersOK, Handler
  <2> QED
    BY <2>1
<1>15. CASE RotateDeviceToken(r)
  <2>1. req'[r].pc = "sign" /\ req[r].secret \in heldSecrets
    BY <1>1, <1>15 DEF RotateDeviceToken, HandlersOK, At, Carries
  <2> QED
    BY <2>1
<1> QED
  BY <1>4, <1>5, <1>6, <1>8, <1>10, <1>11, <1>12, <1>13, <1>14, <1>15 DEF HandlerStep

\* What clients hold they keep, and what is lost stays lost.
LEMMA HistoryGrows ==
    ASSUME [Next]_vars
    PROVE  heldSecrets \subseteq heldSecrets' /\ undelivered \subseteq undelivered'
BY DEF Next, HandlerStep, CreateDevice, FindDeviceByID, Sign, RecordTokenAudit, Respond, Answered,
   StartRefresh, RotateDeviceToken, TouchDevice, RejectTTL, MarkTokensRevokedByDeviceID,
   AdminRevokeDevice, AppLogout, AppDeleteDevice, RevokeDevice, PresentToken, IsDeviceActive,
   RenameDevice, FinishAuthorized, CliEnsureWithID, CliInsert, CliReuseByName,
   CliInsertFresh, HandlerFails, AuditFails, DeleteRevokedDevicesOlderThan, LoseSecret,
   DeleteTokenAuditIssuedOlderThan, ServerRestart, Tick, vars, history, clients

LEMMA NextCarries == TypeInv /\ CarriesInv /\ [Next]_vars => CarriesInv'
<1> SUFFICES ASSUME TypeInv, CarriesInv, [Next]_vars, NEW r \in Request
             PROVE  Carries(req[r])'
  BY DEF CarriesInv
<1>1. heldSecrets \subseteq heldSecrets' /\ Carries(req[r])
  BY HistoryGrows DEF CarriesInv
<1>2. CASE req'[r] = req[r]
  BY <1>1, <1>2 DEF Carries
<1>3. CASE HandlerStep(r)
  BY <1>1, <1>3, SecretEffect DEF Carries
<1>4. ASSUME NEW x \in Request \ {r}, HandlerStep(x) PROVE req'[r] = req[r]
  BY <1>4, HandlerEffect DEF Others
<1>5. CASE ServerRestart
  BY <1>2, <1>5 DEF ServerRestart, Idle, Carries
<1>6. CASE DeleteRevokedDevicesOlderThan \/ DeleteTokenAuditIssuedOlderThan \/ Tick
           \/ UNCHANGED vars
  BY <1>2, <1>6 DEF DeleteRevokedDevicesOlderThan, DeleteTokenAuditIssuedOlderThan, Tick, vars
<1> QED
  BY <1>2, <1>3, <1>4, <1>5, <1>6 DEF Next

\* A row gets a new secret only together with the handler that will answer it.
LEMMA NewSecretInHand ==
    ASSUME TypeInv, [Next]_vars, NEW d \in Device, IsActive(d)', row'[d].secret \in Secret
    PROVE  \/ IsActive(d) /\ row[d].secret = row'[d].secret
           \/ \E r \in Request : req'[r].secret = row'[d].secret
<1> DEFINE Goal == \/ IsActive(d) /\ row[d].secret = row'[d].secret
                   \/ \E r \in Request : req'[r].secret = row'[d].secret
<1>1. row \in [Device -> Row] /\ HandlersOK /\ row'[d].status = "ACTIVE"
  BY DEF TypeInv, TypeOK, IsActive
<1>2. CASE UNCHANGED row
  BY <1>1, <1>2 DEF IsActive
<1>3. ASSUME NEW r \in Request, CreateDevice(r) PROVE Goal
  <2> PICK c \in Device, s \in Secret :
        /\ InsertRow(c, s)
        /\ req' = [req EXCEPT ![r] = Running("session", "reread", c, s)]
    BY <1>3 DEF CreateDevice
  <2>1. req'[r].secret = s
    BY <1>1, StartEffect
  <2> QED
    BY <1>1, <2>1 DEF InsertRow, ActiveRow, IsActive
<1>4. ASSUME NEW r \in Request, RotateDeviceToken(r) PROVE Goal
  <2> PICK s \in Secret :
        /\ row' = Rotated(req[r].device, s)
        /\ req' = [req EXCEPT ![r].pc = "sign", ![r].secret = NextSecret(r, s)]
    BY <1>4 DEF RotateDeviceToken
  <2>1. req'[r].secret = s
    BY <1>1 DEF HandlersOK, Handler, NextSecret
  <2> QED
    BY <1>1, <2>1 DEF Rotated, IsActive, Row
<1>5. ASSUME NEW r \in Request, NEW c, RevokeDevice(r, c) PROVE Goal
  BY <1>1, <1>5 DEF RevokeDevice, Revoked, IsActive, Row
<1>6. ASSUME NEW r \in Request, RenameDevice(r) PROVE Goal
  BY <1>1, <1>6 DEF RenameDevice, Renamed, IsActive, Row
<1>7. ASSUME NEW r \in Request, CliInsert(r) \/ CliInsertFresh(r) PROVE Goal
  BY <1>1, <1>7, NoneIsNoSecret DEF CliInsert, CliInsertFresh, InsertRow, ActiveRow, IsActive
<1>8. CASE DeleteRevokedDevicesOlderThan
  BY <1>1, <1>8 DEF DeleteRevokedDevicesOlderThan, NoRow, IsActive
<1>9. ASSUME NEW r \in Request,
             \/ FindDeviceByID(r) \/ Sign(r) \/ RecordTokenAudit(r) \/ Respond(r)
             \/ StartRefresh(r) \/ TouchDevice(r) \/ RejectTTL(r)
             \/ MarkTokensRevokedByDeviceID(r) \/ PresentToken(r) \/ IsDeviceActive(r)
             \/ FinishAuthorized(r) \/ CliEnsureWithID(r) \/ CliReuseByName(r)
             \/ HandlerFails(r) \/ AuditFails(r)
      PROVE  UNCHANGED row
  BY <1>9 DEF FindDeviceByID, Sign, RecordTokenAudit, Respond, StartRefresh, TouchDevice,
     RejectTTL, MarkTokensRevokedByDeviceID, PresentToken, IsDeviceActive, FinishAuthorized,
     CliEnsureWithID, CliReuseByName, HandlerFails, AuditFails, db
<1>10. CASE DeleteTokenAuditIssuedOlderThan \/ ServerRestart \/ Tick \/ UNCHANGED vars
  BY <1>2, <1>10 DEF DeleteTokenAuditIssuedOlderThan, ServerRestart, Tick, vars, db
<1> QED
  BY <1>2, <1>3, <1>4, <1>5, <1>6, <1>7, <1>8, <1>9, <1>10
     DEF Next, HandlerStep, AdminRevokeDevice, AppLogout, AppDeleteDevice

\* A secret in a handler's hands stays there, reaches a client, or is written off.
LEMMA SecretInHandStays ==
    ASSUME TypeInv, CarriesInv, [Next]_vars, NEW q \in Request, req[q].secret \in Secret
    PROVE  \/ req'[q].secret = req[q].secret
           \/ req[q].secret \in heldSecrets'
           \/ req[q].device \in undelivered'
<1>1. heldSecrets \subseteq heldSecrets' /\ HandlersOK /\ None \notin Secret
  BY HistoryGrows, NoneIsNoSecret DEF TypeInv
<1>2. CASE req'[q] = req[q]
  BY <1>2
<1>3. CASE LoseSecret(q)
  BY <1>1, <1>3 DEF LoseSecret, Loses, HoldsNewSecret
<1>4. CASE Respond(q)
  BY <1>4 DEF Respond, Answered
<1>5. CASE HandlerStep(q)
  BY <1>1, <1>3, <1>4, <1>5, SecretEffect
<1>6. ASSUME NEW x \in Request \ {q}, HandlerStep(x) PROVE req'[q] = req[q]
  BY <1>6, HandlerEffect DEF Others
<1>7. CASE ServerRestart
  <2>1. CASE req[q].op = "cli"
    BY <1>2, <1>7, <2>1 DEF ServerRestart
  <2>2. CASE req[q].op # "cli"
    BY <1>1, <1>7, <2>2 DEF ServerRestart, Loses, HoldsNewSecret
  <2> QED
    BY <2>1, <2>2
<1>8. CASE DeleteRevokedDevicesOlderThan \/ DeleteTokenAuditIssuedOlderThan \/ Tick
           \/ UNCHANGED vars
  BY <1>2, <1>8 DEF DeleteRevokedDevicesOlderThan, DeleteTokenAuditIssuedOlderThan, Tick, vars
<1> QED
  BY <1>2, <1>5, <1>6, <1>7, <1>8 DEF Next

LEMMA NextLiveSecret ==
    ASSUME TypeInv, SecretNamesItsDevice, CarriesInv, LiveSecretIsHeld, [Next]_vars
    PROVE  LiveSecretIsHeld'
<1> SUFFICES ASSUME NEW d \in Device, IsActive(d)', row'[d].secret \in Secret
             PROVE  \/ row'[d].secret \in heldSecrets'
                    \/ \E r \in Request : req'[r].secret = row'[d].secret
                    \/ d \in undelivered'
  BY DEF LiveSecretIsHeld
<1>1. heldSecrets \subseteq heldSecrets' /\ undelivered \subseteq undelivered'
  BY HistoryGrows
<1>2. CASE IsActive(d) /\ row[d].secret = row'[d].secret
  <2>1. CASE row[d].secret \in heldSecrets \/ d \in undelivered
    BY <1>1, <1>2, <2>1
  <2>2. ASSUME NEW q \in Request, req[q].secret = row[d].secret
        PROVE  \/ row'[d].secret \in heldSecrets'
               \/ \E r \in Request : req'[r].secret = row'[d].secret
               \/ d \in undelivered'
    <3>1. req[q].device = d
      BY <1>2, <2>2 DEF SecretNamesItsDevice
    <3> QED
      BY <1>2, <2>2, <3>1, SecretInHandStays
  <2> QED
    BY <1>2, <2>1, <2>2 DEF LiveSecretIsHeld
<1> QED
  BY <1>2, NewSecretInHand

\* The token that refreshes an ACTIVE device is held by a client or about to be answered
\* to one, however refreshes interleave, unless an answer with a new token was lost.
THEOREM LiveSecretAlwaysHeld == Spec => []LiveSecretIsHeld
<1>1. Init => CarriesInv /\ LiveSecretIsHeld
  BY DEF Init, CarriesInv, Carries, Idle, LiveSecretIsHeld, IsActive, NoRow
<1> QED
  BY <1>1, InitTypeInv, NextTypeInv, InitSecretInv, NextSecretInv, NextCarries, NextLiveSecret,
     PTL DEF Spec

\* Without rotation a secret stays with the row it was made for.
Kept(s) ==
    owner[s] \in Device =>
        /\ owner[s] \in born \ CliDevices
        /\ row[owner[s]].status # "absent" => row[owner[s]].secret = s

KeptInv ==
    /\ \A s \in heldSecrets : owner[s] \in Device
    /\ RotateDeviceTokens \/ \A s \in Secret : Kept(s)

LEMMA NextKept ==
    ASSUME TypeInv, SecretNamesItsDevice, RevocationInv, KeptInv, [Next]_vars
    PROVE  KeptInv'
<1>1. /\ HandlersOK /\ row \in [Device -> Row] /\ heldSecrets \subseteq Secret
      /\ owner \in [Secret -> Device \cup {None}] /\ None \notin Device
      /\ \A r \in Request : req[r].pc # "idle" => req[r].device \in Device
  BY DeviceTokensAssumption DEF TypeInv, TypeOK, HandlersOK, HandlerOK, Idle
<1>2. \A s \in Secret : owner[s] \in Device => owner'[s] = owner[s]
  <2>1. CASE UNCHANGED owner
    BY <2>1
  <2>2. ASSUME NEW r \in Request, CreateDevice(r) \/ RotateDeviceToken(r)
        PROVE  \A s \in Secret : owner[s] \in Device => owner'[s] = owner[s]
    BY <1>1, <2>2 DEF CreateDevice, RotateDeviceToken, FreshSecret
  <2> QED
    BY <2>1, <2>2 DEF Next, HandlerStep, FindDeviceByID, Sign, RecordTokenAudit, Respond,
       StartRefresh, TouchDevice, RejectTTL, MarkTokensRevokedByDeviceID,
       AdminRevokeDevice, AppLogout, AppDeleteDevice, RevokeDevice, PresentToken, IsDeviceActive,
       RenameDevice, FinishAuthorized, CliEnsureWithID, CliInsert, CliReuseByName,
       CliInsertFresh, HandlerFails, AuditFails, DeleteRevokedDevicesOlderThan,
       DeleteTokenAuditIssuedOlderThan, ServerRestart, Tick, vars, history
<1>3. \A s \in heldSecrets' : owner'[s] \in Device
  <2>1. CASE UNCHANGED heldSecrets
    BY <1>1, <1>2, <2>1 DEF KeptInv
  <2>2. ASSUME NEW r \in Request, Respond(r) PROVE \A s \in heldSecrets' : owner'[s] \in Device
    BY <1>1, <1>2, <2>2 DEF Respond, Answered, At, KeptInv, SecretNamesItsDevice
  <2> QED
    BY <2>1, <2>2 DEF Next, HandlerStep, CreateDevice, FindDeviceByID, Sign, RecordTokenAudit,
       StartRefresh, RotateDeviceToken, TouchDevice, RejectTTL, MarkTokensRevokedByDeviceID,
       AdminRevokeDevice, AppLogout, AppDeleteDevice, RevokeDevice, PresentToken, IsDeviceActive,
       RenameDevice, FinishAuthorized, CliEnsureWithID, CliInsert, CliReuseByName,
       CliInsertFresh, HandlerFails, AuditFails, DeleteRevokedDevicesOlderThan,
       DeleteTokenAuditIssuedOlderThan, ServerRestart, Tick, vars, clients
<1>4. ASSUME ~RotateDeviceTokens, NEW s \in Secret PROVE Kept(s)'
  <2>1. Kept(s)
    BY <1>4 DEF KeptInv
  <2>2. CASE UNCHANGED <<row, born, owner>>
    BY <2>1, <2>2 DEF Kept
  <2>3. ASSUME NEW r \in Request, CreateDevice(r) PROVE Kept(s)'
    <3> PICK d \in Device, z \in Secret :
          /\ FreshDevice(d) /\ FreshSecret(z)
          /\ InsertRow(d, z)
          /\ owner' = [owner EXCEPT ![z] = d]
      BY <2>3 DEF CreateDevice
    <3>1. CASE s = z
      BY <1>1, <3>1 DEF Kept, InsertRow, ActiveRow, FreshDevice
    <3>2. CASE s # z
      BY <1>1, <2>1, <3>2 DEF Kept, InsertRow, FreshDevice
    <3> QED
      BY <3>1, <3>2
  <2>4. ASSUME NEW r \in Request, RotateDeviceToken(r) PROVE FALSE
    BY <1>4, <2>4 DEF RotateDeviceToken, Rotates
  <2>5. ASSUME NEW r \in Request, CliInsert(r) \/ CliInsertFresh(r) PROVE Kept(s)'
    <3> PICK d \in Device :
          /\ InsertRow(d, Placeholder) \/ UNCHANGED <<row, born>>
          /\ d \in CliDevices \/ d \notin born
      BY <1>1, <2>5 DEF CliInsert, CliInsertFresh, FreshDevice, RevocationInv, LateInv, At
    <3>1. UNCHANGED owner
      BY <2>5 DEF CliInsert, CliInsertFresh
    <3> QED
      BY <1>1, <2>1, <3>1 DEF Kept, InsertRow
  <2>6. ASSUME UNCHANGED <<born, owner>>,
               \A d \in Device : row'[d].status # "absent" =>
                                    row[d].status # "absent" /\ row'[d].secret = row[d].secret
        PROVE  Kept(s)'
    BY <2>1, <2>6 DEF Kept
  <2>7. ASSUME NEW r \in Request, NEW d, RevokeDevice(r, d) PROVE Kept(s)'
    BY <1>1, <2>6, <2>7 DEF RevokeDevice, Revoked, IsActive, Row
  <2>8. ASSUME NEW r \in Request, RenameDevice(r) PROVE Kept(s)'
    BY <1>1, <2>6, <2>8 DEF RenameDevice, Renamed, Row, history
  <2>9. CASE DeleteRevokedDevicesOlderThan
    BY <1>1, <2>6, <2>9 DEF DeleteRevokedDevicesOlderThan, NoRow, history
  <2>10. ASSUME NEW r \in Request,
               \/ FindDeviceByID(r) \/ Sign(r) \/ RecordTokenAudit(r) \/ Respond(r)
               \/ StartRefresh(r) \/ TouchDevice(r) \/ RejectTTL(r)
               \/ MarkTokensRevokedByDeviceID(r) \/ PresentToken(r) \/ IsDeviceActive(r)
               \/ FinishAuthorized(r) \/ CliEnsureWithID(r) \/ CliReuseByName(r)
               \/ HandlerFails(r) \/ AuditFails(r)
         PROVE  UNCHANGED <<row, born, owner>>
    BY <2>10 DEF FindDeviceByID, Sign, RecordTokenAudit, Respond, StartRefresh, TouchDevice,
       RejectTTL, MarkTokensRevokedByDeviceID, PresentToken, IsDeviceActive, FinishAuthorized,
       CliEnsureWithID, CliReuseByName, HandlerFails, AuditFails, db, history
  <2>11. CASE DeleteTokenAuditIssuedOlderThan \/ ServerRestart \/ Tick \/ UNCHANGED vars
    BY <2>2, <2>11 DEF DeleteTokenAuditIssuedOlderThan, ServerRestart, Tick, vars, db, history
  <2> QED
    BY <2>2, <2>3, <2>4, <2>5, <2>7, <2>8, <2>9, <2>10, <2>11
       DEF Next, HandlerStep, AdminRevokeDevice, AppLogout, AppDeleteDevice
<1> QED
  BY <1>3, <1>4 DEF KeptInv

\* With rotation off, a device token that reached a client stays the token of its device
\* for as long as the device has a row, whatever the CLI and the cleanup do meanwhile.
THEOREM UnrotatedSecretLives == Spec => []UnrotatedSecretNeverDies
<1>1. Init => KeptInv
  BY NoneIsNoSecret DEF Init, KeptInv, Kept
<1>2. TypeInv /\ KeptInv => UnrotatedSecretNeverDies
  BY DEF TypeInv, TypeOK, KeptInv, Kept, UnrotatedSecretNeverDies
<1> QED
  BY <1>1, <1>2, RevocationInvAlways, SecretNamesItsDeviceAlways, NextKept, PTL DEF Spec

-----------------------------------------------------------------------------
(***************************************************************************)
(* The refinement.  A new device begins a grant, a rotation renews it or   *)
(* is lost, a revocation revokes it; the cleanup of its row is no step.    *)
(* RevocationInv says that an id of the server with a row was inserted and *)
(* that only the CLI inserts an id of an operator's.                       *)
(***************************************************************************)
LEMMA SameGrants ==
    ASSUME owner' = owner,
           \A d \in ServerDevices : /\ d \in born' <=> d \in born
                                    /\ row'[d].status = row[d].status
                                    /\ row'[d].secret = row[d].secret
    PROVE  UNCHANGED Grants!vars
<1>1. Life' = Life
  BY DEF Life, IsActive
<1>2. Works' = Works
  BY DEF Works, IsActive
<1>3. Made' = Made /\ Waits' = Waits
  BY DEF Made, Waits
<1> QED
  BY <1>1, <1>2, <1>3 DEF Grants!vars

LEMMA MadeStep ==
    ASSUME TypeInv, NEW s \in Secret, NEW d \in Device, FreshSecret(s),
           owner' = [owner EXCEPT ![s] = d]
    PROVE  s \in Secret \ Made /\ Made' = Made \cup {s}
BY NoneIsNoSecret DEF TypeInv, TypeOK, FreshSecret, Made

LEMMA CreateStep ==
    ASSUME TypeInv, RevocationInv, NEW r \in Request, CreateDevice(r)
    PROVE  Grants!Next
<1> PICK d \in Device, s \in Secret :
      /\ FreshDevice(d)
      /\ FreshSecret(s)
      /\ row' = [row EXCEPT ![d] = ActiveRow(s)]
      /\ born' = born \cup {d}
      /\ owner' = [owner EXCEPT ![s] = d]
  BY DEF CreateDevice, InsertRow
<1>1. d \in ServerDevices /\ d \notin born /\ row \in [Device -> Row]
  BY DEF FreshDevice, ServerDevices, TypeInv, TypeOK
<1>2. Life[d] = "new" /\ Life' = [Life EXCEPT ![d] = "valid"]
  BY <1>1 DEF Life, IsActive, ActiveRow, ServerDevices
<1>3. Works' = [Works EXCEPT ![d] = s]
  BY <1>1 DEF Works, IsActive, ActiveRow, ServerDevices
<1>4. s \in Secret \ Made /\ Made' = Made \cup {s} /\ Waits' = Waits
  BY MadeStep DEF Waits
<1>5. Grants!Begin(d)
  BY <1>2, <1>3, <1>4 DEF Grants!Begin
<1> QED
  BY <1>1, <1>5 DEF Grants!Next

LEMMA InsertStep ==
    ASSUME TypeInv, RevocationInv, NEW r \in Request, CliInsertFresh(r)
    PROVE  Grants!Next
<1> PICK d \in Device :
      /\ FreshDevice(d)
      /\ row' = [row EXCEPT ![d] = ActiveRow(Placeholder)]
      /\ born' = born \cup {d}
  BY DEF CliInsertFresh, InsertRow
<1>1. d \in ServerDevices /\ d \notin born /\ row \in [Device -> Row] /\ owner' = owner
  BY DEF FreshDevice, ServerDevices, TypeInv, TypeOK, CliInsertFresh
<1>2. ~IsActive(d)
  BY <1>1 DEF RevocationInv, RowsInv, IsActive
<1>3. Life[d] = "new" /\ Life' = [Life EXCEPT ![d] = "valid"]
  BY <1>1 DEF Life, IsActive, ActiveRow, ServerDevices
<1>4. Works' = Works
  BY <1>1, <1>2, NoneIsNoSecret DEF Works, IsActive, ActiveRow, ServerDevices
<1>5. Made' = Made /\ Waits' = Waits
  BY <1>1 DEF Made, Waits
<1>6. Grants!Begin(d)
  BY <1>3, <1>4, <1>5 DEF Grants!Begin
<1> QED
  BY <1>1, <1>6 DEF Grants!Next

\* The rotation of a device that was revoked since the handler read it stores nothing:
\* the new token is lost as soon as it is made.
LEMMA RotateStep ==
    ASSUME TypeInv, RevocationInv, NEW r \in Request, RotateDeviceToken(r)
    PROVE  Grants!Next
<1> DEFINE d == req[r].device
<1> PICK s \in Secret :
      /\ FreshSecret(s)
      /\ owner' = [owner EXCEPT ![s] = d]
      /\ row' = Rotated(d, s)
  BY DEF RotateDeviceToken
<1>1. d \in Device /\ row \in [Device -> Row] /\ born' = born
  BY DEF RotateDeviceToken, At, TypeInv, TypeOK, HandlersOK, HandlerOK, Idle
<1> HIDE DEF d
<1>2. s \in Secret \ Made /\ Made' = Made \cup {s} /\ Waits' = Waits
  BY <1>1, MadeStep DEF Waits
<1>3. Life' = Life
  BY <1>1 DEF Life, Rotated, IsActive, Row, ServerDevices
<1>4. CASE d \in ServerDevices /\ IsActive(d)
  <2>1. Life[d] = "valid"
    BY <1>1, <1>4 DEF Life, RevocationInv, RowsInv, IsActive
  <2>2. Works' = [Works EXCEPT ![d] = s]
    BY <1>1, <1>4 DEF Works, Rotated, IsActive, Row, ServerDevices
  <2>3. Waits' = [Waits EXCEPT ![d] = Waits[d] \ {s}]
    BY <1>4 DEF Waits
  <2>4. Grants!Renew(d)
    BY <1>2, <1>3, <2>1, <2>2, <2>3 DEF Grants!Renew
  <2> QED
    BY <1>4, <2>4 DEF Grants!Next
<1>5. CASE ~(d \in ServerDevices /\ IsActive(d))
  <2>1. Works' = Works
    BY <1>1, <1>5 DEF Works, Rotated, IsActive, Row, ServerDevices
  <2>2. Waits' = [g \in ServerDevices |-> Waits[g] \ {}]
    BY DEF Waits
  <2>3. Grants!Lose
    BY <1>2, <1>3, <2>1, <2>2 DEF Grants!Lose
  <2> QED
    BY <2>3 DEF Grants!Next
<1> QED
  BY <1>4, <1>5

LEMMA RevokeStep ==
    ASSUME TypeInv, RevocationInv, NEW r \in Request, NEW d \in Device, RevokeDevice(r, d)
    PROVE  Grants!Next \/ UNCHANGED Grants!vars
<1>1. row \in [Device -> Row] /\ born' = born /\ owner' = owner
  BY DEF RevokeDevice, TypeInv, TypeOK
<1>2. CASE row' = Revoked(d) /\ d \in ServerDevices /\ IsActive(d)
  <2>1. Life[d] = "valid" /\ Life' = [Life EXCEPT ![d] = "void"]
    BY <1>1, <1>2 DEF Life, Revoked, RevocationInv, RowsInv, IsActive, Row, ServerDevices
  <2>2. Works' = [Works EXCEPT ![d] = None]
    BY <1>1, <1>2 DEF Works, Revoked, IsActive, Row, ServerDevices
  <2>3. Made' = Made /\ Waits' = Waits
    BY <1>1 DEF Made, Waits
  <2>4. Grants!Revoke(d)
    BY <2>1, <2>2, <2>3 DEF Grants!Revoke
  <2> QED
    BY <1>2, <2>4 DEF Grants!Next
<1>3. CASE row' = Revoked(d) /\ ~(d \in ServerDevices /\ IsActive(d))
  <2>1. \A x \in ServerDevices : row'[x] = row[x]
    BY <1>1, <1>3 DEF Revoked, ServerDevices
  <2> QED
    BY <1>1, <2>1, SameGrants
<1>4. CASE row' = row
  BY <1>1, <1>4, SameGrants
<1> QED
  BY <1>2, <1>3, <1>4 DEF RevokeDevice

\* A row that the cleanup deletes was REVOKED: its grant was void and stays it.
LEMMA CleanupStep ==
    ASSUME TypeInv, RevocationInv, DeleteRevokedDevicesOlderThan
    PROVE  UNCHANGED Grants!vars
<1>1. \A d \in Device : row'[d] = row[d] \/ (row[d].status = "REVOKED" /\ row'[d] = NoRow)
  BY DEF DeleteRevokedDevicesOlderThan
<1>2. born' = born /\ owner' = owner
  BY DEF DeleteRevokedDevicesOlderThan, history
<1>3. \A d \in Device : IsActive(d)' <=> IsActive(d)
  BY <1>1 DEF IsActive, NoRow
<1>4. \A d \in Device : IsActive(d) => row'[d] = row[d]
  BY <1>1 DEF IsActive
<1>5. Life' = Life /\ Works' = Works
  BY <1>2, <1>3, <1>4 DEF Life, Works, ServerDevices
<1>6. Made' = Made /\ Waits' = Waits
  BY <1>2 DEF Made, Waits
<1> QED
  BY <1>5, <1>6 DEF Grants!vars

LEMMA InitGrants == Init => Grants!Init
BY DEF Init, Grants!Init, Life, Works, Waits, Made, IsActive, NoRow, ServerDevices

LEMMA NextGrants == TypeInv /\ RevocationInv /\ [Next]_vars => [Grants!Next]_(Grants!vars)
<1> SUFFICES ASSUME TypeInv, RevocationInv, [Next]_vars PROVE [Grants!Next]_(Grants!vars)
  OBVIOUS
<1>1. KnownDevices \subseteq Device /\ row \in [Device -> Row]
  BY DeviceTokensAssumption DEF KnownDevices, TypeInv, TypeOK
<1>2. ASSUME UNCHANGED <<row, born, owner>> PROVE UNCHANGED Grants!vars
  BY <1>2, SameGrants
<1>3. ASSUME NEW r \in Request,
             \/ FindDeviceByID(r) \/ Sign(r) \/ RecordTokenAudit(r) \/ Respond(r)
             \/ StartRefresh(r) \/ TouchDevice(r) \/ RejectTTL(r)
             \/ MarkTokensRevokedByDeviceID(r) \/ PresentToken(r) \/ IsDeviceActive(r)
             \/ FinishAuthorized(r) \/ CliEnsureWithID(r) \/ CliReuseByName(r)
             \/ HandlerFails(r) \/ AuditFails(r)
      PROVE UNCHANGED <<row, born, owner>>
  BY <1>3 DEF FindDeviceByID, Sign, RecordTokenAudit, Respond, StartRefresh, TouchDevice,
     RejectTTL, MarkTokensRevokedByDeviceID, PresentToken, IsDeviceActive, FinishAuthorized,
     CliEnsureWithID, CliReuseByName, HandlerFails, AuditFails, db, history
<1>4. ASSUME NEW r \in Request, AdminRevokeDevice(r) \/ AppLogout(r) \/ AppDeleteDevice(r)
      PROVE  \E d \in Device : RevokeDevice(r, d)
  <2>1. At(r, "authorized") => req[r].device \in Device
    BY DEF At, TypeInv, HandlersOK, HandlerOK, Idle
  <2> QED
    BY <1>1, <1>4, <2>1 DEF AdminRevokeDevice, AppLogout, AppDeleteDevice
<1>5. ASSUME NEW r \in Request, RenameDevice(r) PROVE UNCHANGED Grants!vars
  <2>1. \A d \in Device : row'[d].status = row[d].status /\ row'[d].secret = row[d].secret
    BY <1>1, <1>5 DEF RenameDevice, Renamed, Row
  <2> QED
    BY <1>5, <2>1, SameGrants DEF RenameDevice, history, ServerDevices
<1>6. ASSUME NEW r \in Request, CliInsert(r) PROVE UNCHANGED Grants!vars
  <2>1. req[r].device \in CliDevices
    BY <1>6 DEF CliInsert, At, RevocationInv, LateInv
  <2>2. \A d \in ServerDevices : row'[d] = row[d] /\ (d \in born' <=> d \in born)
    BY <1>1, <1>6, <2>1 DEF CliInsert, InsertRow, ServerDevices
  <2> QED
    BY <1>6, <2>2, SameGrants DEF CliInsert
<1>7. CASE DeleteTokenAuditIssuedOlderThan \/ ServerRestart \/ Tick \/ UNCHANGED vars
  BY <1>2, <1>7 DEF DeleteTokenAuditIssuedOlderThan, ServerRestart, Tick, vars, db, history
<1> QED
  BY <1>2, <1>3, <1>4, <1>5, <1>6, <1>7, CreateStep, InsertStep, RotateStep, RevokeStep, CleanupStep
     DEF Next, HandlerStep

\* A device of the server is a revocable grant, the tokens that refresh it its keys,
\* whatever handlers, the CLI's processes, the cleanup job and restarts interleave.
THEOREM ImplementsRevocableGrant == Spec => DevicesAreRevocableGrants
BY RevocationInvAlways, InitTypeInv, InitGrants, NextGrants, PTL
   DEF Spec, DevicesAreRevocableGrants, Grants!Spec

-----------------------------------------------------------------------------
(***************************************************************************)
(* What the refinement is worth.  From RevocableGrant alone, nothing of    *)
(* the rows or handlers behind it: a key is in one place at a time.        *)
(***************************************************************************)
LEMMA InitKeys == Grants!Init => Grants!KeyInv
BY DEF Grants!Init, Grants!KeyInv, Grants!KeyNamesItsGrant

LEMMA BeginKeys ==
    ASSUME Grants!KeyInv, NEW g \in ServerDevices, Grants!Begin(g)
    PROVE  Grants!KeyInv' /\ \A k \in Secret : Grants!Dead(k) => Grants!Dead(k)'
<1> USE DEF Grants!KeyInv, Grants!KeyNamesItsGrant, Grants!Begin, Grants!Dead
<1>1. None \notin Secret
  BY NoneIsNoSecret
<1>2. CASE UNCHANGED <<Works, Made>>
  BY <1>2
<1>3. ASSUME NEW k \in Secret \ Made,
             Works' = [Works EXCEPT ![g] = k], Made' = Made \cup {k}
      PROVE  Grants!KeyInv' /\ \A x \in Secret : Grants!Dead(x) => Grants!Dead(x)'
  BY <1>1, <1>3
<1> QED
  BY <1>2, <1>3

LEMMA MakeKeys ==
    ASSUME Grants!KeyInv, NEW g \in ServerDevices, Grants!Make(g)
    PROVE  Grants!KeyInv' /\ \A k \in Secret : Grants!Dead(k) => Grants!Dead(k)'
BY NoneIsNoSecret DEF Grants!KeyInv, Grants!KeyNamesItsGrant, Grants!Make, Grants!Dead

LEMMA RenewKeys ==
    ASSUME Grants!KeyInv, NEW g \in ServerDevices, Grants!Renew(g)
    PROVE  Grants!KeyInv' /\ \A k \in Secret : Grants!Dead(k) => Grants!Dead(k)'
<1> USE DEF Grants!KeyInv, Grants!KeyNamesItsGrant, Grants!Renew, Grants!Dead
<1> PICK k \in Waits[g] \cup (Secret \ Made) :
      /\ Works' = [Works EXCEPT ![g] = k]
      /\ Waits' = [Waits EXCEPT ![g] = Waits[g] \ {k}]
      /\ Made' = Made \cup {k}
  OBVIOUS
<1>1. k \in Secret /\ k # None
  BY NoneIsNoSecret
<1>2. \A h \in ServerDevices : Works[h] # k /\ (h # g => k \notin Waits[h])
  BY <1>1
<1>3. Grants!KeyInv'
  BY <1>1, <1>2
<1>4. \A x \in Secret : Grants!Dead(x) => Grants!Dead(x)'
  BY <1>1, <1>2
<1> QED
  BY <1>3, <1>4

LEMMA RevokeKeys ==
    ASSUME Grants!KeyInv, NEW g \in ServerDevices, Grants!Revoke(g)
    PROVE  Grants!KeyInv' /\ \A k \in Secret : Grants!Dead(k) => Grants!Dead(k)'
BY NoneIsNoSecret DEF Grants!KeyInv, Grants!KeyNamesItsGrant, Grants!Revoke, Grants!Dead

LEMMA LoseKeys ==
    ASSUME Grants!KeyInv, Grants!Lose
    PROVE  Grants!KeyInv' /\ \A k \in Secret : Grants!Dead(k) => Grants!Dead(k)'
BY NoneIsNoSecret DEF Grants!KeyInv, Grants!KeyNamesItsGrant, Grants!Lose, Grants!Dead

LEMMA NextKeys ==
    Grants!KeyInv /\ [Grants!Next]_(Grants!vars) =>
        /\ Grants!KeyInv'
        /\ [\A k \in Secret : Grants!Dead(k) => Grants!Dead(k)']_(Grants!vars)
<1> SUFFICES ASSUME Grants!KeyInv, [Grants!Next]_(Grants!vars)
             PROVE  /\ Grants!KeyInv'
                    /\ [\A k \in Secret : Grants!Dead(k) => Grants!Dead(k)']_(Grants!vars)
  OBVIOUS
<1>1. CASE Grants!Next
  BY <1>1, BeginKeys, MakeKeys, RenewKeys, RevokeKeys, LoseKeys DEF Grants!Next
<1>2. CASE UNCHANGED Grants!vars
  BY <1>2 DEF Grants!KeyInv, Grants!KeyNamesItsGrant, Grants!vars
<1> QED
  BY <1>1, <1>2

\* A device token works for one device of the server at most and for none that is not
\* ACTIVE; one that was replaced, revoked or lost with its handler never works again.
THEOREM DeviceTokensKeepTheirDevice ==
    Spec => []Grants!KeyNamesItsGrant /\ Grants!DeadKeyStaysDead
<1>1. Grants!KeyInv => Grants!KeyNamesItsGrant
  BY DEF Grants!KeyInv
<1>2. Grants!Spec => []Grants!KeyInv /\ Grants!DeadKeyStaysDead
  BY InitKeys, NextKeys, PTL DEF Grants!Spec, Grants!DeadKeyStaysDead
<1> QED
  BY <1>1, <1>2, ImplementsRevocableGrant, PTL DEF DevicesAreRevocableGrants
=============================================================================
