----------------------------- MODULE AzureLogin -----------------------------
(***************************************************************************)
(* docker login azure, and the token it leaves. Login waits for the first  *)
(* of a browser that comes back to a local server, a device code entered   *)
(* elsewhere and the cancellation of the context; each answers on a        *)
(* channel. Other commands read the token meanwhile, refresh it when it    *)
(* has expired and write it back, and a logout removes it.                 *)
(***************************************************************************)
EXTENDS Naturals, Sequences, FiniteSets, SequencesExt

CONSTANTS LoginCases,   \* the options of the login and what the world answers
          Users,        \* other commands under way, each with what it does
          MaxRequests   \* bound: requests to the local server

VARIABLES login,        \* the login and its options
          browser,      \* requests made so far, and the handlers that wait to send
          server,       \* the goroutine of the local server
          device,       \* the goroutine of the device code
          queryCh, deviceCodeFlowCh,
          tokenFile,    \* the token store's file
          user          \* the other commands

loginVars == <<login, browser, server, device, queryCh, deviceCodeFlowCh, tokenFile, user>>

(* Mutant: the channel of the device code is not buffered. *)
Capacity_None(channel) == IF channel = "device" THEN 0 ELSE 1

Capacity(channel) == 1

Absent == [state |-> "absent", tenant |-> "", valid |-> FALSE, refresh |-> FALSE]
Torn == [Absent EXCEPT !.state = "torn"]
Token(tenant, refresh) == [state |-> "written", tenant |-> tenant, valid |-> TRUE, refresh |-> refresh]

Step(pc) == login' = [login EXCEPT !.pc = pc]
Return(result) == login' = [login EXCEPT !.pc = "returned", !.result = result] /\ server' = IF server = "serving" THEN "closed" ELSE server

(* A client id and a secret log a service principal in; all three options or none. *)
Validate(o) == (o.clientID \/ o.secret) => (o.clientID /\ o.secret /\ o.tenant # "")

Begin ==
    /\ login.pc = "begin"
    /\ CASE ~Validate(login.case)                          -> Return("options")
         [] Validate(login.case) /\ login.case.clientID    -> Step("principal") /\ UNCHANGED server
         [] OTHER                                          -> Step("listen") /\ UNCHANGED server
    /\ UNCHANGED <<browser, device, queryCh, deviceCodeFlowCh, tokenFile, user>>

(* The token of a service principal cannot be refreshed. *)
LoginServicePrincipal ==
    /\ login.pc = "principal"
    /\ \/ Return("refused")
       \/ /\ login' = [login EXCEPT !.pc = "truncate", !.token = Token(login.case.tenant, FALSE)]
          /\ UNCHANGED server
    /\ UNCHANGED <<browser, device, queryCh, deviceCodeFlowCh, tokenFile, user>>

(* The local server, then the browser; without one, the device code. *)
Login ==
    /\ login.pc = "listen"
    /\ server' = "serving"
    /\ \E opens \in BOOLEAN : device' = IF opens THEN "none" ELSE "asking"
    /\ Step("select")
    /\ UNCHANGED <<browser, queryCh, deviceCodeFlowCh, tokenFile, user>>

CancelLogin ==
    /\ login.pc = "select" /\ ~login.cancelled
    /\ login' = [login EXCEPT !.cancelled = TRUE]
    /\ UNCHANGED <<browser, server, device, queryCh, deviceCodeFlowCh, tokenFile, user>>

(* A request to the local server; one without a code is an answer as well. *)
Request ==
    /\ server = "serving" /\ browser.made < MaxRequests
    /\ \E answer \in {"code", "no code", "error"} :
          browser' = [made |-> browser.made + 1, handlers |-> Append(browser.handlers, answer)]
    /\ UNCHANGED <<login, server, device, queryCh, deviceCodeFlowCh, tokenFile, user>>

(* handler: the answer goes to the channel, or waits for room in it. *)
Handler ==
    /\ browser.handlers # <<>> /\ Len(queryCh) < Capacity("query")
    /\ queryCh' = Append(queryCh, Head(browser.handlers))
    /\ browser' = [browser EXCEPT !.handlers = Tail(@)]
    /\ UNCHANGED <<login, server, device, deviceCodeFlowCh, tokenFile, user>>

(* Serve returns an error when the server is closed too, and sends it. *)
Serve ==
    /\ server = "closed" /\ Len(queryCh) < Capacity("query")
    /\ queryCh' = Append(queryCh, "error") /\ server' = "ended"
    /\ UNCHANGED <<login, browser, device, deviceCodeFlowCh, tokenFile, user>>

getDeviceCodeFlowToken ==
    /\ device = "asking"
    /\ device' \in {"token", "failed"}
    /\ UNCHANGED <<login, browser, server, queryCh, deviceCodeFlowCh, tokenFile, user>>

(* startDeviceCodeFlow: after an error, an empty token is sent as well. *)
startDeviceCodeFlow ==
    /\ device \in {"token", "failed", "empty"}
    /\ \/ Len(deviceCodeFlowCh) < Capacity("device")
       \/ Capacity("device") = 0 /\ login.pc = "select"
    /\ deviceCodeFlowCh' = Append(deviceCodeFlowCh, IF device = "failed" THEN "error" ELSE device)
    /\ device' = IF device = "failed" THEN "empty" ELSE "ended"
    /\ UNCHANGED <<login, browser, server, queryCh, tokenFile, user>>

SelectAnswer ==
    /\ login.pc = "select"
    /\ \/ login.cancelled /\ Return("cancelled") /\ UNCHANGED <<queryCh, deviceCodeFlowCh>>
       \/ /\ deviceCodeFlowCh # <<>> /\ deviceCodeFlowCh' = Tail(deviceCodeFlowCh) /\ UNCHANGED queryCh
          /\ IF Head(deviceCodeFlowCh) = "error"
               THEN login' = [login EXCEPT !.pc = "returned", !.result = "device", !.took = "device"] /\ server' = "closed"
               ELSE login' = [login EXCEPT !.pc = "tenants", !.took = "device"] /\ UNCHANGED server
       \/ /\ queryCh # <<>> /\ queryCh' = Tail(queryCh) /\ UNCHANGED deviceCodeFlowCh
          /\ IF Head(queryCh) # "code"
               THEN login' = [login EXCEPT !.pc = "returned", !.result = Head(queryCh), !.took = "query"] /\ server' = "closed"
               ELSE login' = [login EXCEPT !.pc = "exchange", !.took = "query"] /\ UNCHANGED server
    /\ UNCHANGED <<browser, device, tokenFile, user>>

(* queryToken: the code is exchanged for a token. *)
ExchangeCode ==
    /\ login.pc = "exchange"
    /\ \/ Step("tenants") /\ UNCHANGED server
       \/ Return("exchange")
    /\ UNCHANGED <<browser, device, queryCh, deviceCodeFlowCh, tokenFile, user>>

(* The tenant that was asked for, or the first; "" when there is none. *)
getTenantID(tenants, requested) ==
    IF tenants = <<>> \/ (requested # "" /\ requested \notin Range(tenants)) THEN ""
    ELSE IF requested = "" THEN Head(tenants) ELSE requested

getTenantAndValidateLogin ==
    /\ login.pc = "tenants"
    /\ LET tenant == getTenantID(login.case.tenants, login.case.tenant)
       IN  \/ tenant = "" /\ Return("tenant")
           \/ tenant # "" /\ login' = [login EXCEPT !.pc = "refresh", !.token = Token(tenant, TRUE)] /\ UNCHANGED server
           \/ Return("api")
    /\ UNCHANGED <<browser, device, queryCh, deviceCodeFlowCh, tokenFile, user>>

RefreshForTenant ==
    /\ login.pc = "refresh"
    /\ \/ Step("truncate") /\ UNCHANGED server
       \/ Return("refresh")
    /\ UNCHANGED <<browser, device, queryCh, deviceCodeFlowCh, tokenFile, user>>

(* writeLoginInfo: the file is emptied, then written. *)
TruncateToken ==
    /\ login.pc = "truncate"
    /\ tokenFile' = Torn /\ Step("write")
    /\ user' = [u \in DOMAIN user |-> [user[u] EXCEPT !.raced = @ \/ user[u].pc \notin {"begin", "ok", "failed"}]]
    /\ UNCHANGED <<browser, server, device, queryCh, deviceCodeFlowCh>>

writeLoginInfo ==
    /\ login.pc = "write"
    /\ tokenFile' = login.token /\ Return("ok")
    /\ UNCHANGED <<browser, device, queryCh, deviceCodeFlowCh, user>>

-----------------------------------------------------------------------------
(* Commands that use the token, and logout. *)

UserStep(u, pc) == user' = [user EXCEPT ![u].pc = pc]
Others(u, mine) == user' = [v \in DOMAIN user |-> IF v = u THEN mine
                                                  ELSE [user[v] EXCEPT !.raced = @ \/ user[v].pc \notin {"begin", "ok", "failed"}]]
OnlyUser == UNCHANGED <<login, browser, server, device, queryCh, deviceCodeFlowCh>>

(* GetValidToken: a token that is valid is used. *)
readToken(u) ==
    /\ user[u].pc = "begin" /\ user[u].does = "use"
    /\ user' = [user EXCEPT ![u].read = tokenFile,
                            ![u].pc = CASE tokenFile.state # "written" -> "failed"
                                        [] tokenFile.state = "written" /\ tokenFile.valid -> "ok"
                                        [] OTHER -> "refresh"]
    /\ OnlyUser /\ UNCHANGED tokenFile

refreshToken(u) ==
    /\ user[u].pc = "refresh"
    /\ \/ user[u].read.refresh /\ user' = [user EXCEPT ![u].read = Token(@.tenant, TRUE), ![u].pc = "truncate"]
       \/ UserStep(u, "failed")
    /\ OnlyUser /\ UNCHANGED tokenFile

TruncateRefreshed(u) ==
    /\ user[u].pc = "truncate"
    /\ tokenFile' = Torn /\ Others(u, [user[u] EXCEPT !.pc = "write"])
    /\ OnlyUser

WriteRefreshed(u) ==
    /\ user[u].pc = "write"
    /\ tokenFile' = user[u].read /\ UserStep(u, "ok")
    /\ OnlyUser

(* Mutant: the file is emptied, not removed. *)
Logout_Empties(u) ==
    /\ user[u].pc = "begin" /\ user[u].does = "logout"
    /\ tokenFile' = Torn
    /\ Others(u, [user[u] EXCEPT !.pc = IF tokenFile.state = "absent" THEN "failed" ELSE "ok"])
    /\ OnlyUser

Logout(u) ==
    /\ user[u].pc = "begin" /\ user[u].does = "logout"
    /\ tokenFile' = Absent
    /\ Others(u, [user[u] EXCEPT !.pc = IF tokenFile.state = "absent" THEN "failed" ELSE "ok"])
    /\ OnlyUser

(* Time passes. *)
Expire ==
    /\ tokenFile.state = "written" /\ tokenFile.valid
    /\ tokenFile' = [tokenFile EXCEPT !.valid = FALSE]
    /\ OnlyUser /\ UNCHANGED user

-----------------------------------------------------------------------------
StartLogin(pc, case) == [pc |-> pc, case |-> case, cancelled |-> FALSE, took |-> "", result |-> "", token |-> Absent]
NoCase == [tenant |-> "", clientID |-> FALSE, secret |-> FALSE, tenants |-> <<>>]
LoginShared == browser = [made |-> 0, handlers |-> <<>>] /\ server = "none" /\ device = "none" /\ queryCh = <<>> /\ deviceCodeFlowCh = <<>>
LoginIdle == LoginShared /\ login = StartLogin("idle", NoCase) /\ tokenFile = Absent /\ user = << >>
LoginInit == /\ LoginShared
             /\ \E case \in LoginCases : login = StartLogin("begin", case)
             /\ \E does \in Users : user = [u \in DOMAIN does |-> [does |-> does[u], pc |-> "begin", read |-> Absent, raced |-> FALSE]]
             /\ tokenFile \in {Absent, [Token("old", TRUE) EXCEPT !.valid = FALSE]}

LoginStep == \/ Begin \/ LoginServicePrincipal \/ Login \/ SelectAnswer \/ ExchangeCode \/ getTenantAndValidateLogin \/ RefreshForTenant
             \/ TruncateToken \/ writeLoginInfo
GoroutineStep == Handler \/ Serve \/ startDeviceCodeFlow
UserSteps == \E u \in DOMAIN user : readToken(u) \/ refreshToken(u) \/ TruncateRefreshed(u) \/ WriteRefreshed(u) \/ Logout(u)
LoginOver == login.pc = "returned" /\ \A u \in DOMAIN user : user[u].pc \in {"ok", "failed"}
LoginNext == LoginStep \/ GoroutineStep \/ UserSteps \/ CancelLogin \/ Request \/ getDeviceCodeFlowToken \/ Expire
               \/ (LoginOver /\ UNCHANGED loginVars)
LoginFairness == WF_loginVars(LoginStep) /\ WF_loginVars(GoroutineStep)

-----------------------------------------------------------------------------
(***************************************************************************)
(* A logout is final: with nobody logging in, a token that is there after  *)
(* it was written by a command that had read the old one before.           *)
(***************************************************************************)
LogoutHolds ==
    (\E u \in DOMAIN user : user[u].does = "logout" /\ user[u].pc = "ok")
        => \/ tokenFile.state = "absent"
           \/ login.pc = "write" \/ login.result = "ok"
           \/ \E u \in DOMAIN user : user[u].raced

(***************************************************************************)
(* The goroutine of the device code ends when its answer was taken, though *)
(* it sends twice after an error; when another answer won, it may wait     *)
(* for ever.                                                               *)
(***************************************************************************)
DeviceEnds == (login.took = "device" /\ login.pc = "returned") ~> (device = "ended")

(* A login that is cancelled while it waits returns. *)
CancelReturns == (login.pc = "select" /\ login.cancelled) ~> (login.pc = "returned")

(***************************************************************************)
(* The goroutines of a login let it return and end (Login,                 *)
(* startDeviceCodeFlow).                                                   *)
(***************************************************************************)
LoginEnds == DeviceEnds /\ CancelReturns
=============================================================================
