------------------------------- MODULE DavFS -------------------------------
(***************************************************************************)
(* The requests of the WebDAV client that a remote shelf is read through   *)
(* (internal/davfs): their retries, their redirects and the credential     *)
(* they share.  The user changes the password on the server and in the     *)
(* secret store, in either order, while requests are under way.            *)
(***************************************************************************)
EXTENDS Naturals

CONSTANTS
    Callers,       \* goroutines that send requests
    Secrets,       \* passwords
    MaxAttempts,   \* maxAttempts
    MaxRedirects,  \* maxRedirects
    None

VARIABLES
    accepted,   \* the password that the server accepts
    store,      \* the password in the secret store
    credential, \* FS.credential, or None before it is resolved
    call,       \* call[c]: the request of c
    sends,      \* sends[c]: how often it was sent
    steady      \* steady[c]: since it began, accepted and store have agreed, and
                \* the store has answered whenever c asked it

davvars == <<accepted, store, credential, call, sends, steady>>

Idle == [at |-> "idle", attempt |-> 0, redirects |-> 0, refreshed |-> FALSE, auth |-> None]

DavInit ==
    /\ accepted \in Secrets /\ store = accepted /\ credential = None
    /\ call = [c \in Callers |-> Idle] /\ sends = [c \in Callers |-> 0]
    /\ steady = [c \in Callers |-> FALSE]

(***************************************************************************)
(* FS.do.                                                                  *)
(***************************************************************************)
Do(c) ==
    /\ call[c].at \in {"idle", "answered", "failed", "refused"}
    /\ call' = [call EXCEPT ![c] = [Idle EXCEPT !.at = "authorize", !.attempt = 1]]
    /\ sends' = [sends EXCEPT ![c] = 0]
    /\ steady' = [steady EXCEPT ![c] = accepted = store]
    /\ UNCHANGED <<accepted, store, credential>>

\* authorization: the secret store is asked once, and again only to refresh.
Authorize(c) ==
    /\ call[c].at = "authorize"
    /\ LET resolved == IF credential = None THEN store ELSE credential
       IN /\ credential' = resolved
          /\ call' = [call EXCEPT ![c].auth = resolved, ![c].at = "send"]
    /\ UNCHANGED <<accepted, store, sends, steady>>

\* A store that fails before there is a credential ends the request as a 401 would.
Unresolved(c) ==
    /\ call[c].at = "authorize" /\ credential = None
    /\ call' = [call EXCEPT ![c].at = "refused"]
    /\ steady' = [steady EXCEPT ![c] = FALSE]
    /\ UNCHANGED <<accepted, store, credential, sends>>

\* The replies: a success, a redirect to the same host, which costs no attempt, ...
Send(c, next) ==
    /\ call[c].at = "send"
    /\ sends' = [sends EXCEPT ![c] = @ + 1]
    /\ call' = [call EXCEPT ![c] = next]
    /\ UNCHANGED <<accepted, store, credential, steady>>

Answered(c) == call[c].auth = accepted /\ Send(c, [call[c] EXCEPT !.at = "answered"])

Redirected(c) ==
    Send(c, IF call[c].redirects < MaxRedirects
            THEN [call[c] EXCEPT !.redirects = call[c].redirects + 1, !.at = "authorize"]
            ELSE [call[c] EXCEPT !.at = "failed"])

\* ... 401, a lost connection or a status worth another attempt, another failure, or
\* the end of the request's time.
Unauthorized(c) ==
    /\ call[c].auth # accepted
    /\ Send(c, [call[c] EXCEPT !.at = IF call[c].refreshed THEN "refused" ELSE "refresh"])

Retried(c) ==
    Send(c, IF call[c].attempt = MaxAttempts
            THEN [call[c] EXCEPT !.at = "failed"]
            ELSE [call[c] EXCEPT !.attempt = call[c].attempt + 1, !.at = "authorize"])

Failed(c) == Send(c, [call[c] EXCEPT !.at = "failed"])

\* Fault: the credential in memory is taken for the one in the store.
FreshCached == credential

\* After a 401 the store is asked again, and another secret sends the request anew
\* without costing an attempt.  The same secret, or a store that fails, leaves the 401.
Fresh == store

Refresh(c) ==
    /\ call[c].at = "refresh"
    /\ \/ /\ credential' = Fresh
          /\ call' = [call EXCEPT ![c].refreshed = TRUE,
                 ![c].at = IF Fresh # call[c].auth THEN "authorize" ELSE "refused"]
          /\ UNCHANGED steady
       \/ /\ call' = [call EXCEPT ![c].refreshed = TRUE, ![c].at = "refused"]
          /\ steady' = [steady EXCEPT ![c] = FALSE]
          /\ UNCHANGED credential
    /\ UNCHANGED <<accepted, store, sends>>

\* Environment: the password changes on the server, and in the store.
ChangePassword ==
    /\ \E s \in Secrets \ {accepted} : accepted' = s
    /\ steady' = [c \in Callers |-> FALSE]
    /\ UNCHANGED <<store, credential, call, sends>>

SaveSecret ==
    /\ \E s \in Secrets \ {store} : store' = s
    /\ steady' = [c \in Callers |-> FALSE]
    /\ UNCHANGED <<accepted, credential, call, sends>>

Request(c) ==
    \/ Do(c) \/ Authorize(c) \/ Unresolved(c) \/ Answered(c) \/ Redirected(c)
    \/ Unauthorized(c) \/ Retried(c) \/ Failed(c) \/ Refresh(c)

DavNext ==
    \/ \E c \in Callers : Request(c)
    \/ ChangePassword \/ SaveSecret

DavSpec == DavInit /\ [][DavNext]_davvars
----------------------------------------------------------------------------
\* A request ends in 401 only when the password changed during it, or the secret store
\* did not have the server's or did not answer this request: a credential that went
\* stale in memory, that another request is refreshing, or that another could not
\* refresh, never is the reason (FS.do, FS.authorization).
RefusedForACause == \A c \in Callers : call[c].at = "refused" => ~steady[c]

\* However its failures, redirects and the refresh mix, a request is sent a bounded
\* number of times: neither kind of free attempt can feed the other (FS.do).
SendsAreBounded == \A c \in Callers : sends[c] <= MaxAttempts + MaxRedirects + 1
=============================================================================
