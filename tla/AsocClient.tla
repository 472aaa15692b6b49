----------------------------- MODULE AsocClient -----------------------------
(***************************************************************************)
(* One ASoC client (integrations/appscan_api/client.py) and the calls that *)
(* use it concurrently.                                                    *)
(*                                                                         *)
(* A call logs in for a bearer token unless the client has one that has    *)
(* not expired, and falls back to the API key.  Rate-limited requests are  *)
(* repeated after a pause; a rejected request is repeated with other       *)
(* credentials.  The token is shared, everything else is local to a call.  *)
(* ASoC itself is external: it may answer anything at any time.            *)
(*                                                                         *)
(* An action is the code between two awaits: a login, a request, a pause.  *)
(***************************************************************************)
EXTENDS Naturals, FiniteSets

CONSTANTS
    Calls,      \* coroutines that call get or get_count, again and again
    Tokens,     \* bearer tokens, recycled when nobody holds them
    Key,        \* the API key as a credential
    MaxRetries, \* _MAX_429_RETRIES
    None

ASSUME ClientAssumption ==
    /\ IsFiniteSet(Calls) /\ IsFiniteSet(Tokens)
    /\ Cardinality(Tokens) > Cardinality(Calls) + 1
    /\ Key \notin Tokens /\ None \notin Tokens /\ Key # None
    /\ MaxRetries \in Nat

VARIABLES
    token,      \* _access_token
    expired,    \* _is_expired(_access_token_expiry), also without an expiry
    loggedIn,   \* _login_succeeded
    pc,         \* what a call awaits: login, request, pause; or done
    header,     \* the credential in headers
    stage,      \* first request, again after a new login, or switched to the key
    retries,    \* retry_index
    resp,       \* the last response, or the exception
    logins,     \* how often a call has logged in
    sent        \* how many requests a call has sent

client == <<token, expired, loggedIn>>
vars == <<client, pc, header, stage, retries, resp, logins, sent>>

\* The status of a response and whether its body is what the method can read:
\* JSON, or for get_count also a bare number.  The two methods differ in nothing
\* else, but that in the end an unreadable body is an error for get and the
\* count 0 for get_count.
Response == [status : {"ok", "denied", "limited", "failed"}, readable : BOOLEAN]

Exception == [status |-> "exception", readable |-> FALSE]

NoResponse == [status |-> "none", readable |-> FALSE]

Init ==
    /\ token = None
    /\ expired = TRUE
    /\ loggedIn = None
    /\ pc = [c \in Calls |-> "done"]
    /\ header = [c \in Calls |-> None]
    /\ stage = [c \in Calls |-> "first"]
    /\ retries = [c \in Calls |-> 0]
    /\ resp = [c \in Calls |-> NoResponse]
    /\ logins = [c \in Calls |-> 0]
    /\ sent = [c \in Calls |-> 0]

----------------------------------------------------------------------------
(* Credentials *)

Reusable == token # None /\ ~expired

\* A call starts: _get_auth_header up to its first await.
Begin(c) ==
    /\ pc[c] = "done"
    /\ stage' = [stage EXCEPT ![c] = "first"]
    /\ retries' = [retries EXCEPT ![c] = 0]
    /\ resp' = [resp EXCEPT ![c] = NoResponse]
    /\ logins' = [logins EXCEPT ![c] = 0]
    /\ sent' = [sent EXCEPT ![c] = 0]
    /\ pc' = [pc EXCEPT ![c] = IF Reusable THEN "request" ELSE "login"]
    /\ header' = [header EXCEPT ![c] = IF Reusable THEN token ELSE None]
    /\ UNCHANGED client

\* _login_with_api_key succeeds: the last login to end has its token cached.
\* ASoC may send no expiry, which counts as expired.
LoginSucceeds(c) ==
    /\ pc[c] = "login"
    /\ \E t \in Tokens :
          /\ t # token /\ \A d \in Calls : header[d] # t
          /\ token' = t
          /\ header' = [header EXCEPT ![c] = t]
    /\ expired' \in BOOLEAN
    /\ loggedIn' = TRUE
    /\ logins' = [logins EXCEPT ![c] = @ + 1]
    /\ pc' = [pc EXCEPT ![c] = "request"]
    /\ UNCHANGED <<stage, retries, resp, sent>>

\* It fails in whatever way: the call goes on with the API key.
LoginFails(c) ==
    /\ pc[c] = "login"
    /\ loggedIn' = FALSE
    /\ header' = [header EXCEPT ![c] = Key]
    /\ logins' = [logins EXCEPT ![c] = @ + 1]
    /\ pc' = [pc EXCEPT ![c] = "request"]
    /\ UNCHANGED <<token, expired, stage, retries, resp, sent>>

Expire ==
    /\ token # None /\ ~expired
    /\ expired' = TRUE
    /\ UNCHANGED <<token, loggedIn, pc, header, stage, retries, resp, logins, sent>>

----------------------------------------------------------------------------
(* Requests *)

RetriesLeft_OneMore(c) == retries[c] <= MaxRetries

RetriesLeft(c) == retries[c] < MaxRetries

\* The request was rejected under the API key: log in again.
LogsInAgain_Always(c, r) == r.status = "denied" /\ header[c] = Key

LogsInAgain(c, r) == r.status = "denied" /\ header[c] = Key /\ stage[c] = "first"

\* _fallback_headers: a bearer token that gets no usable answer gives way to the key.
Switches_OnlyUnreadable(c, r) == ~r.readable /\ header[c] # Key

Switches(c, r) == (r.status = "denied" \/ ~r.readable) /\ header[c] # Key

\* _get_with_429_retry and the decisions of get and get_count about response r.
Respond(c, r) ==
    /\ pc[c] = "request"
    /\ resp' = [resp EXCEPT ![c] = r]
    /\ sent' = [sent EXCEPT ![c] = @ + 1]
    /\ \/ /\ r.status = "limited" /\ RetriesLeft(c)
          /\ pc' = [pc EXCEPT ![c] = "pause"]
          /\ retries' = [retries EXCEPT ![c] = @ + 1]
          /\ UNCHANGED <<token, expired, header, stage>>
       \/ /\ ~(r.status = "limited" /\ RetriesLeft(c))
          /\ \/ /\ LogsInAgain(c, r)
                /\ retries' = [retries EXCEPT ![c] = 0]
                /\ token' = None
                /\ expired' = TRUE
                /\ stage' = [stage EXCEPT ![c] = "again"]
                /\ pc' = [pc EXCEPT ![c] = "login"]
                /\ UNCHANGED header
             \/ /\ ~LogsInAgain(c, r) /\ Switches(c, r)
                /\ retries' = [retries EXCEPT ![c] = 0]
                /\ header' = [header EXCEPT ![c] = Key]
                /\ stage' = [stage EXCEPT ![c] = "switched"]
                /\ UNCHANGED <<token, expired, pc>>
             \/ /\ ~LogsInAgain(c, r) /\ ~Switches(c, r)
                /\ pc' = [pc EXCEPT ![c] = "done"]
                /\ UNCHANGED <<token, expired, header, stage, retries>>
    /\ UNCHANGED <<loggedIn, logins>>

\* No response: the exception of the HTTP library is the caller's.
Fail(c) ==
    /\ pc[c] = "request"
    /\ resp' = [resp EXCEPT ![c] = Exception]
    /\ sent' = [sent EXCEPT ![c] = @ + 1]
    /\ pc' = [pc EXCEPT ![c] = "done"]
    /\ UNCHANGED <<client, header, stage, retries, logins>>

\* The pause after a 429 is over.
Resume(c) ==
    /\ pc[c] = "pause"
    /\ pc' = [pc EXCEPT ![c] = "request"]
    /\ UNCHANGED <<client, header, stage, retries, resp, logins, sent>>

Next ==
    \/ \E c \in Calls :
          \/ Begin(c) \/ LoginSucceeds(c) \/ LoginFails(c)
          \/ \E r \in Response : Respond(c, r)
          \/ Fail(c) \/ Resume(c)
    \/ Expire

Spec == Init /\ [][Next]_vars

----------------------------------------------------------------------------
(* Properties *)

\* The client's and the calls' variables have their types, and a call that sends
\* a request has a credential.
TypeOK ==
    /\ token \in Tokens \cup {None}
    /\ expired \in BOOLEAN
    /\ loggedIn \in BOOLEAN \cup {None}
    /\ pc \in [Calls -> {"login", "request", "pause", "done"}]
    /\ header \in [Calls -> Tokens \cup {Key, None}]
    /\ stage \in [Calls -> {"first", "again", "switched"}]
    /\ retries \in [Calls -> 0 .. MaxRetries]
    /\ resp \in [Calls -> Response \cup {Exception, NoResponse}]
    /\ logins \in [Calls -> Nat]
    /\ sent \in [Calls -> Nat]
    /\ \A c \in Calls : pc[c] \in {"request", "pause"} => header[c] # None

\* Retries after 429, the second login and the switch of credentials add up, but
\* not without end: a call sends three rounds of requests and logs in twice at
\* most, whatever ASoC answers and whatever other calls do to the token.
AttemptsBounded ==
    \A c \in Calls : sent[c] <= 3 * (MaxRetries + 1) /\ logins[c] <= 2

\* A call gives up as unauthorized or unreadable only under the API key, so not
\* because of a token that another call obtained long ago, and as rate-limited
\* only after all retries.
GivesUpLate ==
    \A c \in Calls : pc[c] = "done" =>
        /\ resp[c].status = "denied" => header[c] = Key
        /\ resp[c].status = "ok" /\ ~resp[c].readable => header[c] = Key
        /\ resp[c].status = "limited" => retries[c] = MaxRetries

\* "Retry once with a refreshed bearer token on auth failure" (client.py:290): a
\* call whose bearer token is rejected logs in again.
DenialRefreshesToken ==
    [][\A c \in Calls :
        sent'[c] > sent[c] /\ resp'[c].status = "denied" /\ header[c] \in Tokens
            => pc'[c] = "login"]_vars
=============================================================================
