------------------------------ MODULE Connector ------------------------------
(***************************************************************************)
(* The read-only MCP connector: the OAuth authorization server ChatGPT     *)
(* signs in to (apps/api/app/mcp_oauth.py), its rate limiter               *)
(* (apps/api/app/security.py) and the JSON-RPC endpoint its tokens open    *)
(* (apps/api/app/mcp_surface.py).                                          *)
(*                                                                         *)
(* Clients, codes and token digests live in module dictionaries; every     *)
(* change of the clients or the tokens is followed by _persist(), which    *)
(* writes the whole document under _persist_lock and only logs a failure.  *)
(* Everything a handler does up to an await is one step, so a put in       *)
(* flight is a state of its own: other requests run beside it, more        *)
(* handlers queue for the lock, and the process may stop.                  *)
(*                                                                         *)
(* A client, a code and a token are numbered in the order they are made.   *)
(* line (the approval a token descends from) and token (the                *)
(* MCP_API_TOKEN it was approved with) are history fields of a grant: no   *)
(* guard reads them.                                                       *)
(***************************************************************************)
EXTENDS Integers, FiniteSets, Sequences

CONSTANTS
    Secrets,        \* the values MCP_API_TOKEN may be given by a deploy
    MaxClients,     \* MAX_CLIENTS
    MaxTokens,      \* MAX_TOKENS
    ApprovalLimit,  \* the limit of approval_limiter
    Window,         \* its window_seconds, in ticks
    CodeTTL, AccessTTL, RefreshTTL,
    LastTick,       \* bound: the clock stops here
    Messages,       \* the shapes of the JSON-RPC messages callers send
    MaxMade,        \* bound: codes and tokens ever made
    MaxRegistered,  \* bound: clients ever registered
    MaxRestarts     \* bound: deploys and crashes

VARIABLES
    secret,   \* settings.mcp_api_token of the running process
    clients,  \* _clients
    codes,    \* _codes: digest -> [client, expires]
    grants,   \* _grants: digest -> [client, kind, expires, line, token]
    hits,     \* approval_limiter._hits of the one caller
    saving,   \* the document a put is writing under _persist_lock, or NoDocument
    waiting,  \* handlers queued for _persist_lock
    stored,   \* the mcp_oauth row of the control store
    answer,   \* what the MCP endpoint answered, when the last step was a call
    clock, made, registered, restarts,
    revoked,  \* history: the approvals revoke_all has cleared
    gone      \* history: those of them a completed put recorded

memory == <<clients, codes, grants, hits>>
saves == <<saving, waiting, stored, gone>>
counts == <<registered, restarts>>
vars == <<secret, memory, saves, answer, clock, made, counts, revoked>>

NoDocument == [kind |-> "none"]
Quiet == [kind |-> "none"]
Empty == <<>>

Drop(f, S) == [x \in DOMAIN f \ S |-> f[x]]
With(f, x, v) == [y \in DOMAIN f \cup {x} |-> IF y = x THEN v ELSE f[y]]

----------------------------------------------------------------------------
(* The rate limiter and the dictionaries' housekeeping.                    *)

\* SlidingWindowRateLimiter.allow: the hits still in the window, and whether
\* one more fits.
Recent(now) == SelectSeq(hits, LAMBDA t : t > now - Window)
allow(now) == Len(Recent(now)) < ApprovalLimit
Hit(now) == hits' = IF allow(now) THEN Append(Recent(now), now) ELSE Recent(now)

Expired(f) == {x \in DOMAIN f : f[x].expires <= clock}
_prune(f) == Drop(f, Expired(f))

\* What _document() would write of these dictionaries (codes are never saved).
\* lines is the history beside it: what has been revoked by then.
_document(cl, gr, lines) == [kind |-> "document", token_fingerprint |-> secret,
                             clients |-> cl, grants |-> gr, lines |-> lines]

\* _persist() at the end of a handler that leaves the dictionaries cl and gr:
\* with the lock free the document is computed at once, otherwise it is
\* computed when the lock is handed over.
_persist(cl, gr, lines) ==
    IF saving = NoDocument
    THEN saving' = _document(cl, gr, lines) /\ UNCHANGED waiting
    ELSE waiting' = waiting + 1 /\ UNCHANGED saving

\* The put ends, well or with an exception that is only logged; the next
\* handler in the queue computes the document of this moment.
PutEnds(ok) ==
    /\ saving # NoDocument
    /\ IF ok THEN stored' = saving /\ gone' = gone \cup saving.lines
             ELSE UNCHANGED <<stored, gone>>
    /\ IF waiting > 0
       THEN /\ waiting' = waiting - 1
            /\ saving' = _document(clients, grants, revoked)
       ELSE saving' = NoDocument /\ UNCHANGED waiting
    /\ UNCHANGED <<secret, memory, clock, made, counts, revoked>>
    /\ answer' = Quiet

----------------------------------------------------------------------------
(* Registration, authorization and tokens.                                 *)

\* register_client: a well-formed registration while the registry has room.
register_client ==
    /\ registered < MaxRegistered
    /\ Cardinality(clients) < MaxClients
    /\ registered' = registered + 1
    /\ clients' = clients \cup {registered + 1}
    /\ grants' = _prune(grants) /\ codes' = _prune(codes)
    /\ _persist(clients', grants', revoked)
    /\ UNCHANGED <<secret, hits, stored, gone, clock, made, restarts, revoked>>
    /\ answer' = Quiet

\* authorize_decision with decision = approve: supplied is the secret typed in
\* the form, compared only when the limiter allows another attempt.
authorize_decision ==
    \E c \in clients, supplied \in Secrets :
        /\ made < MaxMade
        /\ Hit(clock)
        /\ IF allow(clock) /\ supplied = secret
           THEN /\ made' = made + 1
                /\ codes' = With(_prune(codes), made + 1,
                                 [client |-> c, expires |-> clock + CodeTTL])
                /\ grants' = _prune(grants)
           ELSE UNCHANGED <<codes, grants, made>>
        /\ answer' = Quiet
        /\ UNCHANGED <<secret, clients, saves, clock, counts, revoked>>

\* _issue for a client after old has been popped from the grants: refused at
\* the cap, otherwise an access and a refresh token are added. (At the cap
\* minus one the second token goes one over it.)
_issue(c, line, old) ==
    LET kept == _prune(Drop(grants, old)) IN
    IF Cardinality(DOMAIN kept) >= MaxTokens
    THEN grants' = kept /\ UNCHANGED <<saving, waiting, made>>
    ELSE LET G(kind, ttl) == [client |-> c, kind |-> kind, expires |-> clock + ttl,
                              line |-> line, token |-> secret]
         IN /\ made' = made + 2
            /\ grants' = With(With(kept, made + 1, G("access", AccessTTL)),
                              made + 2, G("refresh", RefreshTTL))
            /\ _persist(clients, grants', revoked)

\* token with grant_type authorization_code: the code is popped whatever
\* follows; proven says that redirect_uri, code_verifier and resource match.
redeem_code(c, x, proven) ==
    /\ c \in clients /\ x \in DOMAIN codes
    /\ made + 2 <= MaxMade
    /\ IF proven /\ codes[x].expires > clock /\ codes[x].client = c
       THEN /\ codes' = _prune(Drop(codes, {x}))
            /\ _issue(c, x, {})
       ELSE /\ codes' = Drop(codes, {x})
            /\ UNCHANGED <<grants, saving, waiting, made>>
    /\ UNCHANGED <<secret, clients, hits, stored, gone, clock, counts, revoked>>
    /\ answer' = Quiet

\* token with grant_type refresh_token: whatever token is presented is popped
\* first, then checked.
refresh_grant(c, x) ==
    /\ c \in clients /\ x \in DOMAIN grants
    /\ made + 2 <= MaxMade
    /\ LET g == grants[x] IN
       IF g.kind = "refresh" /\ g.client = c /\ g.expires > clock
       THEN codes' = _prune(codes) /\ _issue(c, g.line, {x})
       ELSE grants' = Drop(grants, {x}) /\ UNCHANGED <<codes, saving, waiting, made>>
    /\ UNCHANGED <<secret, clients, hits, stored, gone, clock, counts, revoked>>
    /\ answer' = Quiet

token ==
    \/ \E c \in 1..registered, x \in 1..made, proven \in BOOLEAN : redeem_code(c, x, proven)
    \/ \E c \in 1..registered, x \in 1..made : refresh_grant(c, x)

\* revoke_all: every connector is signed out and forgotten, then saved.
revoke_all ==
    /\ DOMAIN grants # {} \/ DOMAIN codes # {}
    /\ clients' = {} /\ codes' = Empty /\ grants' = Empty
    /\ revoked' = revoked \cup {grants[x].line : x \in DOMAIN grants} \cup DOMAIN codes
    /\ _persist(clients', grants', revoked')
    /\ UNCHANGED <<secret, hits, stored, gone, clock, made, counts>>
    /\ answer' = Quiet

----------------------------------------------------------------------------
(* The MCP endpoint.                                                       *)

\* valid_access_token: a live access token of this process.
valid_access_token(x) ==
    x \in DOMAIN grants /\ grants[x].kind = "access" /\ grants[x].expires > clock

\* _authorized: the static token itself, or a valid access token.
_authorized(credential) ==
    \/ credential = <<"static", secret>>
    \/ \E x \in 1..made : credential = <<"oauth", x>> /\ valid_access_token(x)

\* mcp_endpoint for a message whose id, method and parameters are message: the
\* checks in the order of the handler, then the method.
Outcome(credential, message) ==
    IF ~_authorized(credential) THEN "401"
    ELSE IF message = "unversioned" THEN "400"
    ELSE IF message = "oversized" THEN "413"
    ELSE IF message = "malformed" THEN "400"
    ELSE IF message = "notification" THEN "202"
    ELSE IF message = "other" THEN "method not found"
    ELSE "answered"

mcp_endpoint ==
    \E credential \in {<<"static", s>> : s \in Secrets} \cup {<<"oauth", x>> : x \in 1..made},
       message \in Messages :
        /\ answer' = [kind |-> Outcome(credential, message), by |-> credential]
        /\ UNCHANGED <<secret, memory, saves, clock, made, counts, revoked>>

----------------------------------------------------------------------------
(* The clock, and a restart.                                               *)

Tick ==
    /\ clock < LastTick
    /\ clock' = clock + 1
    /\ answer' = Quiet
    /\ UNCHANGED <<secret, memory, saves, made, counts, revoked>>

\* A faulty restore_oauth, which takes a document of any MCP_API_TOKEN.
RestoreAnyToken(s, readable) ==
    IF readable /\ stored # NoDocument
    THEN clients' = stored.clients /\ grants' = stored.grants
    ELSE clients' = {} /\ grants' = Empty

\* restore_oauth at start-up with the configured secret s: the saved document
\* counts only under the same fingerprint, and only unexpired tokens of known
\* clients come back.
restore_oauth(s, readable) ==
    IF readable /\ stored # NoDocument /\ stored.token_fingerprint = s
    THEN /\ clients' = stored.clients
         /\ grants' = Drop(stored.grants,
                           {x \in DOMAIN stored.grants :
                               \/ stored.grants[x].client \notin stored.clients
                               \/ stored.grants[x].expires <= clock})
    ELSE clients' = {} /\ grants' = Empty

\* The process stops between two steps and is started again, by a deploy that
\* may have rotated the secret; a put in flight is lost (one that had committed
\* is PutEnds(TRUE) just before).
Restart ==
    \E s \in Secrets, readable \in BOOLEAN :
        /\ restarts < MaxRestarts
        /\ restarts' = restarts + 1
        /\ secret' = s
        /\ restore_oauth(s, readable)
        /\ codes' = Empty /\ hits' = Empty
        /\ saving' = NoDocument /\ waiting' = 0
        /\ answer' = Quiet
        /\ revoked' = gone
        /\ UNCHANGED <<stored, gone, clock, made, registered>>

Init ==
    /\ secret \in Secrets
    /\ clients = {} /\ codes = Empty /\ grants = Empty /\ hits = Empty
    /\ saving = NoDocument /\ waiting = 0 /\ stored = NoDocument
    /\ answer = Quiet
    /\ clock = 0 /\ made = 0 /\ registered = 0 /\ restarts = 0
    /\ revoked = {} /\ gone = {}

Next ==
    \/ register_client
    \/ authorize_decision
    \/ token
    \/ revoke_all
    \/ mcp_endpoint
    \/ PutEnds(TRUE)
    \/ PutEnds(FALSE)
    \/ Tick
    \/ Restart

Spec == Init /\ [][Next]_vars

----------------------------------------------------------------------------

\* The dictionaries hold what their types say, a client is known to every
\* document that names it, and the token cap is overrun by at most the one
\* token _issue adds after its check.
TypeOK ==
    /\ secret \in Secrets
    /\ clients \subseteq 1..registered /\ Cardinality(clients) <= MaxClients
    /\ DOMAIN codes \subseteq 1..made
    /\ \A x \in DOMAIN grants : grants[x].kind \in {"access", "refresh"}
    /\ Cardinality(DOMAIN grants) <= MaxTokens + 1
    /\ Len(hits) <= ApprovalLimit
    /\ waiting > 0 => saving # NoDocument

\* Every token the connector honours descends from one approval: the operator
\* typed the MCP_API_TOKEN now configured, no completed save has recorded its
\* revocation, and an approval has at most one live refresh token, whatever
\* saves failed, raced or were cut off by a restart (rotation in token(),
\* revoke_all, the fingerprint in restore_oauth, the lock in _persist).
ServedByOneApproval ==
    /\ \A x \in DOMAIN grants : grants[x].token = secret /\ grants[x].line \notin gone
    /\ \A x, y \in DOMAIN grants :
          /\ grants[x].kind = "refresh" /\ grants[y].kind = "refresh"
          /\ grants[x].line = grants[y].line
          => x = y
    /\ answer.kind = "answered" =>
          \/ answer.by = <<"static", secret>>
          \/ /\ answer.by[2] \in DOMAIN grants
             /\ grants[answer.by[2]].kind = "access"
             /\ grants[answer.by[2]].expires > clock
=============================================================================
