---------------------------- MODULE Conversation ----------------------------
(***************************************************************************)
(* The ChatGPT conversation: the profile's credential file, shared by the  *)
(* processes of the host (services/chatgpt/chatgpt_credentials.py,         *)
(* chatgpt_connect.py, chatgpt_accounts.py, storage.py), the inference     *)
(* provider (chatgpt_provider.py) and the conversation routes              *)
(* (apps/api/app/conversation_surface.py, services/chatgpt/conversations.py).*)
(*                                                                         *)
(* The refresh token rotates: the server (external) honours a refresh      *)
(* token once and answers with its successor. Requests of the API, the     *)
(* sign-in command and sign-out all meet at one credential file, written   *)
(* by an atomic replace, under one file lock. Steps end where the code     *)
(* waits for the lock, the server, the database or the browser.            *)
(*                                                                         *)
(* Tokens are numbered in the order the server makes them; 0 is no token.  *)
(***************************************************************************)
EXTENDS Integers, FiniteSets, Sequences

CONSTANTS
    Tasks,        \* API requests and commands that may be under way together
    Subjects,     \* ChatGPT accounts the browser may be signed in to
    MaxMessages,  \* the 38 messages after which send refuses a conversation
    MaxRefresh,   \* bound: refresh tokens the server makes
    MaxExpiries,  \* bound: times the access token on disk expires
    MaxRequests   \* bound: requests and commands started

VARIABLES
    disk,      \* the credential file: [client, subject, refresh, fresh, plan]
    flock,     \* the task that holds the profile's file lock, or Nobody
    gate,      \* the task that holds _gate, or Nobody
    conv,      \* the conversation's row: the questions answered, in order
    requested, \* versions journalled as CONVERSATION_REQUESTED
    task,      \* what every task is doing
    honoured,  \* external: refresh tokens the server would still accept
    made,      \* external: refresh tokens the server ever made
    lost,      \* history: tokens used up in a call whose answer never arrived or was unusable
    replied,   \* history: questions answered to the operator, with the version
    expiries, requests

server == <<honoured, made, lost>>
vars == <<disk, flock, gate, conv, requested, task, server, replied, expiries, requests>>

Nobody == "nobody"
NoFile == [client |-> 0, subject |-> "none", refresh |-> 0, fresh |-> FALSE, plan |-> FALSE]
Idle == [op |-> "idle", pc |-> "idle", record |-> NoFile, seen |-> 0, client |-> 0]

At(t, op, pc) == task[t].op = op /\ task[t].pc = pc
Becomes(t, new) == task' = [task EXCEPT ![t] = new]
Goes(t, pc) == task' = [task EXCEPT ![t].pc = pc]
Ends(t) == Becomes(t, Idle)

\* A task leaves: whatever lock it holds is released with it.
Release(t) ==
    /\ flock' = IF flock = t THEN Nobody ELSE flock
    /\ gate' = IF gate = t THEN Nobody ELSE gate
    /\ Ends(t)

----------------------------------------------------------------------------
(* The credential file.                                                    *)

\* _read: a usable record has an access and a refresh token and the plan scope.
_read == disk.refresh # 0 /\ disk.plan
\* identity: a usable record of a known account.
identity == _read /\ disk.subject # "none"

\* _write after a refresh: new tokens on the record read before, nothing else.
_write(previous, refresh) == disk' = [previous EXCEPT !.refresh = refresh, !.fresh = TRUE]

\* A faulty clear, which forgets the account too.
ClearAll(record) == disk' = [NoFile EXCEPT !.client = record.client]

\* _clear_unusable_tokens and _clear_local_tokens: the registration and the
\* account stay, the tokens go.
_clear_tokens(record) ==
    disk' = [record EXCEPT !.refresh = 0, !.fresh = FALSE, !.plan = FALSE]

----------------------------------------------------------------------------
(* access_token: what every call to the provider begins with. Its caller   *)
(* goes on at after.                                                       *)

\* The first, unlocked read: a fresh token is used at once.
access_token_fast(t) ==
    /\ task[t].pc = "token"
    /\ IF ~_read THEN Release(t) /\ UNCHANGED disk
       ELSE IF disk.fresh THEN Goes(t, "call") /\ UNCHANGED <<flock, gate, disk>>
       ELSE /\ task' = [task EXCEPT ![t].pc = "lock", ![t].record = disk]
            /\ UNCHANGED <<flock, gate, disk>>
    /\ UNCHANGED <<conv, requested, server, replied, expiries, requests>>

\* A faulty second read: the record found before the lock is refreshed.
LockedWithoutReading(t) ==
    /\ task[t].pc = "lock" /\ flock = Nobody
    /\ flock' = t /\ Goes(t, "refresh")
    /\ UNCHANGED <<gate, disk, conv, requested, server, replied, expiries, requests>>

\* The lock is taken and the file read again: another process may have
\* refreshed it, or signed out, in the meantime.
access_token_locked(t) ==
    /\ task[t].pc = "lock" /\ flock = Nobody
    /\ IF ~_read THEN Release(t)
       ELSE IF disk.fresh THEN Goes(t, "call") /\ UNCHANGED <<flock, gate>>
       ELSE /\ flock' = t
            /\ task' = [task EXCEPT ![t].pc = "refresh", ![t].record = disk]
            /\ UNCHANGED gate
    /\ UNCHANGED <<disk, conv, requested, server, replied, expiries, requests>>

\* _refresh: the server accepts the token and rotates it, and the answer is
\* written; a token it no longer honours is a terminal error and is cleared;
\* any other error, a response that never arrives (the 60 s budget of generate,
\* the end of the process) and one that lacks the tokens or the plan scope
\* leave the file as it is.
_refresh(t) ==
    /\ task[t].pc = "refresh"
    /\ LET r == task[t].record.refresh IN
       \/ /\ r \in honoured /\ made < MaxRefresh
          /\ made' = made + 1
          /\ honoured' = (honoured \ {r}) \cup {made + 1}
          /\ \/ /\ _write(task[t].record, made + 1)
                /\ flock' = Nobody /\ Goes(t, "call")
                /\ UNCHANGED <<lost, gate>>
             \/ /\ lost' = lost \cup {r}
                /\ Release(t) /\ UNCHANGED disk
       \/ /\ r \notin honoured
          /\ _clear_tokens(task[t].record)
          /\ Release(t) /\ UNCHANGED server
       \/ Release(t) /\ UNCHANGED <<disk, server>>
    /\ UNCHANGED <<conv, requested, replied, expiries, requests>>

----------------------------------------------------------------------------
(* The provider's answer.                                                  *)

\* _raise_http_error: the structured code first, then the HTTP status.
ErrorCodes == {"usage_limit", "unavailable", "invalid_user", "unsupported", "none"}
http_error(code, status) ==
    IF code = "usage_limit" \/ status = 429 THEN "rate_limit"
    ELSE IF code = "unavailable" THEN "unavailable"
    ELSE IF code = "invalid_user" \/ status = 401 THEN "authentication"
    ELSE IF code = "unsupported" THEN "upstream"
    ELSE IF status \in {402, 403} \/ status >= 500 THEN "unavailable"
    ELSE "upstream"

\* _raise_stream_failure and _raise_stream_error, for a stream already open.
stream_error(code) ==
    CASE code = "usage_limit" -> "rate_limit"
      [] code = "unavailable" -> "unavailable"
      [] code = "invalid_user" -> "authentication"
      [] OTHER -> "upstream"

\* _events and _generate over a stream's events: the first failure ends it,
\* only a response.completed makes an answer of the text so far.
_generate(events) ==
    LET Fails(e) == e \in {<<"failed", c>> : c \in ErrorCodes} \cup {<<"incomplete">>}
        bad == {i \in 1..Len(events) : Fails(events[i])}
        first == CHOOSE i \in bad : \A j \in bad : i <= j
        e == events[first]
    IN IF bad # {}
       THEN IF e = <<"incomplete">> THEN "unavailable" ELSE stream_error(e[2])
       ELSE IF <<"completed">> \notin {events[i] : i \in 1..Len(events)} THEN "unavailable"
       ELSE IF <<"delta">> \in {events[i] : i \in 1..Len(events)} THEN "text" ELSE "empty"

Events == {<<"failed", c>> : c \in ErrorCodes}
          \cup {<<"incomplete">>, <<"delta">>, <<"completed">>}
Streams == {<<>>} \cup [1..1 -> Events] \cup [1..2 -> Events]

\* What generate can end in: an answer, a refusal, or the time budget.
Results == {_generate(s) : s \in Streams}
           \cup {http_error(c, status) : c \in ErrorCodes, status \in {400, 401, 402, 429, 503}}
           \cup {"timeout"}

----------------------------------------------------------------------------
(* The conversation routes.                                                *)

\* send: the checks before the gate; v is the version the browser last saw.
send(t, v) ==
    /\ task[t].pc = "idle" /\ requests < MaxRequests
    /\ identity /\ gate = Nobody
    /\ requests' = requests + 1
    /\ gate' = t
    /\ Becomes(t, [Idle EXCEPT !.op = "send", !.pc = "read", !.seen = v])
    /\ UNCHANGED <<disk, flock, conv, requested, server, replied, expiries>>

\* A faulty read_row, which goes on when the journal is unavailable.
AskUnjournalled(t) ==
    /\ At(t, "send", "read")
    /\ IF task[t].seen = Len(conv) /\ 2 * Len(conv) < MaxMessages
       THEN Goes(t, "token") /\ UNCHANGED <<flock, gate>>
       ELSE Release(t)
    /\ UNCHANGED <<disk, conv, requested, server, replied, expiries, requests>>

\* The row is read: a version the browser has not seen and a full
\* conversation are refused; otherwise the request is journalled (a retry of
\* the same version finds its event there). An unavailable journal ends it.
read_row(t) ==
    /\ At(t, "send", "read")
    /\ IF task[t].seen = Len(conv) /\ 2 * Len(conv) < MaxMessages
       THEN \/ /\ requested' = requested \cup {task[t].seen}
               /\ Goes(t, "token") /\ UNCHANGED <<flock, gate>>
            \/ Release(t) /\ UNCHANGED requested
       ELSE Release(t) /\ UNCHANGED requested
    /\ UNCHANGED <<disk, conv, server, replied, expiries, requests>>

\* generate answers: only a text is kept, every error ends the request.
generate(t) ==
    /\ At(t, "send", "call")
    /\ \E result \in Results :
         IF result = "text" THEN Goes(t, "append") /\ UNCHANGED <<flock, gate>>
                            ELSE Release(t)
    /\ UNCHANGED <<disk, conv, requested, server, replied, expiries, requests>>

\* ConversationStore.append: one conditional update on the version read, then
\* the reply; the connection may drop before the reply is sent.
append(t) ==
    /\ At(t, "send", "append")
    /\ IF task[t].seen = Len(conv)
       THEN /\ conv' = Append(conv, t)
            /\ replied' = replied \cup {<<t, task[t].seen + 1>>}
       ELSE UNCHANGED <<conv, replied>>
    /\ Release(t)
    /\ UNCHANGED <<disk, requested, server, expiries, requests>>

\* account_models, and any other process that asks for an access token: it
\* takes no gate.
account_models(t) ==
    /\ task[t].pc = "idle" /\ requests < MaxRequests
    /\ identity
    /\ requests' = requests + 1
    /\ Becomes(t, [Idle EXCEPT !.op = "models", !.pc = "token"])
    /\ UNCHANGED <<disk, flock, gate, conv, requested, server, replied, expiries>>

models_answered(t) ==
    /\ At(t, "models", "call")
    /\ Release(t)
    /\ UNCHANGED <<disk, conv, requested, server, replied, expiries, requests>>

\* disconnect: sign_out in a thread, under the gate and the file lock (busy is
\* a 409). The remote revocation is attempted first and may fail or be
\* unconfirmed; the local tokens are cleared either way.
disconnect(t) ==
    /\ task[t].pc = "idle" /\ requests < MaxRequests
    /\ gate = Nobody
    /\ requests' = requests + 1
    /\ IF flock = Nobody /\ disk # NoFile
       THEN /\ gate' = t /\ flock' = t
            /\ Becomes(t, [Idle EXCEPT !.op = "disconnect", !.pc = "revoke", !.record = disk])
       ELSE UNCHANGED <<gate, flock, task>>
    /\ UNCHANGED <<disk, conv, requested, server, replied, expiries>>

_revoke_remote(t) ==
    /\ At(t, "disconnect", "revoke")
    /\ \/ honoured' = honoured \ {task[t].record.refresh}
       \/ UNCHANGED honoured
    /\ \/ _clear_tokens(task[t].record) /\ UNCHANGED lost
       \/ UNCHANGED disk /\ lost' = lost \cup {task[t].record.refresh}
    /\ Release(t)
    /\ UNCHANGED <<conv, requested, made, replied, expiries, requests>>

----------------------------------------------------------------------------
(* The sign-in command.                                                    *)

\* connect: the lock is taken without waiting and kept until the command ends;
\* what is saved decides whether a client is registered anew.
connect(t) ==
    /\ task[t].pc = "idle" /\ requests < MaxRequests
    /\ flock = Nobody
    /\ requests' = requests + 1
    /\ flock' = t
    /\ Becomes(t, [Idle EXCEPT !.op = "connect", !.pc = "browser", !.record = disk])
    /\ UNCHANGED <<disk, gate, conv, requested, server, replied, expiries>>

\* The browser's callback: a refusal, a wrong state, no code or another
\* client end the command. A newly issued client is saved before the code is
\* exchanged.
callback(t) ==
    /\ At(t, "connect", "browser")
    /\ \/ Release(t) /\ UNCHANGED disk
       \/ /\ task[t].record.client # 0
          /\ task' = [task EXCEPT ![t].pc = "exchange", ![t].client = task[t].record.client]
          /\ UNCHANGED <<disk, flock, gate>>
       \/ /\ task[t].record.client = 0
          /\ disk' = [NoFile EXCEPT !.client = requests]
          /\ task' = [task EXCEPT ![t].pc = "exchange", ![t].client = requests]
          /\ UNCHANGED <<flock, gate>>
    /\ UNCHANGED <<conv, requested, server, replied, expiries, requests>>

\* The code is exchanged for tokens of the account the browser is signed in
\* to. A refused exchange, an incomplete or invalid id token and another
\* account's identity end the command with the file as it is.
exchange(t) ==
    /\ At(t, "connect", "exchange")
    /\ \/ UNCHANGED <<disk, server>>
       \/ \E s \in Subjects, plan \in BOOLEAN :
            /\ made < MaxRefresh
            /\ made' = made + 1
            /\ honoured' = honoured \cup {made + 1}
            /\ UNCHANGED lost
            /\ IF task[t].record.subject \in {"none", s}
               THEN disk' = [client |-> task[t].client, subject |-> s,
                             refresh |-> made + 1, fresh |-> TRUE, plan |-> plan]
               ELSE UNCHANGED disk
    /\ Release(t)
    /\ UNCHANGED <<conv, requested, replied, expiries, requests>>

\* The access token on disk comes within the refresh skew of its expiry.
Expire ==
    /\ disk.fresh /\ expiries < MaxExpiries
    /\ disk' = [disk EXCEPT !.fresh = FALSE]
    /\ expiries' = expiries + 1
    /\ UNCHANGED <<flock, gate, conv, requested, task, server, replied, requests>>

\* A request is cancelled, by its time budget or the end of its process,
\* while it waits for the lock, the database or the provider.
Cancel(t) ==
    /\ task[t].pc \in {"read", "token", "lock", "call", "append", "browser", "exchange"}
    /\ Release(t)
    /\ UNCHANGED <<disk, conv, requested, server, replied, expiries, requests>>

----------------------------------------------------------------------------

Init ==
    /\ disk = NoFile /\ flock = Nobody /\ gate = Nobody
    /\ conv = <<>> /\ requested = {} /\ replied = {}
    /\ task = [t \in Tasks |-> Idle]
    /\ honoured = {} /\ made = 0 /\ lost = {}
    /\ expiries = 0 /\ requests = 0

Next ==
    \/ \E t \in Tasks :
         \/ \E v \in 0..Len(conv) : send(t, v)
         \/ read_row(t) \/ generate(t) \/ append(t)
         \/ account_models(t) \/ models_answered(t)
         \/ disconnect(t) \/ _revoke_remote(t)
         \/ connect(t) \/ callback(t) \/ exchange(t)
         \/ access_token_fast(t) \/ access_token_locked(t) \/ _refresh(t)
         \/ Cancel(t)
    \/ Expire

Spec == Init /\ [][Next]_vars

----------------------------------------------------------------------------

\* A rotated refresh token is never presented again: what a process sends to
\* refresh, and what is on disk whenever nobody holds the file lock, is a token
\* the server still honours, unless the answer that replaced it was lost,
\* however refreshes, sign-ins and sign-outs of the host's processes interleave
\* (ChatGPTCredentialStore.access_token, "so rotating refresh tokens do not get
\* lost when multiple processes share the same host").
RotationIsKept ==
    /\ \A t \in Tasks : task[t].pc = "refresh" => task[t].record.refresh \in honoured \cup lost
    /\ flock = Nobody => disk.refresh \in honoured \cup lost \cup {0}

\* How a step may change the saved registration and account.
ProfileKept ==
    /\ disk.client # 0 => disk'.client = disk.client
    /\ disk.subject # "none" => disk'.subject = disk.subject

\* A saved profile stays bound to its registration and its account: whatever
\* refreshes, terminal errors, sign-outs and half-finished sign-ins follow,
\* neither is ever replaced (_connect's subject check, _clear_unusable_tokens).
ProfileKeepsItsAccount == [][ProfileKept]_vars

\* An answer shown to the operator is the stored answer at its version, which no
\* later request replaces or drops (the gate of send, the version in append),
\* and every stored answer was journalled as a request before ChatGPT was asked.
AnswersAreKept ==
    /\ \A q \in replied : Len(conv) >= q[2] /\ conv[q[2]] = q[1]
    /\ \A i \in 1..Len(conv) : i - 1 \in requested

\* Neither a token nor an answer is lost or replaced behind the operator's back,
\* though several processes share the profile.
ConversationIsKept == RotationIsKept /\ AnswersAreKept

\* One request at a time talks to ChatGPT for the conversation, and the lock
\* holders are under way.
TypeOK ==
    /\ gate # Nobody => task[gate].op \in {"send", "disconnect"}
    /\ flock # Nobody => task[flock].pc \in {"refresh", "revoke", "browser", "exchange"}
    /\ Cardinality({t \in Tasks : task[t].op = "send"}) <= 1
    /\ 2 * Len(conv) <= MaxMessages
=============================================================================
