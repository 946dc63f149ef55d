---------------------------- MODULE LocksProofs ----------------------------
(***************************************************************************)
(* Theorems about the parts that await under a lock, for any tasks,        *)
(* clients, assets, limits, faults and restarts: the ChatGPT profile keeps *)
(* its account, its tokens and its answers, a paper order is filled        *)
(* against the position its risk check saw, and its answer is durable.     *)
(*                                                                         *)
(* Both have an inductive invariant of their own (ProfileInv, PaperInv);   *)
(* LocksInv says the one that is running keeps it.                         *)
(***************************************************************************)
EXTENDS Locks, Sequences, TLAPS

(* Leaves are Zenon's unless they cite SMT; the time is for slow machines. *)
USE ZenonT(60)

-----------------------------------------------------------------------------
(* The ChatGPT profile. *)

Files == [client : Nat, subject : Subjects \cup {"none"}, refresh : Nat, fresh : BOOLEAN, plan : BOOLEAN]
Places == {"idle", "read", "token", "lock", "refresh", "call", "append", "revoke", "browser", "exchange"}
Steps == [op : {"idle", "send", "models", "disconnect", "connect"}, pc : Places, record : Files, seen : Nat, client : Nat]

\* What is on disk is a token the server honours or a lost answer replaced, and only
\* a registered client has an account.
DiskOK ==
    /\ disk.refresh \in honoured \cup lost \cup {0}
    /\ disk.client = 0 => disk.subject = "none"

\* A task x of t between two of its steps: it holds the file lock when it is about to
\* change the file, what it read is what is there, and it asks only what it journalled.
TaskOK(t, x) ==
    /\ x.pc \in {"refresh", "revoke", "browser", "exchange"} =>
          flock = t /\ x.record.subject = disk.subject
    /\ x.pc \in {"refresh", "revoke", "browser"} => x.record.client = disk.client
    /\ x.pc = "refresh" => x.record.refresh \in honoured \cup lost
    /\ x.pc = "exchange" => x.client = disk.client /\ x.client # 0
    /\ x.op = "send" /\ x.pc \in {"token", "lock", "refresh", "call", "append"} => x.seen \in requested
    /\ x.pc # "idle" => requests # 0

\* The replies are in the row, and the row holds what was journalled.
Kept ==
    /\ \A q \in replied : q[2] \in 1..Len(conv) /\ conv[q[2]] = q[1]
    /\ \A i \in 1..Len(conv) : i - 1 \in requested

ProfileInv ==
    /\ task \in [ProfileTasks -> Steps] /\ disk \in Files /\ conv \in Seq(ProfileTasks)
    /\ requests \in Nat /\ minted \in Nat
    /\ DiskOK /\ Kept /\ \A t \in ProfileTasks : TaskOK(t, task[t])

LEMMA IdleType == Profile!NoFile \in Files /\ Profile!Idle \in Steps /\ Profile!Idle.pc = "idle"
<1>1. Profile!NoFile \in Files
  BY DEF Profile!NoFile, Files
<1> QED
  BY <1>1 DEF Profile!Idle, Steps, Places

LEMMA ProfileInit == Profile!Init => ProfileInv
<1> SUFFICES ASSUME Profile!Init PROVE ProfileInv
  OBVIOUS
<1>1. /\ task \in [ProfileTasks -> Steps] /\ disk \in Files /\ \A t \in ProfileTasks : task[t].pc = "idle"
  BY IdleType DEF Profile!Init
<1>2. DiskOK
  BY DEF Profile!Init, DiskOK, Profile!NoFile
<1>3. Kept /\ conv \in Seq(ProfileTasks) /\ requests \in Nat /\ minted \in Nat
  BY SMTT(60) DEF Profile!Init, Kept
<1>4. ASSUME NEW t \in ProfileTasks PROVE TaskOK(t, task[t])
  BY <1>1 DEF TaskOK
<1> QED
  BY <1>1, <1>2, <1>3, <1>4 DEF ProfileInv

\* A step of t leaves the others where they were, unless they hold the lock.
LEMMA OthersKeep ==
    ASSUME ProfileInv, NEW t \in ProfileTasks, NEW u \in ProfileTasks, u # t, task'[u] = task[u],
           requested \subseteq requested',
           requests # 0 => requests' # 0,
           \/ flock = t
           \/ /\ flock = Profile!Nobody \/ flock' = flock
              /\ disk'.client = disk.client /\ disk'.subject = disk.subject
              /\ honoured \cup lost \subseteq honoured' \cup lost'
    PROVE  TaskOK(u, task[u])'
<1>1. TaskOK(u, task[u]) /\ u # Profile!Nobody
  BY TaskAssumption DEF ProfileInv
<1>2. CASE task[u].pc \in {"refresh", "revoke", "browser", "exchange"}
  <2>1. flock = u /\ flock' = flock /\ disk'.client = disk.client /\ disk'.subject = disk.subject
        /\ honoured \cup lost \subseteq honoured' \cup lost'
    BY <1>1, <1>2 DEF TaskOK
  <2> QED
    BY <1>1, <2>1 DEF TaskOK
<1>3. CASE task[u].pc \notin {"refresh", "revoke", "browser", "exchange"}
  BY <1>1, <1>3 DEF TaskOK
<1> QED
  BY <1>2, <1>3

\* What a step of t has to keep.
LEMMA StepKeeps ==
    ASSUME ProfileInv, NEW t \in ProfileTasks, requested \subseteq requested',
           requests # 0 => requests' # 0,
           \/ flock = t
           \/ /\ flock = Profile!Nobody \/ flock' = flock
              /\ disk'.client = disk.client /\ disk'.subject = disk.subject
              /\ honoured \cup lost \subseteq honoured' \cup lost',
           task' \in [ProfileTasks -> Steps], \A u \in ProfileTasks \ {t} : task'[u] = task[u],
           disk' \in Files, conv' \in Seq(ProfileTasks), requests' \in Nat, minted' \in Nat,
           DiskOK', Kept', TaskOK(t, task[t])'
    PROVE  ProfileInv'
<1>1. \A u \in ProfileTasks \ {t} : TaskOK(u, task[u])'
  BY OthersKeep
<1> QED
  BY <1>1 DEF ProfileInv

LEMMA BecomesType ==
    ASSUME task \in [ProfileTasks -> Steps], NEW t \in ProfileTasks, NEW x \in Steps, Profile!Becomes(t, x)
    PROVE  /\ task' \in [ProfileTasks -> Steps] /\ \A u \in ProfileTasks \ {t} : task'[u] = task[u]
           /\ task'[t] = x
BY DEF Profile!Becomes

LEMMA GoesType ==
    ASSUME task \in [ProfileTasks -> Steps], NEW t \in ProfileTasks, NEW p \in Places, Profile!Goes(t, p)
    PROVE  /\ task' \in [ProfileTasks -> Steps] /\ \A u \in ProfileTasks \ {t} : task'[u] = task[u]
           /\ task'[t].pc = p /\ task'[t].op = task[t].op /\ task'[t].seen = task[t].seen
BY SMTT(60) DEF Profile!Goes, Steps

LEMMA ReadsType ==
    ASSUME task \in [ProfileTasks -> Steps], NEW t \in ProfileTasks, NEW p \in Places, NEW r \in Files,
           task' = [task EXCEPT ![t].pc = p, ![t].record = r]
    PROVE  /\ task' \in [ProfileTasks -> Steps] /\ \A u \in ProfileTasks \ {t} : task'[u] = task[u]
           /\ task'[t].pc = p /\ task'[t].op = task[t].op /\ task'[t].seen = task[t].seen
           /\ task'[t].record = r
<1> DEFINE x == [task[t] EXCEPT !.pc = p, !.record = r]
<1>1. task' = [task EXCEPT ![t] = x]
  BY DEF Steps
<1>2. x \in Steps /\ x.pc = p /\ x.op = task[t].op /\ x.seen = task[t].seen /\ x.record = r
  BY DEF Steps
<1> HIDE DEF x
<1> QED
  BY <1>1, <1>2, BecomesType DEF Profile!Becomes

\* A task that leaves with the file and the server as they are.
LEMMA TaskLeaves ==
    ASSUME ProfileInv, NEW t \in ProfileTasks, Profile!Release(t),
           UNCHANGED <<disk, requested, conv, honoured, minted, lost, replied, requests>>
    PROVE  ProfileInv'
<1>1. /\ task' \in [ProfileTasks -> Steps] /\ \A u \in ProfileTasks \ {t} : task'[u] = task[u]
      /\ task'[t].pc = "idle"
  BY IdleType, BecomesType DEF ProfileInv, Profile!Release, Profile!Ends
<1>2. TaskOK(t, task[t])'
  BY <1>1 DEF TaskOK
<1>3. DiskOK' /\ Kept'
  BY DEF ProfileInv, DiskOK, Kept
<1>4. flock = t \/ flock' = flock
  BY DEF Profile!Release
<1> QED
  BY <1>1, <1>2, <1>3, <1>4, StepKeeps DEF ProfileInv

\* A task that goes on to a step that needs no lock, with the file as it is.
LEMMA MoveKeeps ==
    ASSUME ProfileInv, NEW t \in ProfileTasks, NEW p \in {"token", "call", "append"}, Profile!Goes(t, p),
           UNCHANGED <<disk, conv, honoured, minted, lost, replied, requests>>,
           requested \subseteq requested', task[t].op = "send" => task[t].seen \in requested',
           flock = t \/ flock' = flock, requests # 0
    PROVE  ProfileInv'
<1>1. /\ task' \in [ProfileTasks -> Steps] /\ \A u \in ProfileTasks \ {t} : task'[u] = task[u]
      /\ task'[t].pc = p /\ task'[t].op = task[t].op /\ task'[t].seen = task[t].seen
  <2>1. p \in Places
    BY DEF Places
  <2> QED
    BY <2>1, GoesType DEF ProfileInv
<1>2. TaskOK(t, task[t])'
  BY <1>1 DEF TaskOK
<1>3. DiskOK' /\ Kept'
  BY DEF ProfileInv, DiskOK, Kept
<1> QED
  BY <1>1, <1>2, <1>3, StepKeeps DEF ProfileInv

\* A task that starts: without the lock, or with the lock and what the file holds.
LEMMA StartKeeps ==
    ASSUME ProfileInv, NEW t \in ProfileTasks, NEW x \in Steps, Profile!Becomes(t, x),
           requests' = requests + 1, UNCHANGED <<disk, conv, requested, honoured, minted, lost, replied>>,
           \/ x.pc = "read" /\ UNCHANGED flock
           \/ x.pc = "token" /\ x.op # "send" /\ UNCHANGED flock
           \/ /\ x.pc \in {"revoke", "browser"} /\ x.record = disk
              /\ flock = Profile!Nobody /\ flock' = t
    PROVE  ProfileInv'
<1>1. requests' \in Nat /\ requests' # 0
  BY SMTT(60) DEF ProfileInv
<1>2. /\ task' \in [ProfileTasks -> Steps] /\ \A u \in ProfileTasks \ {t} : task'[u] = task[u]
      /\ task'[t] = x
  BY BecomesType DEF ProfileInv
<1>3. TaskOK(t, task[t])'
  BY <1>1, <1>2 DEF TaskOK
<1>4. DiskOK' /\ Kept'
  BY DEF ProfileInv, DiskOK, Kept
<1> QED
  BY <1>1, <1>2, <1>3, <1>4, StepKeeps DEF ProfileInv

\* send.
LEMMA SendKeeps ==
    ASSUME ProfileInv, NEW t \in ProfileTasks, NEW v \in 0..Len(conv), Profile!send(t, v)
    PROVE  ProfileInv'
<1> DEFINE x == [Profile!Idle EXCEPT !.op = "send", !.pc = "read", !.seen = v]
<1>1. v \in Nat
  BY SMTT(60) DEF ProfileInv
<1>2. x \in Steps /\ x.pc = "read"
  BY <1>1, IdleType DEF Steps, Places
<1>3. /\ Profile!Becomes(t, x) /\ requests' = requests + 1
      /\ UNCHANGED <<disk, flock, conv, requested, honoured, minted, lost, replied>>
  BY DEF Profile!send, Profile!server
<1> HIDE DEF x
<1> QED
  BY <1>2, <1>3, StartKeeps

\* account_models.
LEMMA ModelsKeeps ==
    ASSUME ProfileInv, NEW t \in ProfileTasks, Profile!account_models(t)
    PROVE  ProfileInv'
<1> DEFINE x == [Profile!Idle EXCEPT !.op = "models", !.pc = "token"]
<1>1. x \in Steps /\ x.pc = "token" /\ x.op # "send"
  BY IdleType DEF Steps, Places
<1>2. /\ Profile!Becomes(t, x) /\ requests' = requests + 1
      /\ UNCHANGED <<disk, flock, conv, requested, honoured, minted, lost, replied>>
  BY DEF Profile!account_models, Profile!server
<1> HIDE DEF x
<1> QED
  BY <1>1, <1>2, StartKeeps

\* connect.
LEMMA ConnectKeeps ==
    ASSUME ProfileInv, NEW t \in ProfileTasks, Profile!connect(t)
    PROVE  ProfileInv'
<1> DEFINE x == [Profile!Idle EXCEPT !.op = "connect", !.pc = "browser", !.record = disk]
<1>1. x \in Steps /\ x.pc = "browser" /\ x.record = disk
  BY IdleType DEF Steps, Places, ProfileInv
<1>2. /\ Profile!Becomes(t, x) /\ requests' = requests + 1 /\ flock = Profile!Nobody /\ flock' = t
      /\ UNCHANGED <<disk, conv, requested, honoured, minted, lost, replied>>
  BY DEF Profile!connect, Profile!server
<1> HIDE DEF x
<1> QED
  BY <1>1, <1>2, StartKeeps

\* disconnect: refused while the file is in use, otherwise begun under both locks.
LEMMA DisconnectKeeps ==
    ASSUME ProfileInv, NEW t \in ProfileTasks, Profile!disconnect(t)
    PROVE  ProfileInv'
<1> DEFINE x == [Profile!Idle EXCEPT !.op = "disconnect", !.pc = "revoke", !.record = disk]
<1>1. x \in Steps /\ x.pc = "revoke" /\ x.record = disk
  BY IdleType DEF Steps, Places, ProfileInv
<1>2. /\ requests' = requests + 1 /\ UNCHANGED <<disk, conv, requested, honoured, minted, lost, replied>>
      /\ \/ Profile!Becomes(t, x) /\ flock = Profile!Nobody /\ flock' = t
         \/ UNCHANGED <<flock, task>>
  BY DEF Profile!disconnect, Profile!server
<1> HIDE DEF x
<1>3. CASE UNCHANGED <<flock, task>>
  <2>1. requests' \in Nat /\ requests' # 0
    BY <1>2, SMTT(60) DEF ProfileInv
  <2>2. TaskOK(t, task[t])'
    BY <1>2, <1>3, <2>1 DEF ProfileInv, TaskOK
  <2>3. DiskOK' /\ Kept'
    BY <1>2 DEF ProfileInv, DiskOK, Kept
  <2> QED
    BY <1>2, <1>3, <2>1, <2>2, <2>3, StepKeeps DEF ProfileInv
<1> QED
  BY <1>1, <1>2, <1>3, StartKeeps

\* read_row: the version asked for is journalled before ChatGPT is asked.
LEMMA RowReadKeeps ==
    ASSUME ProfileInv, NEW t \in ProfileTasks, Profile!read_row(t)
    PROVE  ProfileInv'
<1>1. /\ task[t].pc = "read"
      /\ UNCHANGED <<disk, conv, honoured, minted, lost, replied, requests>>
  BY DEF Profile!read_row, Profile!At, Profile!server
<1>2. CASE /\ requested' = requested \cup {task[t].seen} /\ Profile!Goes(t, "token")
           /\ UNCHANGED flock
  <2>1. requests # 0
    BY <1>1 DEF ProfileInv, TaskOK
  <2> QED
    BY <1>1, <1>2, <2>1, MoveKeeps
<1>3. CASE Profile!Release(t) /\ UNCHANGED requested
  BY <1>1, <1>3, TaskLeaves
<1> QED
  BY <1>2, <1>3 DEF Profile!read_row

\* generate, models_answered and a cancellation.
LEMMA GenerateKeeps ==
    ASSUME ProfileInv, NEW t \in ProfileTasks, Profile!generate(t)
    PROVE  ProfileInv'
<1>1. /\ task[t].op = "send" /\ task[t].pc = "call"
      /\ UNCHANGED <<disk, conv, requested, honoured, minted, lost, replied, requests>>
      /\ (Profile!Goes(t, "append") /\ UNCHANGED flock) \/ Profile!Release(t)
  BY DEF Profile!generate, Profile!At, Profile!server
<1>2. requests # 0 /\ task[t].seen \in requested
  BY <1>1 DEF ProfileInv, TaskOK
<1> QED
  BY <1>1, <1>2, MoveKeeps, TaskLeaves

LEMMA EndKeeps ==
    ASSUME ProfileInv, NEW t \in ProfileTasks, Profile!models_answered(t) \/ Profile!Cancel(t)
    PROVE  ProfileInv'
BY TaskLeaves DEF Profile!models_answered, Profile!Cancel, Profile!server

\* access_token: the unlocked read, and the read under the lock.
LEMMA FastKeeps ==
    ASSUME ProfileInv, NEW t \in ProfileTasks, Profile!access_token_fast(t)
    PROVE  ProfileInv'
<1>1. /\ task[t].pc = "token" /\ UNCHANGED <<disk, conv, requested, honoured, minted, lost, replied, requests>>
  BY DEF Profile!access_token_fast, Profile!server
<1>2. requests # 0 /\ (task[t].op = "send" => task[t].seen \in requested)
  BY <1>1 DEF ProfileInv, TaskOK
<1>3. CASE task' = [task EXCEPT ![t].pc = "lock", ![t].record = disk] /\ UNCHANGED flock
  <2>1. /\ task' \in [ProfileTasks -> Steps] /\ \A u \in ProfileTasks \ {t} : task'[u] = task[u]
        /\ task'[t].pc = "lock" /\ task'[t].op = task[t].op /\ task'[t].seen = task[t].seen
    BY <1>3, ReadsType DEF ProfileInv, Places
  <2>2. TaskOK(t, task[t])'
    BY <1>1, <1>2, <2>1 DEF TaskOK
  <2>3. DiskOK' /\ Kept'
    BY <1>1 DEF ProfileInv, DiskOK, Kept
  <2> QED
    BY <1>1, <1>3, <2>1, <2>2, <2>3, StepKeeps DEF ProfileInv
<1> QED
  BY <1>1, <1>2, <1>3, MoveKeeps, TaskLeaves DEF Profile!access_token_fast

LEMMA TokenLockedKeeps ==
    ASSUME ProfileInv, NEW t \in ProfileTasks, Profile!access_token_locked(t)
    PROVE  ProfileInv'
<1>1. /\ task[t].pc = "lock" /\ flock = Profile!Nobody
      /\ UNCHANGED <<disk, conv, requested, honoured, minted, lost, replied, requests>>
  BY DEF Profile!access_token_locked, Profile!server
<1>2. requests # 0 /\ (task[t].op = "send" => task[t].seen \in requested)
  BY <1>1 DEF ProfileInv, TaskOK
<1>3. CASE /\ flock' = t /\ Profile!_read
           /\ task' = [task EXCEPT ![t].pc = "refresh", ![t].record = disk]
  <2>1. /\ task' \in [ProfileTasks -> Steps] /\ \A u \in ProfileTasks \ {t} : task'[u] = task[u]
        /\ task'[t].pc = "refresh" /\ task'[t].op = task[t].op /\ task'[t].seen = task[t].seen
        /\ task'[t].record = disk
    BY <1>3, ReadsType DEF ProfileInv, Places
  <2>2. disk.refresh \in honoured \cup lost
    BY <1>3 DEF ProfileInv, DiskOK, Profile!_read
  <2>3. TaskOK(t, task[t])'
    BY SMTT(60), <1>1, <1>2, <1>3, <2>1, <2>2 DEF TaskOK
  <2>4. DiskOK' /\ Kept'
    BY <1>1 DEF ProfileInv, DiskOK, Kept
  <2> QED
    BY <1>1, <1>3, <2>1, <2>3, <2>4, StepKeeps DEF ProfileInv
<1> QED
  BY <1>1, <1>2, <1>3, MoveKeeps, TaskLeaves DEF Profile!access_token_locked

\* A task that leaves with the lock, whatever it made of the file.
LEMMA HolderLeaves ==
    ASSUME ProfileInv, NEW t \in ProfileTasks, flock = t, Profile!Release(t), disk' \in Files, DiskOK',
           minted' \in Nat, UNCHANGED <<conv, requested, replied, requests>>
    PROVE  ProfileInv'
<1>1. /\ task' \in [ProfileTasks -> Steps] /\ \A u \in ProfileTasks \ {t} : task'[u] = task[u]
      /\ task'[t].pc = "idle"
  BY IdleType, BecomesType DEF ProfileInv, Profile!Release, Profile!Ends
<1>2. TaskOK(t, task[t])'
  BY <1>1 DEF TaskOK
<1>3. Kept'
  BY DEF ProfileInv, Kept
<1> QED
  BY <1>1, <1>2, <1>3, StepKeeps DEF ProfileInv

\* Tokens are cleared from the record that was read, and nothing else.
LEMMA ClearType ==
    ASSUME NEW r \in Files, Profile!_clear_tokens(r)
    PROVE  disk' \in Files /\ disk'.refresh = 0 /\ disk'.client = r.client /\ disk'.subject = r.subject
BY DEF Profile!_clear_tokens, Files

LEMMA WriteType ==
    ASSUME NEW r \in Files, NEW n \in Nat, Profile!_write(r, n)
    PROVE  disk' \in Files /\ disk'.refresh = n /\ disk'.client = r.client /\ disk'.subject = r.subject
BY DEF Profile!_write, Files

\* _refresh: the token presented is used up, and its successor is written or lost.
LEMMA RefreshingKeeps ==
    ASSUME ProfileInv, NEW t \in ProfileTasks, Profile!_refresh(t)
    PROVE  ProfileInv'
<1> DEFINE r == task[t].record.refresh
<1>1. /\ task[t].pc = "refresh" /\ UNCHANGED <<conv, requested, replied, requests>>
  BY DEF Profile!_refresh
<1>2. /\ flock = t /\ task[t].record.client = disk.client /\ task[t].record.subject = disk.subject
      /\ r \in honoured \cup lost /\ requests # 0
      /\ task[t].op = "send" => task[t].seen \in requested
  BY <1>1 DEF ProfileInv, TaskOK
<1>3. task[t].record \in Files /\ minted \in Nat
  BY DEF ProfileInv, Steps
<1>4. minted + 1 \in Nat
  BY <1>3, SMTT(60)
<1>5. CASE /\ minted' = minted + 1 /\ honoured' = (honoured \ {r}) \cup {minted + 1}
           /\ Profile!_write(task[t].record, minted + 1) /\ UNCHANGED lost
           /\ Profile!Goes(t, "call")
  <2>1. /\ disk' \in Files /\ disk'.refresh = minted + 1 /\ disk'.client = disk.client
        /\ disk'.subject = disk.subject
    BY <1>2, <1>3, <1>4, <1>5, WriteType
  <2>2. DiskOK'
    BY <2>1, <1>5 DEF ProfileInv, DiskOK
  <2>3. /\ task' \in [ProfileTasks -> Steps] /\ \A u \in ProfileTasks \ {t} : task'[u] = task[u]
        /\ task'[t].pc = "call" /\ task'[t].op = task[t].op /\ task'[t].seen = task[t].seen
    BY <1>5, GoesType DEF ProfileInv, Places
  <2>4. TaskOK(t, task[t])'
    BY <1>1, <1>2, <2>3 DEF TaskOK
  <2>5. Kept'
    BY <1>1 DEF ProfileInv, Kept
  <2> QED
    BY <1>1, <1>2, <1>4, <1>5, <2>1, <2>2, <2>3, <2>4, <2>5, StepKeeps DEF ProfileInv
<1>6. CASE /\ minted' = minted + 1 /\ honoured' = (honoured \ {r}) \cup {minted + 1}
           /\ lost' = lost \cup {r} /\ Profile!Release(t) /\ UNCHANGED disk
  <2>1. DiskOK'
    BY <1>6 DEF ProfileInv, DiskOK
  <2> QED
    BY <1>1, <1>2, <1>4, <1>6, <2>1, HolderLeaves DEF ProfileInv
<1>7. CASE Profile!_clear_tokens(task[t].record) /\ Profile!Release(t) /\ UNCHANGED Profile!server
  <2>1. disk' \in Files /\ DiskOK'
    BY <1>2, <1>3, <1>7, ClearType DEF ProfileInv, DiskOK
  <2> QED
    BY <1>1, <1>2, <1>3, <1>7, <2>1, HolderLeaves DEF Profile!server
<1>8. CASE Profile!Release(t) /\ UNCHANGED <<disk, Profile!server>>
  BY <1>1, <1>8, TaskLeaves DEF Profile!server
<1> QED
  BY <1>5, <1>6, <1>7, <1>8 DEF Profile!_refresh

\* append: the row grows by the answer, at the version the request saw.
LEMMA AnswerAppends ==
    ASSUME ProfileInv, NEW t \in ProfileTasks, Profile!append(t)
    PROVE  ProfileInv'
<1>1. /\ task[t].op = "send" /\ task[t].pc = "append" /\ Profile!Release(t)
      /\ UNCHANGED <<disk, requested, honoured, minted, lost, requests>>
  BY DEF Profile!append, Profile!At, Profile!server
<1>2. task[t].seen \in requested /\ conv \in Seq(ProfileTasks)
  BY <1>1 DEF ProfileInv, TaskOK
<1>3. CASE UNCHANGED <<conv, replied>>
  BY <1>1, <1>3, TaskLeaves
<1>4. CASE /\ task[t].seen = Len(conv) /\ conv' = Append(conv, t)
           /\ replied' = replied \cup {<<t, task[t].seen + 1>>}
  <2>1. /\ conv' \in Seq(ProfileTasks) /\ 1..Len(conv) \subseteq 1..Len(conv')
        /\ Len(conv) + 1 \in 1..Len(conv') /\ conv'[Len(conv) + 1] = t
        /\ \A i \in 1..Len(conv) : conv'[i] = conv[i]
        /\ \A i \in 1..Len(conv') : i \in 1..Len(conv) \/ i - 1 = Len(conv)
    BY SMTT(60), <1>2, <1>4
  <2>2. <<t, Len(conv) + 1>>[1] = t /\ <<t, Len(conv) + 1>>[2] = Len(conv) + 1
    BY SMTT(60)
  <2>3. Kept'
    <3>1. ASSUME NEW q \in replied' PROVE q[2] \in 1..Len(conv') /\ conv'[q[2]] = q[1]
      <4>1. CASE q \in replied
        BY <4>1, <2>1 DEF ProfileInv, Kept
      <4>2. CASE q = <<t, Len(conv) + 1>>
        BY <4>2, <2>1, <2>2
      <4> QED
        BY <1>4, <4>1, <4>2
    <3>2. ASSUME NEW i \in 1..Len(conv') PROVE i - 1 \in requested'
      BY <1>1, <1>2, <1>4, <2>1 DEF ProfileInv, Kept
    <3> QED
      BY <3>1, <3>2 DEF Kept
  <2>4. DiskOK'
    BY <1>1 DEF ProfileInv, DiskOK
  <2>5. /\ task' \in [ProfileTasks -> Steps] /\ \A u \in ProfileTasks \ {t} : task'[u] = task[u]
        /\ task'[t].pc = "idle"
    BY <1>1, IdleType, BecomesType DEF ProfileInv, Profile!Release, Profile!Ends
  <2>6. TaskOK(t, task[t])'
    BY <2>5 DEF TaskOK
  <2>7. flock = t \/ flock' = flock
    BY <1>1 DEF Profile!Release
  <2> QED
    BY <1>1, <2>1, <2>3, <2>4, <2>5, <2>6, <2>7, StepKeeps DEF ProfileInv
<1> QED
  BY <1>3, <1>4 DEF Profile!append

\* _revoke_remote: cleared, or left with a token that may be revoked already.
LEMMA RevokingKeeps ==
    ASSUME ProfileInv, NEW t \in ProfileTasks, Profile!_revoke_remote(t)
    PROVE  ProfileInv'
<1> DEFINE r == task[t].record.refresh
<1>1. /\ task[t].pc = "revoke" /\ Profile!Release(t) /\ honoured \ {r} \subseteq honoured'
      /\ UNCHANGED <<conv, requested, minted, replied, requests>>
      /\ \/ Profile!_clear_tokens(task[t].record)
         \/ UNCHANGED disk /\ lost' = lost \cup {r}
  BY DEF Profile!_revoke_remote, Profile!At
<1>2. flock = t /\ task[t].record.client = disk.client /\ task[t].record.subject = disk.subject
  BY <1>1 DEF ProfileInv, TaskOK
<1>3. task[t].record \in Files /\ minted \in Nat
  BY DEF ProfileInv, Steps
<1>4. CASE Profile!_clear_tokens(task[t].record)
  BY <1>2, <1>3, <1>1, <1>4, ClearType, HolderLeaves DEF ProfileInv, DiskOK
<1>5. CASE UNCHANGED disk /\ lost' = lost \cup {r}
  <2>1. DiskOK'
    BY <1>1, <1>5 DEF ProfileInv, DiskOK
  <2> QED
    BY <1>1, <1>2, <1>3, <1>5, <2>1, HolderLeaves DEF ProfileInv
<1> QED
  BY <1>1, <1>4, <1>5

\* callback: a client that is registered anew is on disk before its code is used.
LEMMA CallbackKeeps ==
    ASSUME ProfileInv, NEW t \in ProfileTasks, Profile!callback(t)
    PROVE  ProfileInv'
<1>1. /\ task[t].op = "connect" /\ task[t].pc = "browser"
      /\ UNCHANGED <<conv, requested, honoured, minted, lost, replied, requests>>
  BY DEF Profile!callback, Profile!At, Profile!server
<1>2. /\ flock = t /\ task[t].record.client = disk.client /\ task[t].record.subject = disk.subject
      /\ requests # 0
  BY <1>1 DEF ProfileInv, TaskOK
<1>3. Kept'
  BY <1>1 DEF ProfileInv, Kept
<1>4. CASE Profile!Release(t) /\ UNCHANGED disk
  BY <1>1, <1>4, TaskLeaves
<1>5. ASSUME NEW c \in Nat, c # 0, UNCHANGED flock, disk' \in Files, DiskOK', disk'.client = c,
             disk'.subject = disk.subject,
             task' = [task EXCEPT ![t].pc = "exchange", ![t].client = c]
      PROVE  ProfileInv'
  <2> DEFINE x == [task[t] EXCEPT !.pc = "exchange", !.client = c]
  <2>1. Profile!Becomes(t, x)
    BY <1>5 DEF ProfileInv, Steps, Profile!Becomes
  <2>2. /\ x \in Steps /\ x.pc = "exchange" /\ x.op = task[t].op /\ x.record = task[t].record
        /\ x.client = c
    BY <1>5 DEF ProfileInv, Steps, Places
  <2> HIDE DEF x
  <2>3. /\ task' \in [ProfileTasks -> Steps] /\ \A u \in ProfileTasks \ {t} : task'[u] = task[u]
        /\ task'[t] = x
    BY <2>1, <2>2, BecomesType DEF ProfileInv
  <2>4. TaskOK(t, task[t])'
    BY <1>1, <1>2, <1>5, <2>2, <2>3 DEF TaskOK
  <2> QED
    BY <1>1, <1>2, <1>3, <1>5, <2>3, <2>4, StepKeeps DEF ProfileInv
<1>6. CASE /\ task[t].record.client # 0 /\ UNCHANGED <<disk, flock>>
           /\ task' = [task EXCEPT ![t].pc = "exchange", ![t].client = task[t].record.client]
  <2>1. task[t].record.client \in Nat /\ disk' \in Files /\ DiskOK'
    BY <1>1, <1>6 DEF ProfileInv, Steps, Files, DiskOK
  <2> QED
    BY <1>2, <1>5, <1>6, <2>1
<1>7. CASE /\ task[t].record.client = 0 /\ disk' = [Profile!NoFile EXCEPT !.client = requests]
           /\ task' = [task EXCEPT ![t].pc = "exchange", ![t].client = requests] /\ UNCHANGED flock
  <2>1. /\ disk' \in Files /\ disk'.client = requests /\ disk'.subject = "none" /\ disk'.refresh = 0
    BY <1>7 DEF ProfileInv, Files, Profile!NoFile
  <2>2. DiskOK' /\ disk'.subject = disk.subject /\ requests \in Nat
    BY <1>2, <1>7, <2>1 DEF ProfileInv, DiskOK
  <2> QED
    BY <1>2, <1>5, <1>7, <2>1, <2>2
<1> QED
  BY <1>4, <1>6, <1>7 DEF Profile!callback

\* exchange.
LEMMA ExchangeKeeps ==
    ASSUME ProfileInv, NEW t \in ProfileTasks, Profile!exchange(t)
    PROVE  ProfileInv'
<1>1. /\ task[t].pc = "exchange" /\ Profile!Release(t) /\ UNCHANGED <<conv, requested, replied, requests>>
  BY DEF Profile!exchange, Profile!At
<1>2. flock = t /\ task[t].client = disk.client /\ disk.client # 0
  BY <1>1 DEF ProfileInv, TaskOK
<1>3. CASE UNCHANGED <<disk, Profile!server>>
  BY <1>1, <1>3, TaskLeaves DEF Profile!server
<1>4. ASSUME NEW s \in Subjects, NEW plan \in BOOLEAN, minted' = minted + 1,
             honoured' = honoured \cup {minted + 1}, UNCHANGED lost,
             \/ disk' = [client |-> task[t].client, subject |-> s, refresh |-> minted + 1,
                         fresh |-> TRUE, plan |-> plan]
             \/ UNCHANGED disk
      PROVE  ProfileInv'
  <2>1. minted + 1 \in Nat
    BY SMTT(60) DEF ProfileInv
  <2>2. disk' \in Files /\ DiskOK'
    <3>1. CASE UNCHANGED disk
      BY <1>4, <3>1 DEF ProfileInv, DiskOK
    <3>2. CASE disk' = [client |-> task[t].client, subject |-> s, refresh |-> minted + 1,
                        fresh |-> TRUE, plan |-> plan]
      <4>1. /\ disk'.client = task[t].client /\ disk'.refresh = minted + 1 /\ task[t].client \in Nat
        BY <3>2 DEF ProfileInv, Steps
      <4>2. disk' \in Files
        BY <3>2, <4>1, <2>1 DEF Files
      <4> QED
        BY <1>2, <1>4, <4>1, <4>2 DEF DiskOK
    <3> QED
      BY <1>4, <3>1, <3>2
  <2> QED
    BY <1>1, <1>2, <1>4, <2>1, <2>2, HolderLeaves
<1> QED
  BY <1>3, <1>4 DEF Profile!exchange

\* The access token expires on disk.
LEMMA ExpireKeeps == ASSUME ProfileInv, Profile!Expire PROVE ProfileInv'
<1>1. /\ disk' = [disk EXCEPT !.fresh = FALSE]
      /\ UNCHANGED <<flock, conv, requested, task, honoured, minted, lost, replied, requests>>
  BY DEF Profile!Expire, Profile!server
<1>2. /\ disk' \in Files /\ disk'.client = disk.client /\ disk'.subject = disk.subject
      /\ disk'.refresh = disk.refresh
  BY <1>1 DEF ProfileInv, Files
<1>3. DiskOK' /\ Kept'
  BY <1>1, <1>2 DEF ProfileInv, DiskOK, Kept
<1>4. \A t \in ProfileTasks : TaskOK(t, task[t])'
  BY <1>1, <1>2 DEF ProfileInv, TaskOK
<1> QED
  BY <1>1, <1>2, <1>3, <1>4 DEF ProfileInv

\* A step of another part of the program.
LEMMA ProfileIdle ==
    ASSUME ProfileInv, UNCHANGED Profile!vars
    PROVE  ProfileInv'
<1>1. UNCHANGED <<disk, flock, conv, requested, task, honoured, minted, lost, replied, requests>>
  BY DEF Profile!vars, Profile!server
<1>2. DiskOK' /\ Kept' /\ \A t \in ProfileTasks : TaskOK(t, task[t])'
  BY <1>1 DEF ProfileInv, DiskOK, Kept, TaskOK
<1> QED
  BY <1>1, <1>2 DEF ProfileInv

LEMMA ProfileStep == ASSUME ProfileInv, Profile!Next PROVE ProfileInv'
<1>1. CASE Profile!Expire
  BY <1>1, ExpireKeeps
<1>2. ASSUME NEW t \in ProfileTasks,
             \/ \E v \in 0..Len(conv) : Profile!send(t, v)
             \/ Profile!read_row(t) \/ Profile!generate(t) \/ Profile!append(t)
             \/ Profile!account_models(t) \/ Profile!models_answered(t) \/ Profile!Cancel(t)
      PROVE  ProfileInv'
  BY <1>2, SendKeeps, RowReadKeeps, GenerateKeeps, AnswerAppends, ModelsKeeps, EndKeeps
<1>3. ASSUME NEW t \in ProfileTasks,
             \/ Profile!disconnect(t) \/ Profile!_revoke_remote(t)
             \/ Profile!connect(t) \/ Profile!callback(t) \/ Profile!exchange(t)
             \/ Profile!access_token_fast(t) \/ Profile!access_token_locked(t) \/ Profile!_refresh(t)
      PROVE  ProfileInv'
  BY <1>3, DisconnectKeeps, RevokingKeeps, ConnectKeeps, CallbackKeeps, ExchangeKeeps, FastKeeps,
     TokenLockedKeeps, RefreshingKeeps
<1> QED
  BY <1>1, <1>2, <1>3 DEF Profile!Next

LEMMA ProfileHolds == ProfileInv => Profile!ConversationIsKept
<1> SUFFICES ASSUME ProfileInv PROVE Profile!ConversationIsKept
  OBVIOUS
<1>1. Profile!RotationIsKept
  BY DEF ProfileInv, DiskOK, TaskOK, Profile!RotationIsKept
<1>2. \A q \in replied : Len(conv) >= q[2]
  BY SMTT(60) DEF ProfileInv, Kept
<1> QED
  BY <1>1, <1>2 DEF ProfileInv, Kept, Profile!AnswersAreKept, Profile!ConversationIsKept

\* What a step may do to the registration and the account.
LEMMA ProfileBinds == ASSUME ProfileInv, Profile!Next PROVE Profile!ProfileKept
<1>0. CASE disk'.client = disk.client /\ disk'.subject = disk.subject
  BY <1>0 DEF Profile!ProfileKept
<1>1. ASSUME NEW t \in ProfileTasks, Profile!_refresh(t)
      PROVE  disk'.client = disk.client /\ disk'.subject = disk.subject
  <2>1. task[t].record.client = disk.client /\ task[t].record.subject = disk.subject
        /\ task[t].record \in Files
    BY <1>1 DEF ProfileInv, TaskOK, Steps, Profile!_refresh
  <2>2. minted + 1 \in Nat
    BY SMTT(60) DEF ProfileInv
  <2>3. \/ UNCHANGED disk \/ Profile!_clear_tokens(task[t].record)
        \/ Profile!_write(task[t].record, minted + 1)
    BY <1>1 DEF Profile!_refresh
  <2> QED
    BY <2>1, <2>2, <2>3, ClearType, WriteType
<1>2. ASSUME NEW t \in ProfileTasks, Profile!_revoke_remote(t)
      PROVE  disk'.client = disk.client /\ disk'.subject = disk.subject
  <2>1. task[t].record.client = disk.client /\ task[t].record.subject = disk.subject
        /\ task[t].record \in Files
    BY <1>2 DEF ProfileInv, TaskOK, Steps, Profile!_revoke_remote, Profile!At
  <2>2. UNCHANGED disk \/ Profile!_clear_tokens(task[t].record)
    BY <1>2 DEF Profile!_revoke_remote
  <2> QED
    BY <2>1, <2>2, ClearType
<1>3. ASSUME NEW t \in ProfileTasks, Profile!callback(t)
      PROVE  Profile!ProfileKept
  <2>1. task[t].record.client = disk.client
    BY <1>3 DEF ProfileInv, TaskOK, Profile!callback, Profile!At
  <2>2. UNCHANGED disk \/ task[t].record.client = 0
    BY <1>3 DEF Profile!callback
  <2> QED
    BY <2>1, <2>2 DEF ProfileInv, DiskOK, Profile!ProfileKept
<1>4. ASSUME NEW t \in ProfileTasks, Profile!exchange(t)
      PROVE  Profile!ProfileKept
  <2>1. task[t].client = disk.client /\ task[t].record.subject = disk.subject
    BY <1>4 DEF ProfileInv, TaskOK, Profile!exchange, Profile!At
  <2>2. CASE UNCHANGED disk
    BY <2>2 DEF Profile!ProfileKept
  <2>3. ASSUME NEW s \in Subjects, NEW plan \in BOOLEAN,
               IF task[t].record.subject \in {"none", s}
               THEN disk' = [client |-> task[t].client, subject |-> s, refresh |-> minted + 1,
                             fresh |-> TRUE, plan |-> plan]
               ELSE UNCHANGED disk
        PROVE  Profile!ProfileKept
    <3>1. CASE task[t].record.subject \in {"none", s}
      <4>0. disk' = [client |-> task[t].client, subject |-> s, refresh |-> minted + 1,
                     fresh |-> TRUE, plan |-> plan]
        BY <2>3, <3>1
      <4>1. disk'.client = task[t].client /\ disk'.subject = s
        BY ONLY <4>0
      <4> QED
        BY <2>1, <3>1, <4>1 DEF Profile!ProfileKept
    <3> QED
      BY <2>2, <2>3, <3>1
  <2> QED
    BY <1>4, <2>2, <2>3 DEF Profile!exchange
<1>5. CASE Profile!Expire
  BY <1>5, <1>0 DEF Profile!Expire, ProfileInv, Files
<1>6. ASSUME NEW t \in ProfileTasks,
             \/ \E v \in 0..Len(conv) : Profile!send(t, v)
             \/ Profile!read_row(t) \/ Profile!generate(t) \/ Profile!append(t)
             \/ Profile!account_models(t) \/ Profile!models_answered(t) \/ Profile!Cancel(t)
             \/ Profile!disconnect(t) \/ Profile!connect(t)
             \/ Profile!access_token_fast(t) \/ Profile!access_token_locked(t)
      PROVE  UNCHANGED disk
  BY <1>6 DEF Profile!send, Profile!read_row, Profile!generate, Profile!append, Profile!account_models,
     Profile!models_answered, Profile!Cancel, Profile!disconnect, Profile!connect,
     Profile!access_token_fast, Profile!access_token_locked
<1> QED
  BY <1>0, <1>1, <1>2, <1>3, <1>4, <1>5, <1>6 DEF Profile!Next

-----------------------------------------------------------------------------
(* The paper simulator. *)

\* A fill of the order is in some session of the journal.
Durable(id) == \E n \in DOMAIN store : Paper!JournalledIn(id, n)

\* An order whose fill is on its way: its task holds the lock, and what it has read
\* and written stands.
Flight(t) ==
    Paper!InFlight(t) =>
        /\ Paper!HoldsLock(t)
        /\ task[t] = [pc |-> task[t].pc, r |-> task[t].r, stop |-> task[t].stop,
                      fill |-> task[t].fill, session |-> task[t].session,
                      seen |-> task[t].seen, fresh |-> task[t].fresh]
        /\ task[t].fill.id = task[t].r.id
        /\ task[t].fresh => port.pos[task[t].r.asset].qty = task[t].seen
        /\ task[t].pc = "insert" => task[t].session \in DOMAIN store
        /\ task[t].pc = "apply" => Durable(task[t].r.id)

\* The answers given are of journalled orders.
Answered == \A a \in replies : a[2] \in {"accepted", "duplicate"} => Durable(a[1])

Sessions(s) == s # <<>> /\ \E X : s \in Seq(Seq(X))

PaperInv ==
    /\ DOMAIN task = Paper!Tasks /\ task = [t \in DOMAIN task |-> task[t]]
    /\ queue \in Seq(Paper!Tasks) /\ Sessions(store)
    /\ Answered /\ \A t \in Paper!Tasks : Flight(t)

\* A fill is inserted into a session, and stays.
LEMMA InsertGrows ==
    ASSUME Sessions(store), NEW n \in DOMAIN store, NEW f, store' = Paper!Insert(n, f)
    PROVE  /\ Sessions(store)' /\ DOMAIN store' = DOMAIN store
           /\ \A id : Durable(id) => Durable(id)'
           /\ Durable(f.id)'
<1>1. PICK X : store \in Seq(Seq(X))
  BY DEF Sessions
<1>2. store \in Seq(Seq(X \cup {f})) /\ store[n] \in Seq(X)
  BY SMTT(60), <1>1
<1>3. /\ Append(store[n], f) \in Seq(X \cup {f})
      /\ DOMAIN store[n] \subseteq DOMAIN Append(store[n], f)
      /\ \A i \in DOMAIN store[n] : Append(store[n], f)[i] = store[n][i]
      /\ Len(store[n]) + 1 \in DOMAIN Append(store[n], f)
      /\ Append(store[n], f)[Len(store[n]) + 1] = f
  BY SMTT(60), <1>2
<1>4. store' = [store EXCEPT ![n] = Append(store[n], f)]
  BY DEF Paper!Insert
<1>5. /\ store' \in Seq(Seq(X \cup {f})) /\ store' # <<>> /\ DOMAIN store' = DOMAIN store
      /\ store'[n] = Append(store[n], f) /\ \A m \in DOMAIN store \ {n} : store'[m] = store[m]
  BY SMTT(60), <1>2, <1>3, <1>4
<1>6. Durable(f.id)'
  <2>1. PICK i \in DOMAIN store'[n] : store'[n][i] = f
    BY <1>3, <1>5
  <2>2. \E j \in DOMAIN store'[n] : store'[n][j].id = f.id
    BY <2>1
  <2> QED
    BY <1>5, <2>2 DEF Durable, Paper!JournalledIn
<1>7. ASSUME NEW id, Durable(id) PROVE Durable(id)'
  <2>1. PICK m \in DOMAIN store : \E i \in DOMAIN store[m] : store[m][i].id = id
    BY <1>7 DEF Durable, Paper!JournalledIn
  <2>2. \E i \in DOMAIN store'[m] : store'[m][i].id = id
    BY <1>3, <1>5, <2>1
  <2> QED
    BY <1>5, <2>2 DEF Durable, Paper!JournalledIn
<1> QED
  BY <1>5, <1>6, <1>7 DEF Sessions

\* A new session is opened.
LEMMA SessionGrows ==
    ASSUME Sessions(store), store' = Append(store, <<>>)
    PROVE  /\ Sessions(store)' /\ DOMAIN store \subseteq DOMAIN store'
           /\ \A id : Durable(id) => Durable(id)'
<1>1. PICK X : store \in Seq(Seq(X))
  BY DEF Sessions
<1>2. /\ store' \in Seq(Seq(X)) /\ store' # <<>> /\ DOMAIN store \subseteq DOMAIN store'
      /\ \A m \in DOMAIN store : store'[m] = store[m]
  BY SMTT(60), <1>1
<1> QED
  BY <1>2 DEF Sessions, Durable, Paper!JournalledIn

\* A journal that only grows keeps the answers true.
LEMMA AnsweredKeeps ==
    ASSUME Answered, \A id : Durable(id) => Durable(id)', replies' = replies
    PROVE  Answered'
<1>1. ASSUME NEW a \in replies, a[2] \in {"accepted", "duplicate"} PROVE Durable(a[1])'
  BY <1>1 DEF Answered
<1> QED
  BY <1>1 DEF Answered

LEMMA PaperInit == ASSUME Paper!Init PROVE PaperInv
<1>1. /\ DOMAIN task = Paper!Tasks /\ task = [t \in DOMAIN task |-> task[t]]
      /\ \A t \in Paper!Tasks : ~ Paper!InFlight(t)
  BY DEF Paper!Init, Paper!Idle, Paper!InFlight
<1>2. queue \in Seq(Paper!Tasks) /\ store \in Seq(Seq({})) /\ store # <<>>
  BY SMTT(60) DEF Paper!Init
<1>3. replies = {}
  BY DEF Paper!Init
<1> QED
  BY <1>1, <1>2, <1>3 DEF PaperInv, Sessions, Answered, Flight

\* A step of the operator, of a replay or of the clock.
LEMMA QuietKeeps ==
    ASSUME PaperInv, UNCHANGED <<port, task, queue, store, replies>>
    PROVE  PaperInv'
<1>1. Sessions(store)' /\ \A id : Durable(id) <=> Durable(id)'
  BY DEF PaperInv, Sessions, Durable, Paper!JournalledIn
<1>2. Answered'
  BY <1>1 DEF PaperInv, Answered
<1>3. ASSUME NEW t \in Paper!Tasks PROVE Flight(t)'
  BY <1>1 DEF PaperInv, Flight, Paper!InFlight, Paper!HoldsLock
<1> QED
  BY <1>1, <1>2, <1>3 DEF PaperInv

\* One order in flight at a time: the others are not, under the lock of one task.
LEMMA OneFlight ==
    ASSUME PaperInv, NEW t \in Paper!Tasks, Paper!HoldsLock(t),
           NEW u \in Paper!Tasks, u # t
    PROVE  ~ Paper!InFlight(u)
BY DEF PaperInv, Flight, Paper!HoldsLock

\* Who leaves the lock's line leaves the one at its head, unless it was them.
LEMMA QueueLeaves ==
    ASSUME NEW S, NEW q \in Seq(S), NEW t
    PROVE  /\ Paper!Leave(q, t) \in Seq(S)
           /\ q # <<>> /\ Head(q) # t => Paper!Leave(q, t) # <<>> /\ Head(Paper!Leave(q, t)) = Head(q)
<1>1. CASE \E i \in DOMAIN q : q[i] = t
  <2> DEFINE i == CHOOSE i \in DOMAIN q : q[i] = t
  <2>1. i \in DOMAIN q /\ q[i] = t
    BY <1>1
  <2>2. Paper!Leave(q, t) = SubSeq(q, 1, i - 1) \o SubSeq(q, i + 1, Len(q))
    BY <1>1 DEF Paper!Leave
  <2> HIDE DEF i
  <2>3. i \in 1..Len(q) /\ Len(q) \in Nat
    BY SMTT(60), <2>1
  <2>4. /\ SubSeq(q, 1, i - 1) \in Seq(S) /\ Len(SubSeq(q, 1, i - 1)) = i - 1
        /\ SubSeq(q, i + 1, Len(q)) \in Seq(S)
        /\ i > 1 => SubSeq(q, 1, i - 1)[1] = q[1]
    BY SMTT(60), <2>3
  <2>5. Paper!Leave(q, t) \in Seq(S)
    BY SMTT(60), <2>2, <2>4
  <2>6. ASSUME q # <<>>, Head(q) # t
        PROVE  Paper!Leave(q, t) # <<>> /\ Head(Paper!Leave(q, t)) = Head(q)
    <3>1. Head(q) = q[1]
      BY SMTT(60), <2>6
    <3>2. i > 1
      BY SMTT(60), <2>1, <2>3, <2>6, <3>1
    <3> DEFINE a == SubSeq(q, 1, i - 1) b == SubSeq(q, i + 1, Len(q))
    <3>3. a \in Seq(S) /\ b \in Seq(S) /\ Len(a) >= 1 /\ a[1] = Head(q)
      BY SMTT(60), <2>3, <2>4, <3>1, <3>2
    <3> HIDE DEF a, b
    <3>4. a \o b # <<>> /\ Head(a \o b) = a[1]
      BY SMTT(60), <3>3
    <3> QED
      BY <2>2, <3>3, <3>4 DEF a, b
  <2> QED
    BY <2>5, <2>6
<1>2. CASE ~ \E i \in DOMAIN q : q[i] = t
  BY <1>2 DEF Paper!Leave
<1> QED
  BY <1>1, <1>2


\* An order is settled: the lock passes on, and the word is true.
LEMMA SettleKeeps ==
    ASSUME PaperInv, NEW t \in Paper!Tasks, NEW word, Paper!Settle(t, word),
           Paper!HoldsLock(t), Sessions(store)', \A id : Durable(id) => Durable(id)',
           word \in {"accepted", "duplicate"} => Durable(task[t].r.id)
    PROVE  PaperInv'
<1>1. task' = [task EXCEPT ![t] = Paper!Idle] /\ queue' = Paper!Leave(queue, t)
  BY DEF Paper!Settle
<1>2. /\ DOMAIN task' = Paper!Tasks /\ task' = [u \in DOMAIN task' |-> task'[u]]
      /\ task'[t] = Paper!Idle /\ \A u \in Paper!Tasks \ {t} : task'[u] = task[u]
  BY <1>1 DEF PaperInv
<1>3. \A u \in Paper!Tasks : ~ Paper!InFlight(u)'
  <2>1. ~ Paper!InFlight(t)'
    <3>1. Paper!Idle.pc = "idle" /\ task'[t] = Paper!Idle
      <4>1. Paper!Idle.pc = "idle"
        BY DEF Paper!Idle
      <4> QED
        BY <1>2, <4>1
    <3> QED
      BY <3>1 DEF Paper!InFlight
  <2>2. ASSUME NEW u \in Paper!Tasks, u # t PROVE ~ Paper!InFlight(u)'
    BY <1>2, <2>2, OneFlight DEF Paper!InFlight
  <2> QED
    BY <2>1, <2>2
<1>4. queue' \in Seq(Paper!Tasks)
  BY <1>1, QueueLeaves DEF PaperInv
<1>5. Answered'
  <2>1. CASE t = "autopilot"
    BY <2>1, AnsweredKeeps DEF PaperInv, Paper!Settle
  <2>2. CASE t # "autopilot"
    <3>1. replies' = replies \cup {<<task[t].r.id, word>>}
      BY <2>2 DEF Paper!Settle
    <3>2. ASSUME NEW a \in replies', a[2] \in {"accepted", "duplicate"} PROVE Durable(a[1])'
      <4>1. CASE a \in replies
        BY <3>2, <4>1 DEF PaperInv, Answered
      <4>2. CASE a = <<task[t].r.id, word>>
        <5>1. a[1] = task[t].r.id /\ a[2] = word
          BY SMTT(60), <4>2
        <5> QED
          BY <3>2, <5>1
      <4> QED
        BY <3>1, <4>1, <4>2
    <3> QED
      BY <3>2 DEF Answered
  <2> QED
    BY <2>1, <2>2
<1> QED
  BY <1>2, <1>3, <1>4, <1>5 DEF PaperInv, Flight

\* The journal as it is.
LEMMA JournalStays ==
    ASSUME PaperInv, store' = store
    PROVE  Sessions(store)' /\ \A id : Durable(id) <=> Durable(id)'
BY DEF PaperInv, Sessions, Durable, Paper!JournalledIn

\* One order moves on under the lock, and the others wait.
LEMMA FlightKeeps ==
    ASSUME PaperInv, NEW t \in Paper!Tasks, NEW x, task' = [task EXCEPT ![t] = x],
           Paper!HoldsLock(t), UNCHANGED <<queue, replies>>, Sessions(store)',
           \A id : Durable(id) => Durable(id)', Flight(t)'
    PROVE  PaperInv'
<1>1. /\ DOMAIN task' = Paper!Tasks /\ task' = [u \in DOMAIN task' |-> task'[u]]
      /\ \A u \in Paper!Tasks \ {t} : task'[u] = task[u]
  BY DEF PaperInv
<1>2. ASSUME NEW u \in Paper!Tasks, u # t PROVE ~ Paper!InFlight(u)'
  BY <1>1, <1>2, OneFlight DEF Paper!InFlight
<1>3. \A u \in Paper!Tasks : Flight(u)'
  BY <1>2 DEF Flight
<1> QED
  BY <1>1, <1>3, AnsweredKeeps DEF PaperInv

LEMMA CheckKeeps ==
    ASSUME PaperInv, NEW t \in Paper!Tasks, Paper!_simulate_locked(t)
    PROVE  PaperInv'
<1>1. Paper!HoldsLock(t) /\ UNCHANGED <<port, store>>
  BY DEF Paper!_simulate_locked
<1>2. CASE \E a \in {"halted", "error", "rejected"} : Paper!Settle(t, a)
  <2>1. PICK a \in {"halted", "error", "rejected"} : Paper!Settle(t, a)
    BY <1>2
  <2>2. a \notin {"accepted", "duplicate"}
    BY <2>1
  <2> QED
    BY <1>1, <2>1, <2>2, SettleKeeps, JournalStays
<1>3. CASE ~ \E a \in {"halted", "error", "rejected"} : Paper!Settle(t, a)
  <2> DEFINE x == [pc |-> "append", r |-> task[t].r, stop |-> task[t].stop,
                   fill |-> Paper!Fill(task[t].r), session |-> 0,
                   seen |-> port.pos[task[t].r.asset].qty, fresh |-> TRUE]
  <2>1. task' = [task EXCEPT ![t] = x] /\ UNCHANGED <<queue, replies>>
    BY <1>3 DEF Paper!_simulate_locked
  <2>2. /\ x.pc = "append" /\ x.r = task[t].r /\ x.fill.id = x.r.id
        /\ x.seen = port.pos[x.r.asset].qty
        /\ x = [pc |-> x.pc, r |-> x.r, stop |-> x.stop, fill |-> x.fill,
                session |-> x.session, seen |-> x.seen, fresh |-> x.fresh]
    BY DEF Paper!Fill
  <2> HIDE DEF x
  <2>3. task'[t] = x
    BY <2>1 DEF PaperInv
  <2>4. Paper!HoldsLock(t)'
    BY <1>1, <2>1 DEF Paper!HoldsLock
  <2>5. Flight(t)'
    BY <1>1, <2>2, <2>3, <2>4 DEF Flight
  <2> QED
    BY <1>1, <2>1, <2>5, FlightKeeps, JournalStays
<1> QED
  BY <1>2, <1>3

\* The fields an order in flight changes as it goes.
LEMMA FlightGoes ==
    ASSUME NEW x, NEW pc, NEW n,
           x = [pc |-> x.pc, r |-> x.r, stop |-> x.stop, fill |-> x.fill,
                session |-> x.session, seen |-> x.seen, fresh |-> x.fresh],
           NEW y, y = [x EXCEPT !.pc = pc, !.session = n]
    PROVE  y = [pc |-> pc, r |-> x.r, stop |-> x.stop, fill |-> x.fill,
                session |-> n, seen |-> x.seen, fresh |-> x.fresh]
OBVIOUS

LEMMA FlightTurns ==
    ASSUME NEW x, NEW pc,
           x = [pc |-> x.pc, r |-> x.r, stop |-> x.stop, fill |-> x.fill,
                session |-> x.session, seen |-> x.seen, fresh |-> x.fresh],
           NEW y, y = [x EXCEPT !.pc = pc]
    PROVE  y = [pc |-> pc, r |-> x.r, stop |-> x.stop, fill |-> x.fill,
                session |-> x.session, seen |-> x.seen, fresh |-> x.fresh]
OBVIOUS

LEMMA FlightStales ==
    ASSUME NEW x,
           x = [pc |-> x.pc, r |-> x.r, stop |-> x.stop, fill |-> x.fill,
                session |-> x.session, seen |-> x.seen, fresh |-> x.fresh],
           NEW y, y = [x EXCEPT !.fresh = FALSE]
    PROVE  y = [pc |-> x.pc, r |-> x.r, stop |-> x.stop, fill |-> x.fill,
                session |-> x.session, seen |-> x.seen, fresh |-> FALSE]
OBVIOUS

LEMMA SessionKeeps ==
    ASSUME PaperInv, NEW t \in Paper!Tasks, Paper!ensure_active_session(t)
    PROVE  PaperInv'
<1> DEFINE x == task[t] y == [x EXCEPT !.pc = "insert", !.session = Len(store)]
<1>1. task' = [task EXCEPT ![t] = y] /\ UNCHANGED <<queue, port, store, replies>>
  BY DEF Paper!ensure_active_session, Paper!Active
<1>2. Paper!InFlight(t) /\ Flight(t)
  BY DEF PaperInv, Paper!ensure_active_session, Paper!InFlight
<1>3. Len(store) \in DOMAIN store
  <2>1. PICK X : store \in Seq(Seq(X)) /\ store # <<>>
    BY DEF PaperInv, Sessions
  <2> QED
    BY SMTT(60), <2>1
<1>4. y = [pc |-> "insert", r |-> x.r, stop |-> x.stop, fill |-> x.fill,
           session |-> Len(store), seen |-> x.seen, fresh |-> x.fresh]
  <2>1. x = [pc |-> x.pc, r |-> x.r, stop |-> x.stop, fill |-> x.fill,
             session |-> x.session, seen |-> x.seen, fresh |-> x.fresh]
    BY <1>2 DEF Flight
  <2> HIDE DEF x
  <2> QED
    BY <2>1, FlightGoes
<1>5. /\ y.pc = "insert" /\ y.r = x.r /\ y.fill = x.fill /\ y.session = Len(store)
      /\ y.seen = x.seen /\ y.fresh = x.fresh
      /\ y = [pc |-> y.pc, r |-> y.r, stop |-> y.stop, fill |-> y.fill,
              session |-> y.session, seen |-> y.seen, fresh |-> y.fresh]
  BY <1>4
<1>6. x.fill.id = x.r.id /\ (x.fresh => port.pos[x.r.asset].qty = x.seen) /\ Paper!HoldsLock(t)
  BY <1>2 DEF Flight
<1> HIDE DEF x, y
<1>7. task'[t] = y
  BY <1>1 DEF PaperInv
<1>8. Paper!HoldsLock(t)'
  BY <1>1, <1>6 DEF Paper!HoldsLock
<1>9. Flight(t)'
  BY <1>1, <1>3, <1>5, <1>6, <1>7, <1>8 DEF Flight
<1> QED
  BY <1>1, <1>6, <1>9, FlightKeeps, JournalStays


\* What an order in flight may insert: its fill, into a session there is.
LEMMA InsertedKeeps ==
    ASSUME PaperInv, NEW t \in Paper!Tasks, task[t].pc = "insert",
           store' = Paper!Insert(task[t].session, task[t].fill)
    PROVE  /\ Sessions(store)' /\ DOMAIN store' = DOMAIN store
           /\ \A id : Durable(id) => Durable(id)'
           /\ \A id : id = task[t].r.id => Durable(id)'
<1>1. Sessions(store) /\ task[t].session \in DOMAIN store /\ task[t].fill.id = task[t].r.id
  BY DEF PaperInv, Flight, Paper!InFlight
<1>2. PICK n, f : n \in DOMAIN store /\ n = task[t].session /\ f = task[t].fill
  BY <1>1
<1>3. /\ Sessions(store)' /\ DOMAIN store' = DOMAIN store
      /\ \A id : Durable(id) => Durable(id)'
      /\ Durable(f.id)'
  BY <1>1, <1>2, InsertGrows
<1> QED
  BY <1>1, <1>2, <1>3

LEMMA FillAppends ==
    ASSUME PaperInv, NEW t \in Paper!Tasks, Paper!append(t)
    PROVE  PaperInv'
<1> DEFINE x == task[t] y == [x EXCEPT !.pc = "apply"]
<1>1. task[t].pc = "insert" /\ port' = port
  BY DEF Paper!append
<1>2. /\ Paper!HoldsLock(t) /\ x.session \in DOMAIN store /\ x.fill.id = x.r.id
      /\ x.fresh => port.pos[x.r.asset].qty = x.seen
      /\ x = [pc |-> x.pc, r |-> x.r, stop |-> x.stop, fill |-> x.fill,
              session |-> x.session, seen |-> x.seen, fresh |-> x.fresh]
  BY <1>1 DEF PaperInv, Flight, Paper!InFlight
<1>3. CASE Paper!JournalledIn(x.r.id, x.session)
  <2>1. Paper!Settle(t, "duplicate") /\ store' = store
    BY <1>3 DEF Paper!append
  <2>2. Durable(task[t].r.id)
    BY <1>2, <1>3 DEF Durable
  <2> QED
    BY <1>2, <2>1, <2>2, SettleKeeps, JournalStays
<1>4. CASE ~ Paper!JournalledIn(x.r.id, x.session)
  <2>1. /\ store' = Paper!Insert(task[t].session, task[t].fill)
        /\ task' = [task EXCEPT ![t] = y] /\ UNCHANGED <<queue, replies>>
    BY <1>4 DEF Paper!append
  <2>2. y = [pc |-> "apply", r |-> x.r, stop |-> x.stop, fill |-> x.fill,
             session |-> x.session, seen |-> x.seen, fresh |-> x.fresh]
    BY <1>2, FlightTurns
  <2>3. /\ y.pc = "apply" /\ y.r = x.r /\ y.fill = x.fill
        /\ y.seen = x.seen /\ y.fresh = x.fresh
        /\ y = [pc |-> y.pc, r |-> y.r, stop |-> y.stop, fill |-> y.fill,
                session |-> y.session, seen |-> y.seen, fresh |-> y.fresh]
    BY <2>2
  <2>4. /\ Sessions(store)' /\ \A id : Durable(id) => Durable(id)'
        /\ \A id : id = x.r.id => Durable(id)'
    BY <1>1, <2>1, InsertedKeeps
  <2> HIDE DEF x, y
  <2>7. task'[t] = y
    BY <2>1 DEF PaperInv
  <2>8. Paper!HoldsLock(t)'
    BY <1>2, <2>1 DEF Paper!HoldsLock
  <2>9. Flight(t)'
    BY <1>1, <1>2, <2>3, <2>4, <2>7, <2>8 DEF Flight
  <2> QED
    BY <1>2, <2>1, <2>4, <2>9, FlightKeeps
<1> QED
  BY <1>3, <1>4

LEMMA FailsKeeps ==
    ASSUME PaperInv, NEW t \in Paper!Tasks, Paper!AppendFails(t)
    PROVE  PaperInv'
<1>1. Paper!HoldsLock(t) /\ Paper!Settle(t, "unavailable")
  BY DEF Paper!AppendFails, PaperInv, Flight, Paper!InFlight
<1>2. \/ store' = store
      \/ task[t].pc = "insert" /\ store' = Paper!Insert(task[t].session, task[t].fill)
  BY DEF Paper!AppendFails
<1>3. Sessions(store)' /\ \A id : Durable(id) => Durable(id)'
  BY <1>2, JournalStays, InsertedKeeps
<1> QED
  BY <1>1, <1>3, SettleKeeps

LEMMA ApplyKeeps ==
    ASSUME PaperInv, NEW t \in Paper!Tasks, Paper!ApplyFill(t)
    PROVE  PaperInv'
<1>1. Paper!HoldsLock(t) /\ Durable(task[t].r.id) /\ store' = store
  BY DEF Paper!ApplyFill, PaperInv, Flight, Paper!InFlight
<1>2. \E a : Paper!Settle(t, a)
  BY DEF Paper!ApplyFill
<1> QED
  BY <1>1, <1>2, SettleKeeps, JournalStays

\* An order joins the line for the lock.
LEMMA EnterKeeps ==
    ASSUME PaperInv, NEW t \in Paper!Tasks, NEW r, NEW stop, Paper!Enter(t, r, stop),
           UNCHANGED <<port, store, replies>>
    PROVE  PaperInv'
<1> DEFINE x == [pc |-> "waiting", r |-> r, stop |-> stop]
<1>1. task' = [task EXCEPT ![t] = x] /\ queue' = Append(queue, t) /\ x.pc = "waiting"
  BY DEF Paper!Enter
<1> HIDE DEF x
<1>2. /\ DOMAIN task' = Paper!Tasks /\ task' = [u \in DOMAIN task' |-> task'[u]]
      /\ task'[t] = x /\ \A u \in Paper!Tasks \ {t} : task'[u] = task[u]
  BY <1>1 DEF PaperInv
<1>q. queue \in Seq(Paper!Tasks)
  BY DEF PaperInv
<1>3. queue' \in Seq(Paper!Tasks) /\ (queue # <<>> => queue' # <<>> /\ Head(queue') = Head(queue))
  BY SMTT(60), <1>1, <1>q
<1>4. ASSUME NEW u \in Paper!Tasks PROVE Flight(u)'
  <2>1. CASE u = t
    <3>1. task'[u].pc = "waiting"
      BY <1>1, <1>2, <2>1
    <3> QED
      BY <3>1 DEF Flight, Paper!InFlight
  <2>2. CASE u # t
    <3>1. task'[u] = task[u]
      BY <1>2, <2>2
    <3>2. Flight(u)
      BY DEF PaperInv
    <3>3. Paper!HoldsLock(u) => Paper!HoldsLock(u)'
      BY <1>3 DEF Paper!HoldsLock
    <3>4. \A id : Durable(id) => Durable(id)'
      BY JournalStays
    <3> QED
      BY <3>1, <3>2, <3>3, <3>4 DEF Flight, Paper!InFlight
  <2> QED
    BY <2>1, <2>2
<1> QED
  BY <1>2, <1>3, <1>4, JournalStays, AnsweredKeeps DEF PaperInv

LEMMA CycleKeeps ==
    ASSUME PaperInv, NEW price, NEW imbalance, Paper!_cycle(price, imbalance)
    PROVE  PaperInv'
<1>1. UNCHANGED <<port, store, replies>>
  BY DEF Paper!_cycle
<1>2. "autopilot" \in Paper!Tasks
  BY DEF Paper!Tasks
<1>3. UNCHANGED <<task, queue>> \/ \E r, stop : Paper!Enter("autopilot", r, stop)
  BY DEF Paper!_cycle
<1> QED
  BY <1>1, <1>2, <1>3, EnterKeeps, QuietKeeps


\* The orders in flight stand while a journal only grows.
LEMMA GrowthKeeps ==
    ASSUME PaperInv, UNCHANGED <<port, task, queue, replies>>, Sessions(store)',
           DOMAIN store \subseteq DOMAIN store', \A id : Durable(id) => Durable(id)'
    PROVE  PaperInv'
<1>1. ASSUME NEW t \in Paper!Tasks PROVE Flight(t)'
  <2>1. Flight(t)
    BY DEF PaperInv
  <2>2. Paper!HoldsLock(t) => Paper!HoldsLock(t)'
    BY DEF Paper!HoldsLock
  <2> QED
    BY <2>1, <2>2 DEF Flight, Paper!InFlight
<1> QED
  BY <1>1, AnsweredKeeps DEF PaperInv

LEMMA RotationKeeps ==
    ASSUME PaperInv, Paper!start_new_session \/ Paper!RotationFails
    PROVE  PaperInv'
<1>1. UNCHANGED <<port, task, queue, replies>> /\ (store' = store \/ store' = Append(store, <<>>))
  BY DEF Paper!start_new_session, Paper!RotationFails
<1>2. Sessions(store)
  BY DEF PaperInv
<1> QED
  BY <1>1, <1>2, GrowthKeeps, SessionGrows, QuietKeeps

LEMMA TimelineKeeps ==
    ASSUME PaperInv, Paper!FinishTimeline
    PROVE  PaperInv'
<1>1. UNCHANGED <<store, queue, replies>>
  BY DEF Paper!FinishTimeline
<1>2. CASE UNCHANGED <<port, task>>
  BY <1>1, <1>2, QuietKeeps
<1>3. CASE ~ UNCHANGED <<port, task>>
  <2>1. task' = [t \in Paper!Tasks |-> IF task[t].pc \in {"append", "insert", "apply"}
                                       THEN [task[t] EXCEPT !.fresh = FALSE] ELSE task[t]]
    BY <1>3 DEF Paper!FinishTimeline, Paper!ResetPortfolio
  <2>2. DOMAIN task' = Paper!Tasks /\ task' = [t \in DOMAIN task' |-> task'[t]]
    BY <2>1
  <2>3. ASSUME NEW t \in Paper!Tasks PROVE Flight(t)'
    <3>1. Flight(t)
      BY DEF PaperInv
    <3>2. CASE ~ Paper!InFlight(t)
      <4>1. task'[t] = task[t]
        BY <2>1, <3>2 DEF Paper!InFlight
      <4> QED
        BY <3>2, <4>1 DEF Flight, Paper!InFlight
    <3>3. CASE Paper!InFlight(t)
      <4> DEFINE x == task[t] y == task'[t]
      <4>1. y = [x EXCEPT !.fresh = FALSE]
        BY <2>1, <3>3 DEF Paper!InFlight
      <4>2. x = [pc |-> x.pc, r |-> x.r, stop |-> x.stop, fill |-> x.fill,
                 session |-> x.session, seen |-> x.seen, fresh |-> x.fresh]
        BY <3>1, <3>3 DEF Flight
      <4>3. y = [pc |-> x.pc, r |-> x.r, stop |-> x.stop, fill |-> x.fill,
                 session |-> x.session, seen |-> x.seen, fresh |-> FALSE]
        BY <4>1, <4>2, FlightStales
      <4>4. /\ y.pc = x.pc /\ y.r = x.r /\ y.fill = x.fill /\ y.session = x.session
            /\ y.fresh = FALSE
            /\ y = [pc |-> y.pc, r |-> y.r, stop |-> y.stop, fill |-> y.fill,
                    session |-> y.session, seen |-> y.seen, fresh |-> y.fresh]
        <5> HIDE DEF x, y
        <5> QED
          BY <4>3
      <4>5. Paper!HoldsLock(t) => Paper!HoldsLock(t)'
        BY <1>1 DEF Paper!HoldsLock
      <4>6. \A id : Durable(id) => Durable(id)'
        BY <1>1, JournalStays
      <4> QED
        BY <1>1, <3>1, <3>3, <4>4, <4>5, <4>6 DEF Flight
    <3> QED
      BY <3>2, <3>3
  <2> QED
    BY <1>1, <2>2, <2>3, JournalStays, AnsweredKeeps DEF PaperInv
<1> QED
  BY <1>2, <1>3

LEMMA StopKeeps ==
    ASSUME PaperInv, NEW b, Paper!StopAutopilot(b)
    PROVE  PaperInv'
<1> DEFINE p == "autopilot"
<1>1. /\ p \in Paper!Tasks /\ task' = [task EXCEPT ![p] = Paper!Idle]
      /\ queue' = Paper!Leave(queue, p) /\ UNCHANGED <<port, replies>>
  BY DEF Paper!StopAutopilot, Paper!Tasks
<1>2. \/ store' = store
      \/ task[p].pc = "insert" /\ store' = Paper!Insert(task[p].session, task[p].fill)
  BY DEF Paper!StopAutopilot
<1>3. /\ Sessions(store)' /\ DOMAIN store' = DOMAIN store
      /\ \A id : Durable(id) => Durable(id)'
  BY <1>1, <1>2, JournalStays, InsertedKeeps
<1>4. /\ DOMAIN task' = Paper!Tasks /\ task' = [u \in DOMAIN task' |-> task'[u]]
      /\ task'[p] = Paper!Idle /\ \A u \in Paper!Tasks \ {p} : task'[u] = task[u]
  BY <1>1 DEF PaperInv
<1>5. /\ queue' \in Seq(Paper!Tasks)
      /\ queue # <<>> /\ Head(queue) # p => queue' # <<>> /\ Head(queue') = Head(queue)
  BY <1>1, QueueLeaves DEF PaperInv
<1>6. ASSUME NEW t \in Paper!Tasks PROVE Flight(t)'
  <2>1. CASE t = p
    <3>1. Paper!Idle.pc = "idle"
      BY DEF Paper!Idle
    <3>2. task'[t].pc = "idle"
      BY <1>4, <2>1, <3>1
    <3> QED
      BY <3>2 DEF Flight, Paper!InFlight
  <2>2. CASE t # p
    <3>1. task'[t] = task[t]
      BY <1>4, <2>2
    <3>2. Flight(t)
      BY DEF PaperInv
    <3>3. Paper!HoldsLock(t) => Paper!HoldsLock(t)'
      BY <1>5, <2>2 DEF Paper!HoldsLock
    <3> QED
      BY <1>1, <1>3, <3>1, <3>2, <3>3 DEF Flight, Paper!InFlight
  <2> QED
    BY <2>1, <2>2
<1> QED
  BY <1>1, <1>3, <1>4, <1>5, <1>6, AnsweredKeeps DEF PaperInv

LEMMA RestartedKeeps ==
    ASSUME PaperInv, Paper!Restart
    PROVE  PaperInv'
<1>1. /\ DOMAIN task' = Paper!Tasks /\ task' = [t \in DOMAIN task' |-> task'[t]]
      /\ \A t \in Paper!Tasks : task'[t] = Paper!Idle
  BY DEF Paper!Restart
<1>2. queue' \in Seq(Paper!Tasks) /\ UNCHANGED <<store, replies>>
  BY SMTT(60) DEF Paper!Restart
<1>3. Paper!Idle.pc = "idle"
  BY DEF Paper!Idle
<1>4. \A t \in Paper!Tasks : ~ Paper!InFlight(t)'
  BY <1>1, <1>3 DEF Paper!InFlight
<1> QED
  BY <1>1, <1>2, <1>4, JournalStays, AnsweredKeeps DEF PaperInv, Flight

\* A step of the simulator keeps all this.
LEMMA PaperStep ==
    ASSUME PaperInv, Paper!Next
    PROVE  PaperInv'
<1>1. ASSUME NEW c \in Clients, Paper!simulate(c) PROVE PaperInv'
  <2>1. UNCHANGED <<port, store, replies>> /\ c \in Paper!Tasks
    BY <1>1 DEF Paper!simulate, Paper!Tasks
  <2>2. \E r : Paper!Enter(c, r, FALSE)
    BY <1>1 DEF Paper!simulate
  <2> QED
    BY <2>1, <2>2, EnterKeeps
<1>2. ASSUME NEW mode, Paper!start_runtime(mode) PROVE PaperInv'
  BY <1>2, QuietKeeps DEF Paper!start_runtime, Paper!rest
<1>3. CASE Paper!stop_runtime \/ Paper!killswitch_trigger \/ Paper!killswitch_reset
  BY <1>3, QuietKeeps DEF Paper!stop_runtime, Paper!killswitch_trigger,
       Paper!killswitch_reset, Paper!rest
<1>4. CASE Paper!replay_pause \/ Paper!replay_resume \/ Paper!replay_step \/ Paper!replay_reset
  BY <1>4, QuietKeeps DEF Paper!replay_pause, Paper!replay_resume, Paper!replay_step,
       Paper!replay_reset, Paper!rest
<1>5. ASSUME NEW op, NEW n, Paper!Rotate(op, n) PROVE PaperInv'
  BY <1>5, QuietKeeps DEF Paper!Rotate, Paper!rest
<1>6. CASE Paper!simulation_reset \/ Paper!replay_start \/ Paper!replay_restart \/ Paper!replay_seek
  BY <1>5, <1>6 DEF Paper!simulation_reset, Paper!replay_start, Paper!replay_restart,
       Paper!replay_seek
<1>7. CASE Paper!reconcile_configured_paper_autonomy \/ Paper!Tick
  BY <1>7, QuietKeeps DEF Paper!reconcile_configured_paper_autonomy, Paper!Tick
<1> QED
  BY <1>1, <1>2, <1>3, <1>4, <1>6, <1>7, CheckKeeps, SessionKeeps, FillAppends, FailsKeeps,
     ApplyKeeps, RotationKeeps, TimelineKeeps, CycleKeeps, StopKeeps, RestartedKeeps
     DEF Paper!Next

\* The critical section holds what it read.
LEMMA PaperChecks == ASSUME PaperInv PROVE Paper!CheckStillHolds
BY DEF PaperInv, Flight, Paper!CheckStillHolds

\* The answers are of journalled orders.
LEMMA PaperAnswers == ASSUME PaperInv PROVE Paper!AnswersAreTrue
BY DEF PaperInv, Answered, Durable, Paper!AnswersAreTrue

-----------------------------------------------------------------------------
(* Both together. *)

LocksInv ==
    /\ locking = "conversation" => ProfileInv
    /\ locking = "paper" => PaperInv

LEMMA LocksStart == LocksInit => LocksInv
<1> SUFFICES ASSUME LocksInit PROVE LocksInv
  OBVIOUS
<1>1. ASSUME locking = "conversation" PROVE ProfileInv
  <2>1. Profile!Init
    BY <1>1 DEF LocksInit
  <2> QED
    BY <2>1, ProfileInit
<1>2. ASSUME locking = "paper" PROVE PaperInv
  <2>1. Paper!Init
    BY <1>2 DEF LocksInit
  <2> QED
    BY <2>1, PaperInit
<1> QED
  BY <1>1, <1>2 DEF LocksInv

\* A step of the composition is one of the component that is running, which keeps
\* its invariant; the others are not running before or after it.
LEMMA LocksStep == LocksInv /\ [LocksNext]_locks => LocksInv'
<1> SUFFICES ASSUME LocksInv, [LocksNext]_locks PROVE LocksInv'
  OBVIOUS
<1>0. locking' = locking
  BY DEF LocksNext, locks
<1>1. ASSUME locking = "conversation" PROVE ProfileInv'
  <2>1. Profile!Next \/ UNCHANGED Profile!vars
    BY <1>1 DEF LocksNext, locks, profileVars, Profile!vars, Profile!server
  <2> QED
    BY <1>1, <2>1, ProfileStep, ProfileIdle DEF LocksInv
<1>2. ASSUME locking = "paper" PROVE PaperInv'
  <2>1. Paper!Next \/ UNCHANGED <<port, task, queue, store, replies>>
    BY <1>2 DEF LocksNext, locks, paperVars
  <2> QED
    BY <1>2, <2>1, PaperStep, QuietKeeps DEF LocksInv
<1> QED
  BY <1>0, <1>1, <1>2 DEF LocksInv

LEMMA Invariance == LocksSpec => []LocksInv
BY LocksStart, LocksStep, PTL DEF LocksSpec

\* No rotated refresh token is presented again and no stored answer is replaced,
\* however many tasks of the host share the profile (access_token, _refresh, send).
THEOREM ConversationAlwaysKept == LocksSpec => []ConversationIsKept
<1>1. LocksInv => ConversationIsKept
  BY ProfileHolds DEF LocksInv, ConversationIsKept
<1> QED
  BY <1>1, Invariance, PTL

\* No step leaves a saved profile without its registration or with another account
\* (connect, callback, _clear_tokens).
THEOREM AccountAlwaysKept == LocksSpec => ProfileKeepsItsAccount
<1>1. LocksInv /\ [LocksNext]_locks => [locking = "conversation" => Profile!ProfileKept]_locks
  <2> SUFFICES ASSUME LocksInv, LocksNext, locking = "conversation" PROVE Profile!ProfileKept
    OBVIOUS
  <2>1. ProfileInv /\ Profile!Next
    BY DEF LocksInv, LocksNext
  <2> QED
    BY <2>1, ProfileBinds
<1> QED
  BY <1>1, Invariance, PTL DEF LocksSpec, ProfileKeepsItsAccount

\* A fill reaches the position its order's risk check saw, whatever other callers, the
\* autopilot and the operator do between the two (_simulate_locked, _simulation_lock).
THEOREM CheckAlwaysHolds == LocksSpec => []CheckStillHolds
<1>1. LocksInv => CheckStillHolds
  BY PaperChecks DEF LocksInv, CheckStillHolds
<1> QED
  BY <1>1, Invariance, PTL

\* An order answered as accepted or as a duplicate has its fill in the journal, through
\* failed commits, retries, timeline changes and restarts (_simulate_locked, append).
THEOREM AnswersAreDurable == LocksSpec => []AnswersAreTrue
<1>1. LocksInv => AnswersAreTrue
  BY PaperAnswers DEF LocksInv, AnswersAreTrue
<1> QED
  BY <1>1, Invariance, PTL
=============================================================================
