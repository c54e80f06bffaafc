--------------------------- MODULE Services_proofs ---------------------------
(***************************************************************************)
(* Proofs about the services of concurrent requests, for any number of     *)
(* requests at once and any values of the other constants.                 *)
(***************************************************************************)
EXTENDS Services, SharedLemmas

-----------------------------------------------------------------------------
(* The daily limit.                                                          *)

LimitDays == 1 .. LastDay
Waits(w) == w = [pc |-> "waiting", now |-> w.now] /\ w.now \in LimitDays

LimitTypes ==
    /\ today \in LimitDays
    /\ count \in 0 .. DailyLimit
    /\ resetDay \in LimitDays \cup {NoDay}
    /\ rows \in [LimitDays -> Nat]
    /\ DOMAIN req = Requests
    /\ \A r \in Requests : req[r].pc = "waiting" => req[r].now \in LimitDays
    /\ sweep.pc = "waiting" => sweep.now \in LimitDays
    /\ late \subseteq LimitDays

(* The day of the counter separates the days: of those that no late writer   *)
(* touched, the later ones have no submissions, and the counter is right for *)
(* its own.                                                                  *)
CounterSeparates ==
    \A d \in LimitDays \ late :
        /\ resetDay = d => rows[d] = count
        /\ resetDay = NoDay \/ (resetDay \in LimitDays /\ resetDay < d) => rows[d] = 0

LimitInv == LimitTypes /\ CounterSeparates /\ Limit!LimitIsExact

(* Every step of the limit keeps its invariant.                              *)
LEMMA LimitInvStep == LimitInv /\ [Limit!Next]_ofLimit => LimitInv'
<1> SUFFICES ASSUME LimitInv, [Limit!Next]_ofLimit PROVE LimitInv'
  OBVIOUS
<1> USE DaysAssumption, LimitAssumption
<1> USE DEF LimitInv, LimitTypes, CounterSeparates, LimitDays, Limit!LimitIsExact,
            Limit!LimitHolds, Limit!CounterIsBacked, Limit!Days
<1>1. CASE UNCHANGED ofLimit
  BY <1>1 DEF ofLimit
<1>2. CASE Limit!NextDay
  BY <1>2 DEF Limit!NextDay
<1>3. ASSUME NEW r \in Requests, Limit!CreateSubmission(r) PROVE LimitInv'
  BY <1>3 DEF Limit!CreateSubmission, Limit!Waiting
<1>4. ASSUME NEW r \in Requests, Limit!Submit(r) PROVE LimitInv'
  <2> DEFINE d == req[r].now
  <2>1. d \in LimitDays /\ UNCHANGED <<today, sweep>> /\ DOMAIN req' = Requests
        /\ \A q \in Requests : req'[q].pc = "waiting" => req'[q].now \in LimitDays
    BY <1>4 DEF Limit!Submit, Limit!NoRequest
  <2>2. CASE ~Limit!Accepts(d)
    BY <1>4, <2>1, <2>2 DEF Limit!Submit
  <2>3. CASE Limit!Accepts(d)
    <3> DEFINE k == IF resetDay = d THEN count ELSE 0
    <3>1. /\ rows' = [rows EXCEPT ![d] = @ + 1] /\ count' = k + 1 /\ resetDay' = d
          /\ late' = late \cup Limit!Lost(d) /\ k < DailyLimit
      BY <1>4, <2>3
      DEF Limit!Submit, Limit!Accepts, Limit!AfterSubmit, Limit!CurrentCount
    <3> HIDE DEF d
    <3>t. k \in 0 .. DailyLimit /\ d \in Int
      BY <2>1
    <3>l. late' \subseteq LimitDays
      <4>1. ASSUME NEW e \in Limit!Lost(d) PROVE e \in LimitDays
        BY <2>1 DEF Limit!Lost
      <4> QED
        BY <3>1, <4>1
    <3>c. count' \in 0 .. DailyLimit /\ rows' \in [LimitDays -> Nat]
      BY <2>1, <3>1, <3>t
    <3>2. LimitTypes'
      BY <2>1, <3>1, <3>l, <3>c
    <3>3. ASSUME NEW e \in LimitDays \ late'
          PROVE  /\ e = d => rows'[e] = count'
                 /\ d < e => rows'[e] = 0
                 /\ rows'[e] <= DailyLimit
      <4>1. e \notin late /\ (resetDay = NoDay \/ resetDay <= d \/ e < d \/ e > resetDay)
        BY <2>1, <3>1, <3>t DEF Limit!Lost
      <4>2. CASE e = d
        BY <2>1, <3>1, <3>t, <4>1, <4>2
      <4>3. CASE e # d
        BY <2>1, <3>1, <3>t, <4>1, <4>3
      <4> QED
        BY <4>2, <4>3
    <3>4. count' <= rows'[d]
      BY <2>1, <3>1
    <3> QED
      BY <2>1, <3>1, <3>2, <3>3, <3>4
  <2> QED
    BY <2>2, <2>3
<1>5. ASSUME NEW r \in Requests, Limit!SubmitFails(r) PROVE LimitInv'
  BY <1>5 DEF Limit!SubmitFails, Limit!NoRequest
<1>6. CASE Limit!SweepStart
  BY <1>6 DEF Limit!SweepStart, Limit!Waiting
<1>7. CASE Limit!ResetUser
  <2> DEFINE d == sweep.now
  <2>1. d \in LimitDays /\ UNCHANGED <<today, rows, req>> /\ sweep'.pc # "waiting"
    BY <1>7 DEF Limit!ResetUser, Limit!Asleep
  <2>2. CASE ~Limit!Stale(d)
    BY <1>7, <2>1, <2>2 DEF Limit!ResetUser
  <2>3. CASE Limit!Stale(d)
    <3>1. /\ count' = 0 /\ resetDay' = d /\ resetDay # d /\ late' = late \cup Limit!Lost(d)
      BY <1>7, <2>3 DEF Limit!ResetUser, Limit!Stale
    <3> HIDE DEF d
    <3>l. late' \subseteq LimitDays
      <4>1. ASSUME NEW e \in Limit!Lost(d) PROVE e \in LimitDays
        BY <2>1 DEF Limit!Lost
      <4> QED
        BY <3>1, <4>1
    <3>2. LimitTypes'
      BY <2>1, <3>1, <3>l
    <3>3. ASSUME NEW e \in LimitDays \ late'
          PROVE  d <= e => rows'[e] = 0
      <4>1. e \notin late /\ (resetDay = NoDay \/ resetDay < d \/ e < d \/ e > resetDay)
        BY <2>1, <3>1 DEF Limit!Lost
      <4> QED
        BY <2>1, <3>1, <4>1
    <3> QED
      BY <2>1, <3>1, <3>2, <3>3 DEF Limit!Lost
  <2> QED
    BY <2>2, <2>3
<1> QED
  BY <1>1, <1>2, <1>3, <1>4, <1>5, <1>6, <1>7 DEF Limit!Next

(* The limit starts in its invariant.                                        *)
LEMMA LimitInvInit == Limit!Init => LimitInv
  BY DaysAssumption, LimitAssumption
  DEF Limit!Init, LimitInv, LimitTypes, CounterSeparates, LimitDays, Limit!Days,
      Limit!LimitIsExact, Limit!LimitHolds, Limit!CounterIsBacked, Limit!NoRequest, Limit!Asleep

-----------------------------------------------------------------------------
(* The admins' calls.                                                        *)

ReviewTypes ==
    /\ status \in [Submissions -> Reviews!Statuses]
    /\ rewards \in [Submissions -> [{"approve", "apply"} -> Nat]]
    /\ DOMAIN call = Requests
    /\ \A c \in Requests :
           \/ call[c] = [pc |-> "none"]
           \/ /\ call[c] = [pc |-> call[c].pc, op |-> call[c].op,
                            sub |-> call[c].sub, seen |-> call[c].seen]
              /\ call[c].pc \in {"loaded", "committed"}
              /\ call[c].op \in Reviews!Operations /\ call[c].sub \in Submissions
              /\ call[c].seen \in Reviews!Statuses
    /\ told \in [Submissions -> {"nothing", "clean", "warned"}]
    /\ ops \in [Submissions -> SUBSET Reviews!Operations]

(* A call is one of the operations that were called on its submission; as    *)
(* long as there is one of them only, what a call has read is PENDING or     *)
(* what the operation writes, which then stands.                             *)
CallsAreKnown ==
    \A c \in Requests : call[c].pc = "loaded" =>
        /\ call[c].op \in ops[call[c].sub]
        /\ ops[call[c].sub] = {"approve"} =>
               \/ call[c].seen = "PENDING"
               \/ call[c].seen = "APPROVED" /\ status[call[c].sub] = "APPROVED"
        /\ ops[call[c].sub] = {"apply"} =>
               \/ call[c].seen = "PENDING"
               \/ call[c].seen = "APPLIED_TO_BRICK" /\ status[call[c].sub] = "APPLIED_TO_BRICK"

(* A submission nothing was called on is as it was submitted, and one that   *)
(* one operation was called on has that operation's status or the first.     *)
StatusFollowsCalls ==
    \A s \in Submissions :
        /\ ops[s] = {} => /\ status[s] = "PENDING"
                          /\ rewards[s]["approve"] = 0 /\ rewards[s]["apply"] = 0
        /\ ops[s] = {"approve"} => status[s] \in {"PENDING", "APPROVED"}
        /\ ops[s] = {"apply"} => status[s] \in {"PENDING", "APPLIED_TO_BRICK"}

ReviewInv ==
    /\ ReviewTypes /\ CallsAreKnown /\ StatusFollowsCalls
    /\ Reviews!DuplicatesAreTold /\ Reviews!RepeatsRewardOnce

(* Every step of a call keeps the invariant.                                 *)
LEMMA ReviewInvStep == ReviewInv /\ [Reviews!Next]_ofReviews => ReviewInv'
<1> SUFFICES ASSUME ReviewInv, [Reviews!Next]_ofReviews PROVE ReviewInv'
  OBVIOUS
<1> USE DEF ReviewInv, ReviewTypes, CallsAreKnown, StatusFollowsCalls,
            Reviews!DuplicatesAreTold, Reviews!RepeatsRewardOnce,
            Reviews!Operations, Reviews!Statuses
<1>1. CASE UNCHANGED ofReviews
  BY <1>1 DEF ofReviews
<1>2. ASSUME NEW c \in Requests, NEW op \in Reviews!Operations, NEW s \in Submissions,
             Reviews!Load(c, op, s)
      PROVE  ReviewInv'
  <2>1. /\ call[c] = [pc |-> "none"] \/ call[c].pc = "none"
        /\ call' = [call EXCEPT ![c] = [pc |-> "loaded", op |-> op, sub |-> s, seen |-> status[s]]]
        /\ ops' = [ops EXCEPT ![s] = @ \cup {op}]
        /\ UNCHANGED <<status, rewards, told>>
    BY <1>2 DEF Reviews!Load
  <2>2. /\ ops' \in [Submissions -> SUBSET Reviews!Operations]
        /\ op \in ops'[s] /\ ops[s] \subseteq ops'[s]
        /\ \A x \in Submissions \ {s} : ops'[x] = ops[x]
    BY <2>1
  <2>3. /\ DOMAIN call' = Requests /\ \A d \in Requests : d # c => call'[d] = call[d]
        /\ call'[c] = [pc |-> "loaded", op |-> op, sub |-> s, seen |-> status[s]]
    BY <2>1
  <2>4. ReviewTypes'
    BY <2>1, <2>2, <2>3
  <2>5. ops[s] = {} \/ \A o \in Reviews!Operations : ops'[s] = {o} => ops[s] = {o}
    BY <2>1, <2>2
  <2>6. StatusFollowsCalls' /\ Reviews!RepeatsRewardOnce'
    <3>1. \A o \in {"approve", "apply"} : ops'[s] = {o} => ops[s] = {} \/ ops[s] = {o}
      BY <2>5
    <3>2. /\ ops'[s] # {}
          /\ ops'[s] = {"approve"} =>
                 /\ status[s] \in {"PENDING", "APPROVED"}
                 /\ rewards[s]["approve"] = IF status[s] = "APPROVED" THEN 1 ELSE 0
          /\ ops'[s] = {"apply"} =>
                 /\ status[s] \in {"PENDING", "APPLIED_TO_BRICK"}
                 /\ rewards[s]["apply"] = IF status[s] = "APPLIED_TO_BRICK" THEN 1 ELSE 0
      BY <2>2, <3>1
    <3>3. \A y \in Submissions : /\ status'[y] = status[y] /\ rewards'[y] = rewards[y]
                                 /\ y # s => ops'[y] = ops[y]
      BY <2>1, <2>2
    <3>4. StatusFollowsCalls'
      BY <3>2, <3>3
    <3>5. ASSUME NEW y \in Submissions
          PROVE  /\ ops'[y] = {"approve"} =>
                        rewards'[y]["approve"] = IF status'[y] = "APPROVED" THEN 1 ELSE 0
                 /\ ops'[y] = {"apply"} =>
                        rewards'[y]["apply"] = IF status'[y] = "APPLIED_TO_BRICK" THEN 1 ELSE 0
      <4>1. CASE y = s
        BY <3>2, <3>3, <4>1
      <4>2. CASE y # s
        BY <3>3, <4>2
      <4> QED
        BY <4>1, <4>2
    <3> QED
      BY <3>4, <3>5
  <2>7. CallsAreKnown'
    <3>1. ASSUME NEW d \in Requests, d # c, call[d].pc = "loaded", call[d].sub = s
          PROVE  /\ call[d].op \in ops'[s]
                 /\ \A o \in Reviews!Operations : ops'[s] = {o} => ops[s] = {o}
      BY <2>1, <2>2, <2>5, <3>1
    <3>2. ASSUME NEW d \in Requests, d # c, call[d].pc = "loaded", call[d].sub # s
          PROVE  ops'[call[d].sub] = ops[call[d].sub]
      BY <2>2, <3>2
    <3>3. /\ ops'[s] = {"approve"} => status[s] \in {"PENDING", "APPROVED"}
          /\ ops'[s] = {"apply"} => status[s] \in {"PENDING", "APPLIED_TO_BRICK"}
      BY <2>1, <2>2, <2>6
    <3> QED
      BY <2>1, <2>2, <2>3, <3>1, <3>2, <3>3
  <2>8. Reviews!DuplicatesAreTold'
    BY <2>1
  <2> QED
    BY <2>4, <2>6, <2>7, <2>8
<1>3. ASSUME NEW c \in Requests, Reviews!Refuse(c) \/ Reviews!Lose(c) PROVE ReviewInv'
  <2>1. call' = [call EXCEPT ![c] = [pc |-> "none"]] /\ UNCHANGED <<status, rewards, told, ops>>
    BY <1>3 DEF Reviews!Refuse, Reviews!Lose, Reviews!NoCall
  <2>2. ReviewTypes'
    BY <2>1
  <2>3. CallsAreKnown'
    BY <2>1
  <2> QED
    BY <2>1, <2>2, <2>3
<1>4. ASSUME NEW c \in Requests, Reviews!Commit(c) PROVE ReviewInv'
  <2> DEFINE q == call[c]
             x == q.sub
             w == Reviews!Written(q)
             paid == q.op # "reject" /\ q.seen = "PENDING" /\ rewards[x][q.op] = 0
  <2>1. /\ q.pc = "loaded" /\ x \in Submissions /\ q.op \in Reviews!Operations
        /\ q.seen \in Reviews!Statuses
        /\ q.seen = "PENDING" \/ (q.op # "reject" /\ q.seen # "REJECTED")
        /\ status' = [status EXCEPT ![x] = w]
        /\ call' = [call EXCEPT ![c] = [@ EXCEPT !.pc = "committed"]]
        /\ told' = IF w # status[x] THEN [told EXCEPT ![x] = "nothing"] ELSE told
        /\ UNCHANGED ops
    BY <1>4 DEF Reviews!Commit, Reviews!Permitted
  <2>2. /\ q.op = "reject" => w = "REJECTED"
        /\ q.op = "approve" => w = IF paid THEN "APPROVED" ELSE status[x]
        /\ q.op = "apply" =>
              w = IF paid \/ q.seen = "APPROVED" THEN "APPLIED_TO_BRICK" ELSE status[x]
    BY <2>1 DEF Reviews!Written, Reviews!Rewards, Reviews!KeyIsNew, Reviews!AppliesOnly
  <2>3. /\ rewards' \in [Submissions -> [{"approve", "apply"} -> Nat]]
        /\ \A s \in Submissions : \A o \in {"approve", "apply"} :
               rewards'[s][o] = IF paid /\ s = x /\ o = q.op THEN 1 ELSE rewards[s][o]
    <3>1. rewards' = IF paid THEN [rewards EXCEPT ![q.sub][q.op] = @ + 1] ELSE rewards
      BY <1>4 DEF Reviews!Commit, Reviews!Rewards, Reviews!KeyIsNew
    <3>2. CASE ~paid
      BY <3>1, <3>2
    <3>3. CASE paid
      <4>1. rewards' = [rewards EXCEPT ![x][q.op] = @ + 1]
        BY <3>1, <3>3
      <4>2. q.op \in {"approve", "apply"} /\ rewards[x][q.op] = 0
        BY <2>1, <3>3
      <4> HIDE DEF paid, q, x
      <4> QED
        BY <2>1, <3>3, <4>1, <4>2
    <3> QED
      BY <3>2, <3>3
  <2>4. ReviewTypes'
    <3>1. w \in Reviews!Statuses
      BY <2>1, <2>2
    <3>2. status' \in [Submissions -> Reviews!Statuses]
      BY <2>1, <3>1
    <3>3. rewards' \in [Submissions -> [{"approve", "apply"} -> Nat]]
      BY <2>3
    <3>4. told' \in [Submissions -> {"nothing", "clean", "warned"}]
      BY <2>1
    <3>5. /\ DOMAIN call' = Requests /\ \A d \in Requests : d # c => call'[d] = call[d]
          /\ call'[c] = [pc |-> "committed", op |-> q.op, sub |-> x, seen |-> q.seen]
      BY <2>1
    <3> QED
      BY <2>1, <3>2, <3>3, <3>4, <3>5
  <2> HIDE DEF w, paid
  <2>5. /\ \A s \in Submissions \ {x} : status'[s] = status[s] /\ told'[s] = told[s]
        /\ status'[x] = w
        /\ told'[x] = IF w # status[x] THEN "nothing" ELSE told[x]
        /\ DOMAIN call' = Requests /\ \A d \in Requests : d # c => call'[d] = call[d]
        /\ call'[c].pc = "committed"
    BY <2>1
  <2>6. q.op \in ops[x]
    BY <2>1
  <2>7. ops[x] = {"approve"} =>
            /\ w \in {"PENDING", "APPROVED"}
            /\ q.op = "approve"
            /\ status[x] = "APPROVED" => w = "APPROVED"
            /\ rewards'[x]["approve"] = IF w = "APPROVED" THEN 1 ELSE 0
    BY <2>1, <2>2, <2>3, <2>6 DEF paid
  <2>8. ops[x] = {"apply"} =>
            /\ w \in {"PENDING", "APPLIED_TO_BRICK"}
            /\ status[x] = "APPLIED_TO_BRICK" => w = "APPLIED_TO_BRICK"
            /\ rewards'[x]["apply"] = IF w = "APPLIED_TO_BRICK" THEN 1 ELSE 0
    BY <2>1, <2>2, <2>3, <2>6 DEF paid
  <2>9. CallsAreKnown'
    BY <2>1, <2>5, <2>7, <2>8
  <2>10. StatusFollowsCalls' /\ Reviews!RepeatsRewardOnce'
    <3>1. \A s \in Submissions \ {x} : \A o \in {"approve", "apply"} :
             rewards'[s][o] = rewards[s][o]
      BY <2>3
    <3>2. ops[x] # {}
      BY <2>6
    <3> QED
      BY <2>1, <2>5, <2>7, <2>8, <3>1, <3>2
  <2>11. Reviews!DuplicatesAreTold'
    BY <2>1, <2>5
  <2> QED
    BY <2>4, <2>9, <2>10, <2>11
<1>5. ASSUME NEW c \in Requests, Reviews!Answer(c) PROVE ReviewInv'
  <2> DEFINE x == call[c].sub
  <2>1. /\ call' = [call EXCEPT ![c] = [pc |-> "none"]] /\ UNCHANGED <<status, rewards, ops>>
        /\ x \in Submissions
    BY <1>5 DEF Reviews!Answer, Reviews!NoCall
  <2>2. \/ told' = told
        \/ told' = [told EXCEPT ![x] = "warned"]
        \/ /\ told' = [told EXCEPT ![x] = "clean"]
           /\ \A s \in Submissions \ {x} : status[s] # "APPROVED"
    <3>1. CASE call[c].op = "approve" /\ Reviews!Siblings(x) = {}
      BY <1>5, <3>1 DEF Reviews!Answer, Reviews!Siblings
    <3>2. CASE ~(call[c].op = "approve" /\ Reviews!Siblings(x) = {})
      BY <1>5, <3>2 DEF Reviews!Answer
    <3> QED
      BY <3>1, <3>2
  <2>3. ReviewTypes'
    <3>1. told' \in [Submissions -> {"nothing", "clean", "warned"}]
      BY <2>1, <2>2
    <3> QED
      BY <2>1, <3>1
  <2>4. CallsAreKnown' /\ StatusFollowsCalls' /\ Reviews!RepeatsRewardOnce'
    BY <2>1
  <2>5. Reviews!DuplicatesAreTold'
    BY <2>1, <2>2
  <2> QED
    BY <2>3, <2>4, <2>5
<1> QED
  BY <1>1, <1>2, <1>3, <1>4, <1>5 DEF Reviews!Next

(* The calls start in their invariant.                                       *)
LEMMA ReviewInvInit == Reviews!Init => ReviewInv
  BY DEF Reviews!Init, ReviewInv, ReviewTypes, CallsAreKnown, StatusFollowsCalls,
      Reviews!DuplicatesAreTold, Reviews!RepeatsRewardOnce, Reviews!Operations,
      Reviews!Statuses, Reviews!NoCall

-----------------------------------------------------------------------------
(* The bounties of a brick.                                                  *)

Row == [type : Types, status : Bounties!Statuses, closedAt : BOOLEAN, raced : BOOLEAN]
Tick == [pc : {"idle", "defs", "insert", "close", "done"}, filled : SUBSET Types,
         defs : SUBSET Types, todo : SUBSET Types, open : SUBSET Nat, touched : SUBSET Nat]

BountyTypes ==
    /\ filled \subseteq Types /\ active \subseteq Types
    /\ inst \in Seq(Row)
    /\ gen \in Tick
    /\ gen.open \subseteq DOMAIN inst /\ gen.touched \subseteq DOMAIN inst
    /\ DOMAIN desk = Requests
    /\ \A a \in Requests :
           /\ desk[a].pc \in {"idle", "create", "move"}
           /\ desk[a].pc = "create" => desk[a].type \in Types
           /\ desk[a].pc = "move" =>
                  /\ desk[a].id \in DOMAIN inst
                  /\ desk[a].read \in Bounties!Statuses /\ desk[a].target \in Bounties!Statuses
                  /\ Bounties!Allowed(desk[a].read, desk[a].target)

(* An OPEN bounty has no closed_at, a CLOSED one has it; one that is PAUSED  *)
(* can have kept it only from a race.                                        *)
RowMeans(r) ==
    /\ r.status = "OPEN" => ~r.closedAt
    /\ r.status = "CLOSED" => r.closedAt
    /\ r.status = "PAUSED" /\ ~r.raced => ~r.closedAt
RowsMean == \A i \in DOMAIN inst : RowMeans(inst[i])

(* What a tick has still to do, and what was done to the bounties meanwhile, *)
(* accounts for every bounty that is open on a field the tick found filled,  *)
(* and for every field it found empty.                                       *)
TickAccounts ==
    /\ \A i \in gen.open : inst[i].type \in gen.filled
    /\ gen.pc \in {"close", "done"} =>
           /\ gen.todo = {}
           /\ \A i \in DOMAIN inst :
                  inst[i].status = "OPEN" /\ inst[i].type \in gen.filled
                      => i \in gen.open \cup gen.touched
    /\ gen.pc = "done" => gen.open = {}
    /\ gen.pc \in {"insert", "close", "done"} =>
           \A t \in gen.defs \ gen.filled :
               \/ t \in gen.todo
               \/ \E i \in DOMAIN inst :
                      inst[i].type = t /\ (inst[i].status = "OPEN" \/ i \in gen.touched)

BountyInv == BountyTypes /\ RowsMean /\ TickAccounts

(* A bounty that is inserted is open, and the last of the rows.              *)
LEMMA InsertIs ==
    ASSUME inst \in Seq(Row), NEW t \in Types, inst' = Bounties!InsertOpenInstance(t)
    PROVE  /\ inst' \in Seq(Row) /\ DOMAIN inst \subseteq DOMAIN inst'
           /\ \A i \in DOMAIN inst : inst'[i] = inst[i]
           /\ \/ inst' = inst /\ \E i \in DOMAIN inst : inst[i].type = t /\ inst[i].status = "OPEN"
              \/ /\ ~Bounties!IsOpen(t)
                 /\ Len(inst) + 1 \in Nat /\ Len(inst) + 1 \notin DOMAIN inst
                 /\ DOMAIN inst' = DOMAIN inst \cup {Len(inst) + 1}
                 /\ inst'[Len(inst) + 1] = [type |-> t, status |-> "OPEN", closedAt |-> FALSE,
                                            raced |-> FALSE]
<1> DEFINE r == [type |-> t, status |-> "OPEN", closedAt |-> FALSE, raced |-> FALSE]
<1>1. r \in Row
  BY DEF Row, Bounties!Statuses
<1>2. CASE Bounties!IsOpen(t)
  BY <1>2 DEF Bounties!InsertOpenInstance, Bounties!IsOpen, Bounties!OpenIds, Bounties!Ids
<1>3. CASE ~Bounties!IsOpen(t)
  <2>1. inst' = Append(inst, r)
    BY <1>3 DEF Bounties!InsertOpenInstance, Bounties!Instance
  <2> HIDE DEF r
  <2>2. /\ Append(inst, r) \in Seq(Row) /\ Len(Append(inst, r)) = Len(inst) + 1
        /\ DOMAIN inst = 1 .. Len(inst) /\ Len(inst) \in Nat
        /\ \A i \in 1 .. Len(inst) : Append(inst, r)[i] = inst[i]
        /\ Append(inst, r)[Len(inst) + 1] = r
    BY <1>1
  <2>3. DOMAIN inst' = 1 .. Len(inst) + 1
    BY <2>1, <2>2
  <2>4. /\ inst' \in Seq(Row) /\ DOMAIN inst \subseteq DOMAIN inst'
        /\ \A i \in DOMAIN inst : inst'[i] = inst[i]
    BY <2>1, <2>2, <2>3
  <2>5. /\ Len(inst) + 1 \in Nat /\ Len(inst) + 1 \notin DOMAIN inst
        /\ DOMAIN inst' = DOMAIN inst \cup {Len(inst) + 1}
    BY <2>2, <2>3
  <2>6. inst'[Len(inst) + 1] = r
    BY <2>1, <2>2
  <2> QED
    BY <1>3, <2>4, <2>5, <2>6 DEF r
<1> QED
  BY <1>2, <1>3

(* A bounty's row is written.                                                *)
LEMMA WriteIs ==
    ASSUME inst \in Seq(Row), NEW i \in DOMAIN inst, NEW r \in Row, r.type = inst[i].type,
           inst' = [inst EXCEPT ![i] = r]
    PROVE  /\ inst' \in Seq(Row) /\ DOMAIN inst' = DOMAIN inst
           /\ inst'[i] = r /\ \A j \in DOMAIN inst \ {i} : inst'[j] = inst[j]
           /\ \A j \in DOMAIN inst : inst'[j].type = inst[j].type
  OBVIOUS

ClosedRow(t) == [type |-> t, status |-> "CLOSED", closedAt |-> TRUE, raced |-> FALSE]

(* Closing a bounty writes its row.                                          *)
LEMMA CloseIs ==
    ASSUME inst \in Seq(Row), NEW i \in DOMAIN inst
    PROVE  /\ ClosedRow(inst[i].type) \in Row
           /\ Bounties!Close(i) = [inst EXCEPT ![i] = ClosedRow(inst[i].type)]
<1> DEFINE r1 == [inst[i] EXCEPT !.status = "CLOSED"]
           r2 == [r1 EXCEPT !.closedAt = TRUE]
           r3 == [r2 EXCEPT !.raced = FALSE]
           f1 == [inst EXCEPT ![i] = r1]
           f2 == [f1 EXCEPT ![i] = [f1[i] EXCEPT !.closedAt = TRUE]]
           f3 == [f2 EXCEPT ![i] = [f2[i] EXCEPT !.raced = FALSE]]
<1>1. inst[i] \in Row
  OBVIOUS
<1>2. ClosedRow(inst[i].type) \in Row /\ r3 = ClosedRow(inst[i].type)
  <2>1. ClosedRow(inst[i].type) \in Row
    BY <1>1 DEF Row, Bounties!Statuses, ClosedRow
  <2>2. r3 \in Row
    BY <1>1 DEF Row, Bounties!Statuses
  <2>3. /\ r3.type = inst[i].type /\ r3.status = "CLOSED"
        /\ r3.closedAt = TRUE /\ r3.raced = FALSE
    BY <1>1 DEF Row
  <2> HIDE DEF r3
  <2> QED
    BY <2>1, <2>2, <2>3 DEF Row, ClosedRow
<1>3. Bounties!Close(i) = f3
  BY DEF Bounties!Close
<1> HIDE DEF r1
<1>4. f2 = [inst EXCEPT ![i] = r2]
  OBVIOUS
<1>5. f3 = [inst EXCEPT ![i] = r3]
  <2> HIDE DEF f2, r2
  <2> QED
    BY <1>4
<1> QED
  BY <1>2, <1>3, <1>5

(* Whatever happens beside a tick is remembered with it.                     *)
LEMMA Meanwhile ==
    ASSUME BountyInv, gen' \in Tick,
           gen'.pc = gen.pc, gen'.filled = gen.filled, gen'.defs = gen.defs,
           gen'.todo = gen.todo, gen'.open = gen.open, gen.touched \subseteq gen'.touched,
           DOMAIN inst \subseteq DOMAIN inst',
           \A i \in DOMAIN inst : /\ inst'[i].type = inst[i].type
                                  /\ inst'[i].status = inst[i].status \/ i \in gen'.touched,
           DOMAIN inst' \ DOMAIN inst \subseteq gen'.touched
    PROVE  TickAccounts'
<1>1. \A i \in gen'.open : inst'[i].type \in gen'.filled
  BY DEF BountyInv, BountyTypes, TickAccounts
<1>2. gen'.pc \in {"close", "done"} =>
          /\ gen'.todo = {}
          /\ \A i \in DOMAIN inst' : inst'[i].status = "OPEN" /\ inst'[i].type \in gen'.filled
                 => i \in gen'.open \cup gen'.touched
  BY DEF BountyInv, BountyTypes, TickAccounts
<1>3. gen'.pc \in {"insert", "close", "done"} =>
          \A t \in gen'.defs \ gen'.filled :
              \/ t \in gen'.todo
              \/ \E i \in DOMAIN inst' :
                     inst'[i].type = t /\ (inst'[i].status = "OPEN" \/ i \in gen'.touched)
  BY DEF BountyInv, BountyTypes, TickAccounts
<1> QED
  BY <1>1, <1>2, <1>3 DEF BountyInv, TickAccounts

(* A row written beside a tick, and remembered with it, keeps the invariant  *)
(* when the new row means what its status says.                              *)
LEMMA RowWritten ==
    ASSUME BountyInv, NEW i \in DOMAIN inst, NEW r \in Row, r.type = inst[i].type, RowMeans(r),
           inst' = [inst EXCEPT ![i] = r] \/ inst' = inst,
           gen' = [gen EXCEPT !.touched = gen.touched \cup {i}],
           filled' \subseteq Types, active' \subseteq Types,
           desk' = desk \/ \E a \in Requests : desk' = [desk EXCEPT ![a] = Bounties!NoRequest]
    PROVE  BountyInv'
<1> USE DEF BountyInv, BountyTypes, RowsMean
<1>1. /\ inst' \in Seq(Row) /\ DOMAIN inst' = DOMAIN inst
      /\ \A j \in DOMAIN inst \ {i} : inst'[j] = inst[j]
      /\ inst'[i].type = inst[i].type /\ RowMeans(inst'[i])
  <2>1. CASE inst' = [inst EXCEPT ![i] = r]
    BY <2>1, WriteIs
  <2>2. CASE inst' = inst
    BY <2>2
  <2> QED
    BY <2>1, <2>2
<1>2. /\ gen' \in Tick /\ gen'.pc = gen.pc /\ gen'.filled = gen.filled
      /\ gen'.defs = gen.defs /\ gen'.todo = gen.todo /\ gen'.open = gen.open
      /\ gen'.touched = gen.touched \cup {i}
  BY DEF Tick
<1>3. /\ DOMAIN desk' = Requests
      /\ \A a \in Requests : desk'[a] = desk[a] \/ desk'[a].pc = "idle"
  BY DEF Bounties!NoRequest
<1>4. BountyTypes'
  BY <1>1, <1>2, <1>3
<1>5. RowsMean'
  BY <1>1
<1>6. TickAccounts'
  BY <1>1, <1>2, Meanwhile
<1> QED
  BY <1>4, <1>5, <1>6

(* Every step of the generator keeps the invariant.                          *)
LEMMA GeneratorStep == ASSUME BountyInv, Bounties!Generator PROVE BountyInv'
<1> USE DEF BountyInv, BountyTypes, RowsMean, TickAccounts
<1>0. /\ UNCHANGED <<filled, active, desk>> /\ inst \in Seq(Row) /\ gen \in Tick
  BY DEF Bounties!Generator, Bounties!TickStart, Bounties!ReadDefinitions, Bounties!ReadOpen,
         Bounties!TickDone, Bounties!TickFails, Bounties!GenerateOne, Bounties!CloseOne
<1>1. CASE Bounties!TickStart
  BY <1>1 DEF Bounties!TickStart, Bounties!Idle, Tick
<1>2. CASE Bounties!ReadDefinitions
  BY <1>2 DEF Bounties!ReadDefinitions, Tick
<1>3. CASE Bounties!ReadOpen
  <2>1. /\ inst' = inst /\ gen.pc = "insert" /\ gen.todo = {}
        /\ gen' = [gen EXCEPT !.pc = "close", !.open = Bounties!ToClose]
    BY <1>3 DEF Bounties!ReadOpen
  <2>2. /\ gen'.pc = "close" /\ gen'.open = Bounties!ToClose /\ gen'.todo = {}
        /\ gen'.touched = gen.touched /\ gen'.filled = gen.filled /\ gen'.defs = gen.defs
    BY <2>1 DEF Tick
  <2>3. /\ Bounties!ToClose \subseteq DOMAIN inst
        /\ \A i \in DOMAIN inst : i \in Bounties!ToClose <=>
               inst[i].status = "OPEN" /\ inst[i].type \in gen.filled
    BY DEF Bounties!ToClose, Bounties!OpenIds, Bounties!Ids
  <2>4. TickAccounts'
    BY <2>1, <2>2, <2>3
  <2>5. BountyTypes'
    <3>1. Bounties!ToClose \subseteq DOMAIN inst' /\ gen'.touched \subseteq DOMAIN inst'
      BY <2>1, <2>2, <2>3
    <3>2. gen'.open \subseteq DOMAIN inst'
      BY <2>2, <3>1
    <3>3. gen' \in Tick
      <4>1. Bounties!ToClose \in SUBSET Nat
        BY <2>3
      <4> QED
        BY <1>0, <2>1, <4>1 DEF Tick
    <3>4. /\ filled' \subseteq Types /\ active' \subseteq Types /\ inst' \in Seq(Row)
          /\ DOMAIN desk' = Requests /\ desk' = desk
      BY <1>0, <2>1
    <3> QED
      BY <2>1, <3>1, <3>2, <3>3, <3>4
  <2> QED
    BY <2>1, <2>4, <2>5
<1>4. CASE Bounties!TickDone
  BY <1>4 DEF Bounties!TickDone, Tick
<1>5. CASE Bounties!TickFails
  BY <1>5 DEF Bounties!TickFails, Bounties!Idle, Tick
<1>6. ASSUME NEW t \in Types, Bounties!GenerateOne(t) PROVE BountyInv'
  <2>1. /\ gen.pc = "insert" /\ t \in gen.todo /\ inst' = Bounties!InsertOpenInstance(t)
        /\ gen' = [gen EXCEPT !.todo = gen.todo \ {t}]
    BY <1>6 DEF Bounties!GenerateOne
  <2>2. /\ gen' \in Tick /\ gen'.pc = "insert" /\ gen'.open = gen.open
        /\ gen'.touched = gen.touched /\ gen'.filled = gen.filled /\ gen'.defs = gen.defs
        /\ gen'.todo = gen.todo \ {t}
    BY <1>0, <2>1 DEF Tick
  <2>3. /\ inst' \in Seq(Row) /\ DOMAIN inst \subseteq DOMAIN inst'
        /\ \A i \in DOMAIN inst : inst'[i] = inst[i]
        /\ \A i \in DOMAIN inst' \ DOMAIN inst : RowMeans(inst'[i])
        /\ \E i \in DOMAIN inst' : inst'[i].type = t /\ inst'[i].status = "OPEN"
    <3>1. CASE inst' = inst /\ \E i \in DOMAIN inst : inst[i].type = t /\ inst[i].status = "OPEN"
      BY <1>0, <3>1
    <3>2. CASE /\ Len(inst) + 1 \in Nat /\ Len(inst) + 1 \notin DOMAIN inst
               /\ DOMAIN inst' = DOMAIN inst \cup {Len(inst) + 1}
               /\ inst'[Len(inst) + 1] = [type |-> t, status |-> "OPEN", closedAt |-> FALSE,
                                           raced |-> FALSE]
      <4>1. RowMeans(inst'[Len(inst) + 1])
        BY <3>2 DEF RowMeans
      <4>2. inst'[Len(inst) + 1].type = t /\ inst'[Len(inst) + 1].status = "OPEN"
        BY <3>2
      <4>3. \A i \in DOMAIN inst' \ DOMAIN inst : i = Len(inst) + 1
        BY <3>2
      <4>4. \E i \in DOMAIN inst' : inst'[i].type = t /\ inst'[i].status = "OPEN"
        BY <3>2, <4>2
      <4>5. /\ inst' \in Seq(Row) /\ DOMAIN inst \subseteq DOMAIN inst'
            /\ \A i \in DOMAIN inst : inst'[i] = inst[i]
        BY <1>0, <2>1, InsertIs
      <4> QED
        BY <4>1, <4>3, <4>4, <4>5
    <3> QED
      BY <1>0, <2>1, <3>1, <3>2, InsertIs
  <2>4. BountyTypes'
    BY <1>0, <2>2, <2>3
  <2>5. RowsMean'
    BY <2>3
  <2>6. \A u \in gen'.defs \ gen'.filled :
           \/ u \in gen'.todo
           \/ \E i \in DOMAIN inst' :
                  inst'[i].type = u /\ (inst'[i].status = "OPEN" \/ i \in gen'.touched)
    <3> SUFFICES ASSUME NEW u \in gen.defs \ gen.filled
                 PROVE  \/ u \in gen'.todo
                        \/ \E i \in DOMAIN inst' : /\ inst'[i].type = u
                                                   /\ inst'[i].status = "OPEN" \/ i \in gen'.touched
      BY <2>2
    <3>1. CASE u = t
      BY <2>3, <3>1
    <3>2. CASE u # t
      BY <2>1, <2>2, <2>3, <3>2
    <3> QED
      BY <3>1, <3>2
  <2>7. \A i \in gen'.open : inst'[i].type \in gen'.filled
    BY <2>2, <2>3
  <2>8. TickAccounts'
    BY <2>2, <2>6, <2>7
  <2> QED
    BY <2>4, <2>5, <2>8
<1>7. ASSUME NEW i \in DOMAIN inst, Bounties!CloseOne(i) PROVE BountyInv'
  <2>1. /\ gen.pc = "close" /\ i \in gen.open
        /\ inst' = IF inst[i].status = "OPEN" THEN Bounties!Close(i) ELSE inst
        /\ gen' = [gen EXCEPT !.open = gen.open \ {i}]
    BY <1>7 DEF Bounties!CloseOne
  <2>2. /\ gen' \in Tick /\ gen'.pc = "close" /\ gen'.open = gen.open \ {i}
        /\ gen'.touched = gen.touched /\ gen'.filled = gen.filled /\ gen'.defs = gen.defs
        /\ gen'.todo = gen.todo
    BY <1>0, <2>1 DEF Tick
  <2>3. /\ inst' \in Seq(Row) /\ DOMAIN inst' = DOMAIN inst
        /\ \A j \in DOMAIN inst \ {i} : inst'[j] = inst[j]
        /\ inst'[i].type = inst[i].type /\ inst'[i].status # "OPEN" /\ RowMeans(inst'[i])
    <3>1. CASE inst[i].status = "OPEN"
      <4> DEFINE r == ClosedRow(inst[i].type)
      <4>1. r \in Row /\ inst' = [inst EXCEPT ![i] = r]
        BY <1>0, <2>1, <3>1, CloseIs
      <4>2. r.type = inst[i].type /\ r.status = "CLOSED" /\ RowMeans(r)
        BY DEF ClosedRow, RowMeans
      <4> HIDE DEF r
      <4> QED
        BY <1>0, <4>1, <4>2, WriteIs
    <3>2. CASE inst[i].status # "OPEN"
      BY <1>0, <2>1, <3>2
    <3> QED
      BY <3>1, <3>2
  <2> QED
    BY <1>0, <2>1, <2>2, <2>3
<1> QED
  BY <1>1, <1>2, <1>3, <1>4, <1>5, <1>6, <1>7 DEF Bounties!Generator, Bounties!Ids

(* Every step of an admin keeps the invariant.                               *)
LEMMA AdminStep == ASSUME BountyInv, NEW a \in Requests, Bounties!Admin(a) PROVE BountyInv'
<1> USE DEF BountyInv, BountyTypes, RowsMean
<1>1. ASSUME NEW t \in Types, Bounties!ReadDefinition(a, t) PROVE BountyInv'
  <2>1. /\ UNCHANGED <<filled, active, inst, gen>> /\ t \in active
        /\ desk' = [desk EXCEPT ![a] = [pc |-> "create", type |-> t]]
    BY <1>1 DEF Bounties!ReadDefinition
  <2>2. BountyTypes'
    BY <2>1
  <2> QED
    BY <2>1, <2>2 DEF TickAccounts
<1>2. ASSUME NEW i \in DOMAIN inst, NEW s \in Bounties!Statuses, Bounties!ReadInstance(a, i, s)
      PROVE  BountyInv'
  <2>1. /\ UNCHANGED <<filled, active, inst, gen>> /\ Bounties!Allowed(inst[i].status, s)
        /\ desk' = [desk EXCEPT ![a] = [pc |-> "move", id |-> i, target |-> s,
                                        read |-> inst[i].status]]
    BY <1>2 DEF Bounties!ReadInstance
  <2>2. inst[i].status \in Bounties!Statuses
    <3>1. inst[i] \in Row
      OBVIOUS
    <3> QED
      BY <3>1 DEF Row
  <2>3. BountyTypes'
    BY <2>1, <2>2
  <2> QED
    BY <2>1, <2>3 DEF TickAccounts
<1>3. ASSUME Bounties!CreateBounty(a) PROVE BountyInv'
  <2> DEFINE t == desk[a].type
             n == Len(inst) + 1
  <2>1. /\ desk[a].pc = "create" /\ t \in Types /\ UNCHANGED <<filled, active>>
        /\ inst' = Bounties!InsertOpenInstance(t)
        /\ gen' = IF Bounties!IsOpen(t) THEN gen ELSE Bounties!Touch(n)
        /\ desk' = [desk EXCEPT ![a] = Bounties!NoRequest]
    BY <1>3 DEF Bounties!CreateBounty
  <2>2. CASE inst' = inst /\ gen' = gen
    <3>1. BountyTypes'
      BY <2>1, <2>2 DEF Bounties!NoRequest
    <3> QED
      BY <2>2, <3>1 DEF TickAccounts
  <2>3. CASE /\ ~Bounties!IsOpen(t)
             /\ n \in Nat /\ n \notin DOMAIN inst
             /\ DOMAIN inst' = DOMAIN inst \cup {n}
             /\ inst'[n] = [type |-> t, status |-> "OPEN", closedAt |-> FALSE, raced |-> FALSE]
    <3>1. /\ inst' \in Seq(Row) /\ \A i \in DOMAIN inst : inst'[i] = inst[i]
      BY <2>1, InsertIs
    <3>2. gen' = [gen EXCEPT !.touched = gen.touched \cup {n}]
      BY <2>1, <2>3 DEF Bounties!Touch
    <3> HIDE DEF n
    <3>3. /\ gen' \in Tick /\ gen'.pc = gen.pc /\ gen'.filled = gen.filled
          /\ gen'.defs = gen.defs /\ gen'.todo = gen.todo /\ gen'.open = gen.open
          /\ gen'.touched = gen.touched \cup {n}
      BY <2>3, <3>2 DEF Tick
    <3>4. BountyTypes'
      BY <2>1, <2>3, <3>1, <3>3 DEF Bounties!NoRequest
    <3>5. RowMeans(inst'[n])
      BY <2>3 DEF RowMeans
    <3>6. RowsMean'
      BY <2>3, <3>1, <3>5
    <3>7. TickAccounts'
      BY <2>3, <3>1, <3>3, Meanwhile
    <3> QED
      BY <3>4, <3>6, <3>7
  <2> QED
    <3>1. CASE Bounties!IsOpen(t)
      BY <2>1, <2>2, <3>1 DEF Bounties!InsertOpenInstance
    <3>2. CASE ~Bounties!IsOpen(t)
      BY <2>1, <2>3, <3>2, InsertIs DEF Bounties!IsOpen, Bounties!OpenIds, Bounties!Ids
    <3> QED
      BY <3>1, <3>2
<1>4. ASSUME Bounties!Transition(a) PROVE BountyInv'
  <2> DEFINE i == desk[a].id
             s == desk[a].target
             r == [type |-> inst[i].type, status |-> s, closedAt |-> Bounties!ClosedAt(i, s),
                   raced |-> inst[i].status # desk[a].read]
  <2>1. /\ desk[a].pc = "move" /\ UNCHANGED <<filled, active>>
        /\ desk' = [desk EXCEPT ![a] = Bounties!NoRequest]
        /\ \/ inst' = inst /\ gen' = gen
           \/ inst' = [inst EXCEPT ![i] = r] /\ gen' = Bounties!Touch(i)
    BY <1>4 DEF Bounties!Transition
  <2>2. /\ i \in DOMAIN inst /\ s \in Bounties!Statuses
        /\ desk[a].read \in Bounties!Statuses /\ Bounties!Allowed(desk[a].read, s)
        /\ inst[i] \in Row
    BY <2>1
  <2>3. CASE inst' = inst /\ gen' = gen
    <3>1. BountyTypes'
      BY <2>1, <2>3 DEF Bounties!NoRequest
    <3> QED
      BY <2>3, <3>1 DEF TickAccounts
  <2>4. CASE inst' = [inst EXCEPT ![i] = r] /\ gen' = Bounties!Touch(i)
    <3>1. r \in Row /\ r.type = inst[i].type
      BY <2>2 DEF Row, Bounties!ClosedAt
    <3>2. RowMeans(r)
      <4>1. RowMeans(inst[i])
        BY <2>2
      <4> QED
        BY <2>2, <4>1 DEF RowMeans, Bounties!ClosedAt, Bounties!Allowed, Bounties!Statuses, Row
    <3>3. gen' = [gen EXCEPT !.touched = gen.touched \cup {i}]
      BY <2>4 DEF Bounties!Touch
    <3> HIDE DEF r, i, s
    <3> QED
      BY <2>1, <2>2, <2>4, <3>1, <3>2, <3>3, RowWritten DEF Bounties!NoRequest
  <2> QED
    BY <2>1, <2>3, <2>4
<1> QED
  BY <1>1, <1>2, <1>3, <1>4 DEF Bounties!Admin, Bounties!Ids

(* Every step of the bounties keeps the invariant.                           *)
LEMMA BountyInvStep == BountyInv /\ [Bounties!Next]_ofBounties => BountyInv'
<1> SUFFICES ASSUME BountyInv, [Bounties!Next]_ofBounties PROVE BountyInv'
  OBVIOUS
<1>1. CASE UNCHANGED ofBounties
  BY <1>1 DEF ofBounties, BountyInv, BountyTypes, RowsMean, TickAccounts
<1>2. ASSUME NEW t \in Types, Bounties!UpdateDefinition(t) PROVE BountyInv'
  BY <1>2 DEF Bounties!UpdateDefinition, BountyInv, BountyTypes, RowsMean, TickAccounts
<1>3. CASE Bounties!UpdateBrick
  BY <1>3 DEF Bounties!UpdateBrick, BountyInv, BountyTypes, RowsMean, TickAccounts
<1>4. ASSUME NEW i \in DOMAIN inst, Bounties!ApplyToBrick(i) PROVE BountyInv'
  <2>1. /\ UNCHANGED <<active, desk>> /\ filled' = filled \cup {inst[i].type}
        /\ inst' = IF inst[i].status = "OPEN" THEN Bounties!Close(i) ELSE inst
        /\ gen' = [gen EXCEPT !.touched = gen.touched \cup {i}]
    BY <1>4 DEF Bounties!ApplyToBrick, Bounties!Touch
  <2>2. /\ ClosedRow(inst[i].type) \in Row /\ inst[i] \in Row
        /\ inst' = [inst EXCEPT ![i] = ClosedRow(inst[i].type)] \/ inst' = inst
    BY <2>1, CloseIs DEF BountyInv, BountyTypes
  <2>3. ClosedRow(inst[i].type).type = inst[i].type /\ RowMeans(ClosedRow(inst[i].type))
    BY DEF ClosedRow, RowMeans
  <2>4. filled' \subseteq Types /\ active' \subseteq Types
    BY <2>1, <2>2 DEF BountyInv, BountyTypes, Row
  <2> QED
    BY <2>1, <2>2, <2>3, <2>4, RowWritten
<1> QED
  BY <1>1, <1>2, <1>3, <1>4, GeneratorStep, AdminStep DEF Bounties!Next, Bounties!Ids

(* The invariant holds when a brick is new.                                  *)
LEMMA BountyInvInit == Bounties!Init => BountyInv
  BY DEF Bounties!Init, Bounties!Idle, Bounties!NoRequest, BountyInv, BountyTypes, RowsMean,
         TickAccounts, Tick, Row, Bounties!Statuses

(* It answers for what the runs check.                                       *)
LEMMA BountyInvMeans == BountyInv => Bounties!OffersFollowFields
<1> SUFFICES ASSUME BountyInv PROVE Bounties!OffersFollowFields
  OBVIOUS
<1> USE DEF BountyInv, BountyTypes, TickAccounts, Bounties!OpenIds, Bounties!Ids
<1>1. Bounties!FilledFieldsAreClosed
  BY DEF Bounties!FilledFieldsAreClosed
<1>2. Bounties!EmptyFieldsAreOffered
  BY DEF Bounties!EmptyFieldsAreOffered
<1>3. Bounties!ClosedAtTellsClosed
  <2> SUFFICES ASSUME NEW i \in DOMAIN inst
               PROVE  inst[i].raced \/ (inst[i].closedAt <=> inst[i].status = "CLOSED")
    BY DEF Bounties!ClosedAtTellsClosed
  <2>1. /\ inst[i].status \in Bounties!Statuses
        /\ inst[i].closedAt \in BOOLEAN /\ inst[i].raced \in BOOLEAN
    <3>1. inst[i] \in Row
      OBVIOUS
    <3> QED
      BY <3>1 DEF Row
  <2>2. RowMeans(inst[i])
    BY DEF RowsMean
  <2> QED
    BY <2>1, <2>2 DEF RowMeans, Bounties!Statuses
<1> QED
  BY <1>1, <1>2, <1>3 DEF Bounties!OffersFollowFields

-----------------------------------------------------------------------------
(* The Dex.                                                                  *)

DexDays == 1 .. LastDay
Inside(q) == q.pc \in {"again", "create", "update", "streak", "commit"}
KindIs(q) == KindOf[q.key]

DexTypes ==
    /\ day \in DexDays /\ stage \in -1 .. 3
    /\ streak \in [days : Nat, last : -2 .. LastDay] /\ streak.last <= day
    /\ sessions \subseteq Keys
    /\ done \in [Keys -> Nat] /\ bonuses \in [DexDays -> Nat] /\ activeDays \subseteq DexDays
    /\ overlapped \in BOOLEAN /\ straddled \in BOOLEAN
    /\ DOMAIN dexReq = Requests

RequestTypes(q) ==
    /\ q.pc \in {"none", "begin", "again", "create", "update", "streak", "commit", "answer"}
    /\ q.pc # "none" => q.key \in Keys
    /\ q.pc \in {"create", "update"} =>
           q = [pc |-> q.pc, key |-> q.key, before |-> q.before, write |-> -1]
    /\ q.pc \in {"streak", "commit"} => q.write \in -1 .. 3
    /\ q.pc = "commit" =>
           /\ q.today \in DexDays /\ q.today <= day /\ q.counts \in BOOLEAN
           /\ q.seen \in [days : Nat, last : -2 .. LastDay] /\ q.seen.last <= q.today

(* Alone on the brick, a transaction goes on finding the stage it decided on, *)
(* and writes a higher one or none.                                           *)
StageIsSeen(q) ==
    Inside(q) /\ ~overlapped =>
        /\ KindIs(q) = "vote" => stage = 1
        /\ KindIs(q) = "driver" => stage = 2
        /\ q.pc = "create" => stage = -1
        /\ q.pc = "update" => stage < Dex!Target[KindIs(q)]
        /\ q.pc \in {"streak", "commit"} =>
               \/ q.write = -1 /\ Dex!Target[KindIs(q)] <= stage
               \/ q.write = Dex!Target[KindIs(q)] /\ stage < q.write

SessionIsNew(q) == Inside(q) /\ KindIs(q) = "progress" => q.key \notin sessions

(* The server is in UTC: what a day's column holds is that day.               *)
InUTC == ServerOffset = 0

(* The streak is the one that was read, or another completion of that day has *)
(* written already what this one will write.                                  *)
StreakIsSeen(q) ==
    /\ q.pc = "commit" /\ ~overlapped => q.seen = streak
    /\ q.pc = "commit" /\ ~straddled /\ InUTC =>
           \/ q.seen = streak
           \/ /\ streak.last = q.today /\ q.seen.last < q.today
              /\ streak = Dex!NewStreak(q.seen, q.today)

RequestFits(q) == RequestTypes(q) /\ StageIsSeen(q) /\ SessionIsNew(q) /\ StreakIsSeen(q)

(* Two at once are an overlap, and never finish one context with one key.    *)
Together(q, p) ==
    Inside(q) /\ Inside(p) => /\ overlapped
                              /\ KindIs(q) = "progress" => q.key # p.key

RequestsFit ==
    /\ \A r \in Requests : RequestFits(dexReq[r])
    /\ \A r, o \in Requests : r # o => Together(dexReq[r], dexReq[o])

(* What was done tells what the rows say.                                    *)
DoneIsKept ==
    /\ ~overlapped =>
           /\ ~straddled
           /\ \A k \in Keys : KindOf[k] = "vote" /\ done[k] # 0 => stage >= 2
           /\ \A k \in Keys : KindOf[k] = "driver" /\ done[k] # 0 => stage >= 3
           /\ InUTC => \A d \in DexDays : bonuses[d] # 0 => d <= streak.last
    /\ \A k \in Keys : KindOf[k] = "progress" /\ done[k] # 0 => k \in sessions

(* The last active day is the streak's.                                      *)
StreakIsLast ==
    ~straddled /\ InUTC => /\ activeDays \subseteq 1 .. streak.last
                           /\ streak.last \notin {-2, -1} => streak.last \in activeDays

DexInv ==
    /\ DexTypes /\ RequestsFit /\ DoneIsKept /\ StreakIsLast
    /\ Dex!ActionsCountOnce /\ Dex!StreakFollowsDays

(* A local day as its DATE column keeps it, and as it is read back in UTC.    *)
LEMMA DatesAre ==
    /\ \A d \in Nat : Dex!DateColumn(d) \in d - 1 .. d
    /\ \A d \in DexDays : Dex!DateColumn(d) \in 0 .. d
    /\ InUTC => \A d \in Int : Dex!DateColumn(d) = d /\ Dex!LocalDay(d) = d
<1>1. ServerOffset \in -12 .. 14
  BY OffsetAssumption
<1>2. ASSUME NEW d \in Nat PROVE Dex!DateColumn(d) \in d - 1 .. d
  BY <1>1 DEF Dex!DateColumn
<1>3. ASSUME NEW d \in Int, InUTC PROVE Dex!DateColumn(d) = d /\ Dex!LocalDay(d) = d
  BY <1>3 DEF Dex!DateColumn, Dex!LocalDay, InUTC
<1> QED
  BY <1>2, <1>3 DEF DexDays

(* What checkAndUpdateStreak writes, off UTC and in UTC.                      *)
LEMMA NewStreakIs ==
    ASSUME NEW seen \in [days : Nat, last : -2 .. LastDay], NEW t \in DexDays
    PROVE  LET new == Dex!NewStreak(seen, t)
           IN  /\ new \in [days : Nat, last : -2 .. LastDay]
               /\ new.last \in 0 .. t /\ new.days \in 1 .. seen.days + 1
               /\ InUTC => /\ new.last = t
                           /\ new.days = IF seen.last = t - 1 THEN seen.days + 1 ELSE 1
<1> DEFINE c == Dex!DateColumn(t)
           n == IF Dex!Dated(seen) /\ Dex!LocalDay(seen.last) = t - 1 THEN seen.days + 1 ELSE 1
<1>1. Dex!NewStreak(seen, t) = [days |-> n, last |-> c]
  BY DEF Dex!NewStreak
<1>2. c \in 0 .. t /\ (InUTC => c = t) /\ t \in 1 .. LastDay
  BY DatesAre DEF DexDays
<1>3. seen.days \in Nat /\ seen.last \in -2 .. LastDay
  OBVIOUS
<1>4. n \in 1 .. seen.days + 1
  BY <1>3
<1>5. InUTC => n = IF seen.last = t - 1 THEN seen.days + 1 ELSE 1
  <2>1. InUTC => Dex!LocalDay(seen.last) = seen.last
    BY <1>3, DatesAre
  <2> QED
    BY <1>2, <1>3, <2>1 DEF Dex!Dated
<1> HIDE DEF c, n
<1>6. /\ Dex!NewStreak(seen, t).last = c /\ Dex!NewStreak(seen, t).days = n
      /\ c \in -2 .. LastDay /\ n \in Nat
  BY <1>1, <1>2, <1>3, <1>4, DaysAssumption
<1>7. Dex!NewStreak(seen, t) \in [days : Nat, last : -2 .. LastDay]
  BY <1>1, <1>6
<1> QED
  BY <1>2, <1>4, <1>5, <1>6, <1>7

(* A request writes the streak unless the day it read is its own.             *)
LEMMA WritesIs ==
    ASSUME InUTC, NEW q, q.seen \in [days : Nat, last : -2 .. LastDay], q.today \in DexDays
    PROVE  Dex!WritesStreak(q) <=> q.counts /\ q.seen.last # q.today
<1>1. q.seen.last \in Int /\ q.today \in Nat \ {0}
  BY DEF DexDays
<1>2. Dex!LocalDay(q.seen.last) = q.seen.last
  BY <1>1, DatesAre
<1> QED
  BY <1>1, <1>2 DEF Dex!WritesStreak, Dex!Dated

(* The stage each kind of request leads to.                                  *)
LEMMA TargetIs ==
    /\ Dex!Target["open"] = 1 /\ Dex!Target["progress"] = 1
    /\ Dex!Target["vote"] = 2 /\ Dex!Target["driver"] = 3
    /\ \A k \in Keys : KindOf[k] \in {"open", "progress", "vote", "driver"}
<1>1. /\ "open" \in Dex!Kinds /\ "progress" \in Dex!Kinds
      /\ "vote" \in Dex!Kinds /\ "driver" \in Dex!Kinds
  BY DEF Dex!Kinds
<1>2. \A k \in Dex!Kinds : Dex!Target[k] = CASE k \in {"open", "progress"} -> 1
                                            [] k = "vote" -> 2
                                            [] k = "driver" -> 3
  BY DEF Dex!Target
<1>3. Dex!Target["open"] = 1 /\ Dex!Target["progress"] = 1
  BY <1>1, <1>2
<1>4. Dex!Target["vote"] = 2
  BY <1>1, <1>2
<1>5. Dex!Target["driver"] = 3
  BY <1>1, <1>2
<1> QED
  BY <1>3, <1>4, <1>5, KindsAssumption

DexRows == <<stage, streak, sessions, done, bonuses, activeDays, straddled>>

(* A step of one request that writes no rows.                                *)
LEMMA RequestMoves ==
    ASSUME DexInv, UNCHANGED DexRows, day' = day, NEW r \in Requests,
           overlapped' \in BOOLEAN, overlapped => overlapped',
           DOMAIN dexReq' = Requests, \A o \in Requests \ {r} : dexReq'[o] = dexReq[o],
           RequestFits(dexReq[r])',
           \A o \in Requests \ {r} : Together(dexReq[r], dexReq[o])'
    PROVE  DexInv'
<1> USE DEF DexInv, DexRows
<1>1. DexTypes'
  BY DEF DexTypes
<1>2. \A o \in Requests : RequestFits(dexReq[o])'
  <2> SUFFICES ASSUME NEW o \in Requests \ {r} PROVE RequestFits(dexReq[o])'
    OBVIOUS
  <2>1. dexReq'[o] = dexReq[o] /\ RequestFits(dexReq[o])
    BY DEF RequestsFit
  <2>2. RequestTypes(dexReq[o])'
    BY <2>1 DEF RequestFits, RequestTypes
  <2>3. StageIsSeen(dexReq[o])'
    BY <2>1 DEF RequestFits, StageIsSeen, Inside, KindIs
  <2>4. SessionIsNew(dexReq[o])'
    BY <2>1 DEF RequestFits, SessionIsNew, Inside, KindIs
  <2>5. StreakIsSeen(dexReq[o])'
    BY <2>1 DEF RequestFits, StreakIsSeen, Dex!NewStreak
  <2> QED
    BY <2>2, <2>3, <2>4, <2>5 DEF RequestFits
<1>3. \A p, o \in Requests : p # o => Together(dexReq[p], dexReq[o])'
  <2> SUFFICES ASSUME NEW p \in Requests, NEW o \in Requests, p # o
               PROVE  Together(dexReq[p], dexReq[o])'
    OBVIOUS
  <2>1. CASE p = r
    BY <2>1
  <2>2. CASE o = r
    <3>1. Together(dexReq[r], dexReq[p])'
      BY <2>2
    <3> QED
      BY <2>2, <3>1 DEF Together, Inside, KindIs
  <2>3. CASE p # r /\ o # r
    <3>1. Together(dexReq[p], dexReq[o]) /\ dexReq'[p] = dexReq[p] /\ dexReq'[o] = dexReq[o]
      BY <2>3 DEF RequestsFit
    <3> QED
      BY <3>1 DEF Together, Inside, KindIs
  <2> QED
    BY <2>1, <2>2, <2>3
<1>4. RequestsFit'
  BY <1>2, <1>3 DEF RequestsFit
<1>5. DoneIsKept'
  BY DEF DoneIsKept
<1>6. StreakIsLast'
  BY DEF StreakIsLast
<1>7. Dex!ActionsCountOnce'
  BY DEF Dex!ActionsCountOnce, Dex!VotesOnce, Dex!ContextOncePerKey, Dex!Once, Dex!Votes,
         Dex!Drivers
<1>8. Dex!StreakFollowsDays'
  BY DEF Dex!StreakFollowsDays, Dex!StreakIsRun, Dex!OneBonusPerDay, Dex!RunEndingAt, Dex!Days
<1> QED
  BY <1>1, <1>4, <1>5, <1>6, <1>7, <1>8

(* A request that is over, or not begun, has nothing to keep.                *)
LEMMA OutsideFits ==
    ASSUME DexInv, UNCHANGED DexRows, day' = day, NEW r \in Requests,
           overlapped' \in BOOLEAN, overlapped => overlapped',
           DOMAIN dexReq' = Requests, \A o \in Requests \ {r} : dexReq'[o] = dexReq[o],
           dexReq'[r].pc \in {"none", "begin", "answer"},
           dexReq'[r].pc # "none" => dexReq'[r].key \in Keys
    PROVE  DexInv'
<1>1. RequestFits(dexReq[r])'
  BY DEF RequestFits, RequestTypes, StageIsSeen, SessionIsNew, StreakIsSeen, Inside
<1>2. \A o \in Requests \ {r} : Together(dexReq[r], dexReq[o])'
  BY DEF Together, Inside
<1> QED
  BY <1>1, <1>2, RequestMoves

(* The steps of a request before its commit.                                 *)
LEMMA AbortStep == ASSUME DexInv, NEW r \in Requests, Dex!Abort(r) PROVE DexInv'
<1>1. /\ UNCHANGED DexRows /\ day' = day /\ overlapped' = overlapped
      /\ dexReq' = [dexReq EXCEPT ![r] = Dex!Gone]
  BY DEF Dex!Abort, Dex!counts, DexRows
<1>2. DOMAIN dexReq = Requests /\ overlapped \in BOOLEAN
  BY DEF DexInv, DexTypes
<1>3. /\ DOMAIN dexReq' = Requests /\ \A o \in Requests \ {r} : dexReq'[o] = dexReq[o]
      /\ dexReq'[r].pc = "none"
  BY <1>1, <1>2 DEF Dex!Gone
<1> QED
  BY <1>1, <1>2, <1>3, OutsideFits

(* The stage is read for the first time.                                     *)
LEMMA ReadProgressStep == ASSUME DexInv, NEW r \in Requests, Dex!ReadProgress(r) PROVE DexInv'
<1>1. CASE Dex!Abort(r)
  BY <1>1, AbortStep
<1>2. CASE ~Dex!Abort(r)
  <2> DEFINE q == [pc |-> "again", key |-> dexReq[r].key, before |-> stage]
  <2>1. /\ dexReq[r].pc = "begin" /\ Dex!SessionFree(r)
        /\ Dex!MayProceed(KindIs(dexReq[r])) /\ ~Dex!SessionTaken(dexReq[r].key)
        /\ UNCHANGED DexRows /\ day' = day /\ dexReq' = [dexReq EXCEPT ![r] = q]
        /\ overlapped' = (overlapped \/ \E o \in Requests \ {r} : Dex!InTransaction(o))
    BY <1>2 DEF Dex!ReadProgress, Dex!Move, Dex!counts, DexRows, Dex!Kind, KindIs
  <2>2. /\ DOMAIN dexReq' = Requests /\ \A o \in Requests \ {r} : dexReq'[o] = dexReq[o]
        /\ dexReq'[r] = q /\ dexReq[r].key \in Keys
    BY <2>1 DEF DexInv, DexTypes, RequestsFit, RequestFits, RequestTypes
  <2>3. /\ q.pc = "again" /\ q.key = dexReq[r].key
    OBVIOUS
  <2> HIDE DEF q
  <2>4. RequestTypes(dexReq[r])' /\ StreakIsSeen(dexReq[r])'
    BY <2>2, <2>3 DEF RequestTypes, StreakIsSeen
  <2>5. StageIsSeen(dexReq[r])'
    BY <2>1, <2>2, <2>3 DEF StageIsSeen, KindIs, Dex!MayProceed, DexRows
  <2>6. SessionIsNew(dexReq[r])'
    BY <2>1, <2>2, <2>3 DEF SessionIsNew, KindIs, Dex!SessionTaken, DexRows
  <2>7. \A o \in Requests \ {r} : Together(dexReq[r], dexReq[o])'
    <3> SUFFICES ASSUME NEW o \in Requests \ {r}, Inside(dexReq[o])
                 PROVE  Together(dexReq[r], dexReq[o])'
      BY <2>2 DEF Together, Inside
    <3>1. Dex!InTransaction(o)
      BY DEF Inside, Dex!InTransaction
    <3>2. overlapped'
      BY <2>1, <3>1
    <3>3. KindIs(dexReq[r]) = "progress" => dexReq[r].key # dexReq[o].key
      BY <2>1, <3>1 DEF Dex!SessionFree, Dex!Kind, KindIs
    <3> QED
      BY <2>2, <2>3, <3>2, <3>3 DEF Together, KindIs
  <2>8. overlapped' \in BOOLEAN /\ (overlapped => overlapped')
    BY <2>1 DEF DexInv, DexTypes
  <2> QED
    BY <2>1, <2>2, <2>4, <2>5, <2>6, <2>7, <2>8, RequestMoves DEF RequestFits
<1> QED
  BY <1>1, <1>2

(* A transaction goes on with its key.                                       *)
LEMMA TransactionMoves ==
    ASSUME DexInv, UNCHANGED <<DexRows, day, overlapped>>, NEW r \in Requests,
           Inside(dexReq[r]), Inside(dexReq[r])', dexReq'[r].key = dexReq[r].key,
           dexReq' = [dexReq EXCEPT ![r] = dexReq'[r]],
           RequestTypes(dexReq[r])', StageIsSeen(dexReq[r])', StreakIsSeen(dexReq[r])'
    PROVE  DexInv'
<1>1. /\ DOMAIN dexReq' = Requests /\ \A o \in Requests \ {r} : dexReq'[o] = dexReq[o]
      /\ overlapped \in BOOLEAN
  BY DEF DexInv, DexTypes
<1>2. SessionIsNew(dexReq[r])'
  BY DEF DexInv, RequestsFit, RequestFits, SessionIsNew, KindIs, DexRows
<1>3. \A o \in Requests \ {r} : Together(dexReq[r], dexReq[o])'
  BY <1>1 DEF DexInv, RequestsFit, Together, KindIs, Inside
<1> QED
  BY <1>1, <1>2, <1>3, RequestMoves DEF RequestFits

(* The stage is read again, and decides on the write.                        *)
LEMMA ReadAgainStep == ASSUME DexInv, NEW r \in Requests, Dex!ReadAgain(r) PROVE DexInv'
<1> DEFINE p == CASE stage = -1 -> "create"
                  [] stage # -1 /\ Dex!Reached(KindIs(dexReq[r])) -> "streak"
                  [] OTHER -> "update"
           q == [pc |-> p, key |-> dexReq[r].key, before |-> dexReq[r].before, write |-> -1]
<1>1. /\ dexReq[r].pc = "again" /\ dexReq' = [dexReq EXCEPT ![r] = q]
      /\ UNCHANGED <<DexRows, day, overlapped>>
  BY DEF Dex!ReadAgain, Dex!Move, Dex!counts, DexRows, Dex!Kind, KindIs, Dex!NoRow
<1>2. \/ p = "create" /\ stage = -1
      \/ p = "streak" /\ stage >= Dex!Target[KindIs(dexReq[r])]
      \/ p = "update" /\ stage # -1 /\ ~(stage >= Dex!Target[KindIs(dexReq[r])])
  BY DEF Dex!Reached
<1> HIDE DEF p
<1>3. /\ DOMAIN dexReq = Requests /\ dexReq'[r] = q /\ dexReq[r].key \in Keys
      /\ stage \in -1 .. 3
  BY <1>1 DEF DexInv, DexTypes, RequestsFit, RequestFits, RequestTypes
<1>4. /\ q.pc = p /\ q.key = dexReq[r].key /\ q.write = -1
      /\ q = [pc |-> q.pc, key |-> q.key, before |-> q.before, write |-> -1]
  OBVIOUS
<1> HIDE DEF q
<1>5. StageIsSeen(dexReq[r])
  BY DEF DexInv, RequestsFit, RequestFits
<1>6. Dex!Target[KindIs(dexReq[r])] \in Int
  BY <1>3, TargetIs DEF KindIs
<1>7. StageIsSeen(dexReq[r])'
  BY <1>1, <1>2, <1>3, <1>4, <1>5, <1>6 DEF StageIsSeen, Inside, KindIs, DexRows
<1>8. RequestTypes(dexReq[r])' /\ StreakIsSeen(dexReq[r])'
  BY <1>2, <1>3, <1>4 DEF RequestTypes, StreakIsSeen
<1>9. Inside(dexReq[r]) /\ Inside(dexReq[r])'
  BY <1>1, <1>2, <1>3, <1>4 DEF Inside
<1> QED
  BY <1>1, <1>3, <1>4, <1>7, <1>8, <1>9, TransactionMoves

(* The stage is written.                                                     *)
LEMMA WriteStep ==
    ASSUME DexInv, NEW r \in Requests, dexReq[r].pc \in {"create", "update"},
           dexReq[r].pc = "create" => stage = -1,
           Dex!Move(r, [dexReq[r] EXCEPT !.pc = "streak", !.write = Dex!Target[Dex!Kind(r)]]),
           overlapped' = overlapped
    PROVE  DexInv'
<1> DEFINE t == Dex!Target[KindIs(dexReq[r])]
           q == [dexReq[r] EXCEPT !.pc = "streak", !.write = t]
<1>1. dexReq' = [dexReq EXCEPT ![r] = q] /\ UNCHANGED <<DexRows, day, overlapped>>
  BY DEF Dex!Move, Dex!counts, DexRows, Dex!Kind, KindIs
<1>2. /\ RequestTypes(dexReq[r]) /\ StageIsSeen(dexReq[r])
      /\ DOMAIN dexReq = Requests /\ stage \in -1 .. 3
  BY DEF DexInv, DexTypes, RequestsFit, RequestFits
<1>3. /\ dexReq[r].key \in Keys
      /\ dexReq[r] = [pc |-> dexReq[r].pc, key |-> dexReq[r].key, before |-> dexReq[r].before,
                      write |-> -1]
  BY <1>2 DEF RequestTypes
<1>4. t \in 1 .. 3
  BY <1>3, TargetIs DEF KindIs
<1> HIDE DEF t
<1>5. q.pc = "streak" /\ q.key = dexReq[r].key /\ q.write = t
  BY <1>3
<1> HIDE DEF q
<1>6. dexReq'[r] = q
  BY <1>1, <1>2
<1>7. StageIsSeen(dexReq[r])'
  BY <1>1, <1>2, <1>4, <1>5, <1>6 DEF StageIsSeen, Inside, KindIs, DexRows, t
<1>8. RequestTypes(dexReq[r])' /\ StreakIsSeen(dexReq[r])'
  BY <1>3, <1>4, <1>5, <1>6 DEF RequestTypes, StreakIsSeen
<1>9. Inside(dexReq[r]) /\ Inside(dexReq[r])'
  BY <1>5, <1>6 DEF Inside
<1> QED
  BY <1>1, <1>5, <1>6, <1>7, <1>8, <1>9, TransactionMoves

(* The streak is read.                                                       *)
LEMMA ReadStreakStep == ASSUME DexInv, NEW r \in Requests, Dex!ReadStreak(r) PROVE DexInv'
<1> DEFINE q == [pc |-> "commit", key |-> dexReq[r].key, write |-> dexReq[r].write,
                 counts |-> Dex!CountsForStreak(r), seen |-> streak, today |-> day]
<1>1. /\ dexReq[r].pc = "streak" /\ dexReq' = [dexReq EXCEPT ![r] = q]
      /\ UNCHANGED <<DexRows, day, overlapped>>
  BY DEF Dex!ReadStreak, Dex!Move, Dex!counts, DexRows
<1>2. /\ RequestTypes(dexReq[r]) /\ StageIsSeen(dexReq[r]) /\ DexTypes
  BY DEF DexInv, RequestsFit, RequestFits
<1>3. Dex!CountsForStreak(r) \in BOOLEAN
  BY DEF Dex!CountsForStreak
<1>4. /\ q.pc = "commit" /\ q.key = dexReq[r].key /\ q.write = dexReq[r].write
      /\ q.counts \in BOOLEAN /\ q.seen = streak /\ q.today = day
  BY <1>3
<1> HIDE DEF q
<1>5. dexReq'[r] = q /\ dexReq[r].key \in Keys
  BY <1>1, <1>2 DEF DexTypes, RequestTypes
<1>6. StageIsSeen(dexReq[r])'
  <2>1. Inside(dexReq[r])
    BY <1>1 DEF Inside
  <2> QED
    BY <1>1, <1>2, <1>4, <1>5, <2>1 DEF StageIsSeen, KindIs, DexRows
<1>7. RequestTypes(dexReq[r])'
  <2>1. /\ q.today \in DexDays /\ q.today <= day' /\ q.seen.last <= q.today
        /\ q.seen \in [days : Nat, last : -2 .. LastDay]
    BY <1>1, <1>2, <1>4 DEF DexTypes, DexDays
  <2>2. q.write \in -1 .. 3
    BY <1>1, <1>2, <1>4 DEF RequestTypes
  <2> QED
    BY <1>4, <1>5, <2>1, <2>2 DEF RequestTypes
<1>8. StreakIsSeen(dexReq[r])'
  BY <1>1, <1>4, <1>5 DEF StreakIsSeen, DexRows
<1>9. Inside(dexReq[r]) /\ Inside(dexReq[r])'
  BY <1>1, <1>4, <1>5 DEF Inside
<1> QED
  BY <1>1, <1>4, <1>5, <1>6, <1>7, <1>8, <1>9, TransactionMoves

(* What a commit finds, and what it leaves.                                  *)
LEMMA CommitIs ==
    ASSUME DexInv, NEW r \in Requests, Dex!Commit(r), ~Dex!Abort(r)
    PROVE  LET q == dexReq[r]
               w == Dex!WritesStreak(q)
           IN  /\ q.pc = "commit" /\ Inside(q) /\ RequestFits(q)
               /\ q.key \in Keys /\ q.today \in DexDays /\ q.today <= day
               /\ q.counts \in BOOLEAN /\ q.write \in -1 .. 3
               /\ q.seen \in [days : Nat, last : -2 .. LastDay] /\ q.seen.last <= q.today
               /\ stage' = IF q.write = -1 THEN stage ELSE q.write
               /\ sessions' = IF KindIs(q) = "progress" THEN sessions \cup {q.key} ELSE sessions
               /\ done' = [done EXCEPT ![q.key] = done[q.key] + 1]
               /\ streak' = IF w THEN Dex!NewStreak(q.seen, q.today) ELSE streak
               /\ bonuses' = IF Dex!EarnsBonus(q)
                             THEN [bonuses EXCEPT ![q.today] = bonuses[q.today] + 1] ELSE bonuses
               /\ activeDays' = IF q.counts THEN activeDays \cup {q.today} ELSE activeDays
               /\ straddled' = (straddled \/ Dex!OtherDayOpen(r))
               /\ DOMAIN dexReq' = Requests /\ dexReq'[r] = [pc |-> "answer", key |-> q.key]
               /\ \A o \in Requests \ {r} : dexReq'[o] = dexReq[o]
               /\ day' = day /\ overlapped' = overlapped
<1>1. dexReq[r].pc = "commit" /\ RequestFits(dexReq[r]) /\ DOMAIN dexReq = Requests
  BY DEF Dex!Commit, DexInv, DexTypes, RequestsFit
<1>2. RequestTypes(dexReq[r])
  BY <1>1 DEF RequestFits
<1> QED
  BY <1>1, <1>2 DEF Dex!Commit, Dex!Kind, KindIs, Inside, RequestTypes, Dex!NoRow

(* A commit writes the streak of its day once, however many complete that day. *)
LEMMA CommitStreak ==
    ASSUME DexInv, NEW r \in Requests, Dex!Commit(r), ~Dex!Abort(r), ~straddled,
           InUTC
    PROVE  \/ streak' = streak /\ activeDays' = activeDays
           \/ /\ dexReq[r].seen = streak /\ streak.last < dexReq[r].today
              /\ streak' = Dex!NewStreak(streak, dexReq[r].today)
              /\ activeDays' = activeDays \cup {dexReq[r].today}
<1> DEFINE q == dexReq[r]
<1>1. /\ q.pc = "commit" /\ StreakIsSeen(q) /\ q.today \in DexDays
      /\ q.counts \in BOOLEAN
      /\ q.seen \in [days : Nat, last : -2 .. LastDay] /\ q.seen.last <= q.today
      /\ streak' = IF Dex!WritesStreak(q) THEN Dex!NewStreak(q.seen, q.today) ELSE streak
      /\ activeDays' = IF q.counts THEN activeDays \cup {q.today} ELSE activeDays
      /\ Dex!WritesStreak(q) <=> q.counts /\ q.seen.last # q.today
  BY CommitIs, WritesIs DEF RequestFits
<1>2. /\ streak.last \notin {-2, -1} => streak.last \in activeDays
      /\ streak \in [days : Nat, last : -2 .. LastDay]
  BY DEF DexInv, StreakIsLast, DexTypes
<1> HIDE DEF q
<1>3. CASE ~q.counts
  BY <1>1, <1>3
<1>4. CASE q.counts /\ q.seen.last = q.today
  <2>1. streak.last = q.today
    BY <1>1, <1>4 DEF StreakIsSeen
  <2>2. q.today \in activeDays
    BY <1>1, <1>2, <2>1 DEF DexDays
  <2> QED
    BY <1>1, <1>4, <2>2
<1>5. CASE q.counts /\ q.seen.last # q.today /\ q.seen = streak
  <2>1. streak.last < q.today
    BY <1>1, <1>2, <1>5 DEF DexDays
  <2> QED
    BY <1>1, <1>5, <2>1 DEF q
<1>6. CASE q.counts /\ q.seen.last # q.today /\ q.seen # streak
  <2>1. streak.last = q.today /\ streak = Dex!NewStreak(q.seen, q.today)
    BY <1>1, <1>6 DEF StreakIsSeen
  <2>2. q.today \in activeDays
    BY <1>1, <1>2, <2>1 DEF DexDays
  <2> QED
    BY <1>1, <1>6, <2>1, <2>2
<1> QED
  BY <1>1, <1>3, <1>4, <1>5, <1>6

(* The requests beside a commit still fit.                                   *)
LEMMA CommitBeside ==
    ASSUME DexInv, NEW r \in Requests, Dex!Commit(r), ~Dex!Abort(r) PROVE RequestsFit'
<1> DEFINE q == dexReq[r]
<1>1. /\ q.pc = "commit" /\ Inside(q) /\ q.key \in Keys /\ q.today \in DexDays
      /\ sessions' = IF KindIs(q) = "progress" THEN sessions \cup {q.key} ELSE sessions
      /\ straddled' = (straddled \/ Dex!OtherDayOpen(r))
      /\ DOMAIN dexReq' = Requests /\ dexReq'[r] = [pc |-> "answer", key |-> q.key]
      /\ \A o \in Requests \ {r} : dexReq'[o] = dexReq[o]
      /\ day' = day /\ overlapped' = overlapped
  BY CommitIs
<1>2. RequestFits(dexReq[r])'
  BY <1>1 DEF RequestFits, RequestTypes, StageIsSeen, SessionIsNew, StreakIsSeen, Inside
<1>3. ASSUME NEW o \in Requests \ {r} PROVE RequestFits(dexReq[o])'
  <2> DEFINE p == dexReq[o]
  <2>1. /\ RequestFits(p) /\ Together(p, q) /\ Together(q, p) /\ dexReq'[o] = p
    BY <1>1, <1>3 DEF DexInv, RequestsFit
  <2>2. RequestTypes(dexReq[o])'
    BY <1>1, <2>1 DEF RequestFits, RequestTypes
  <2>3. Inside(p) => overlapped
    BY <1>1, <2>1 DEF Together
  <2>4. StageIsSeen(dexReq[o])'
    BY <1>1, <2>1, <2>3 DEF StageIsSeen, Inside
  <2>5. SessionIsNew(dexReq[o])'
    BY <1>1, <2>1 DEF RequestFits, SessionIsNew, Together, Inside, KindIs
  <2>6. StreakIsSeen(dexReq[o])'
    <3>1. CASE p.pc # "commit"
      BY <2>1, <3>1 DEF StreakIsSeen
    <3>2. CASE p.pc = "commit" /\ (straddled' \/ ~InUTC)
      BY <1>1, <2>1, <2>3, <3>2 DEF StreakIsSeen, Inside
    <3>3. CASE p.pc = "commit" /\ ~straddled' /\ InUTC
      <4>1. ~straddled /\ p.today = q.today
        BY <1>1, <3>3 DEF Dex!OtherDayOpen
      <4>2. /\ p.seen = streak \/ /\ streak.last = p.today /\ p.seen.last < p.today
                                  /\ streak = Dex!NewStreak(p.seen, p.today)
            /\ p.today \in Nat /\ streak.last \in Int
        BY <1>1, <2>1, <3>3, <4>1 DEF RequestFits, StreakIsSeen, DexDays, DexInv, DexTypes
      <4>3. Dex!NewStreak(streak, q.today).last = q.today
        BY <1>1, <3>3, NewStreakIs DEF DexInv, DexTypes
      <4>4. \/ streak' = streak
            \/ streak.last < q.today /\ streak' = Dex!NewStreak(streak, q.today)
        BY <3>3, <4>1, CommitStreak
      <4>5. \/ p.seen = streak'
            \/ /\ streak'.last = p.today /\ p.seen.last < p.today
               /\ streak' = Dex!NewStreak(p.seen, p.today)
        BY <4>1, <4>2, <4>3, <4>4
      <4>6. overlapped'
        BY <1>1, <2>3, <3>3 DEF Inside
      <4> QED
        BY <2>1, <4>5, <4>6 DEF StreakIsSeen, Dex!NewStreak
    <3> QED
      BY <3>1, <3>2, <3>3
  <2> QED
    BY <2>2, <2>4, <2>5, <2>6 DEF RequestFits
<1>4. \A o, p \in Requests : o # p => Together(dexReq[o], dexReq[p])'
  BY <1>1 DEF DexInv, RequestsFit, Together, Inside, KindIs
<1> QED
  BY <1>2, <1>3, <1>4 DEF RequestsFit

(* Alone on the brick, a commit raises the stage or leaves it, and what is   *)
(* done once finds that it was not done.                                     *)
LEMMA CommitStage ==
    ASSUME DexInv, NEW r \in Requests, Dex!Commit(r), ~Dex!Abort(r), ~overlapped
    PROVE  LET q == dexReq[r]
           IN  /\ stage' >= stage /\ stage' \in -1 .. 3 /\ stage \in -1 .. 3
               /\ KindIs(q) = "vote" => stage = 1 /\ stage' = 2
               /\ KindIs(q) = "driver" => stage = 2 /\ stage' = 3
<1>1. LET q == dexReq[r]
      IN  /\ q.pc = "commit" /\ Inside(q) /\ StageIsSeen(q) /\ q.key \in Keys
          /\ q.write \in -1 .. 3
          /\ stage' = IF q.write = -1 THEN stage ELSE q.write
  BY CommitIs DEF RequestFits
<1>2. stage \in -1 .. 3
  BY DEF DexInv, DexTypes
<1> QED
  BY <1>1, <1>2, TargetIs DEF StageIsSeen, KindIs

(* Every commit keeps the invariant.                                         *)
LEMMA CommitStep == ASSUME DexInv, NEW r \in Requests, Dex!Commit(r) PROVE DexInv'
<1>1. CASE Dex!Abort(r)
  BY <1>1, AbortStep
<1>2. CASE ~Dex!Abort(r)
  <2> DEFINE q == dexReq[r]
             w == Dex!WritesStreak(q)
  <2>1. /\ q.pc = "commit" /\ Inside(q) /\ RequestFits(q)
        /\ q.key \in Keys /\ q.today \in DexDays /\ q.today <= day
        /\ q.counts \in BOOLEAN /\ q.write \in -1 .. 3
        /\ q.seen \in [days : Nat, last : -2 .. LastDay] /\ q.seen.last <= q.today
        /\ stage' = IF q.write = -1 THEN stage ELSE q.write
        /\ sessions' = IF KindIs(q) = "progress" THEN sessions \cup {q.key} ELSE sessions
        /\ done' = [done EXCEPT ![q.key] = done[q.key] + 1]
        /\ streak' = IF w THEN Dex!NewStreak(q.seen, q.today) ELSE streak
        /\ bonuses' = IF Dex!EarnsBonus(q)
                      THEN [bonuses EXCEPT ![q.today] = bonuses[q.today] + 1] ELSE bonuses
        /\ activeDays' = IF q.counts THEN activeDays \cup {q.today} ELSE activeDays
        /\ straddled' = (straddled \/ Dex!OtherDayOpen(r))
        /\ DOMAIN dexReq' = Requests /\ day' = day /\ overlapped' = overlapped
    BY <1>2, CommitIs
  <2>2. DexTypes
    BY DEF DexInv
  <2>3. /\ DOMAIN done = Keys /\ \A k \in Keys : done[k] \in Nat
        /\ done' \in [Keys -> Nat] /\ done'[q.key] = done[q.key] + 1
        /\ \A k \in Keys \ {q.key} : done'[k] = done[k]
    BY <2>1, <2>2 DEF DexTypes
  <2>4. /\ bonuses' \in [DexDays -> Nat]
        /\ \A d \in DexDays \ {q.today} : bonuses'[d] = bonuses[d]
        /\ \/ bonuses'[q.today] = bonuses[q.today]
           \/ Dex!EarnsBonus(q) /\ bonuses'[q.today] = bonuses[q.today] + 1
    <3>1. bonuses \in [DexDays -> Nat]
      BY <2>2 DEF DexTypes
    <3>2. CASE Dex!EarnsBonus(q)
      BY <2>1, <3>1, <3>2
    <3>3. CASE ~Dex!EarnsBonus(q)
      BY <2>1, <3>1, <3>3
    <3> QED
      BY <3>2, <3>3
  <2>5. /\ streak' \in [days : Nat, last : -2 .. LastDay] /\ streak'.last <= day'
        /\ InUTC /\ w => streak'.last = q.today
    <3>1. LET new == Dex!NewStreak(q.seen, q.today)
          IN  /\ new \in [days : Nat, last : -2 .. LastDay] /\ new.last \in 0 .. q.today
              /\ InUTC => new.last = q.today
      BY <2>1, NewStreakIs
    <3> QED
      BY <2>1, <2>2, <3>1 DEF DexTypes, DexDays
  <2>6. DexTypes'
    <3>1. stage' \in -1 .. 3 /\ sessions' \subseteq Keys /\ activeDays' \subseteq DexDays
      BY <2>1, <2>2 DEF DexTypes
    <3>2. straddled' \in BOOLEAN /\ overlapped' \in BOOLEAN
      BY <2>1, <2>2 DEF DexTypes, Dex!OtherDayOpen
    <3> QED
      BY <2>1, <2>2, <2>3, <2>4, <2>5, <3>1, <3>2 DEF DexTypes
  <2>7. RequestsFit'
    BY <1>2, CommitBeside
  <2>8. ~overlapped => /\ stage' >= stage /\ stage' \in -1 .. 3 /\ stage \in -1 .. 3
                       /\ KindIs(q) = "vote" => stage = 1 /\ stage' = 2
                       /\ KindIs(q) = "driver" => stage = 2 /\ stage' = 3
    BY <1>2, CommitStage
  <2>9. ~overlapped => /\ q.seen = streak /\ ~straddled /\ ~straddled'
                       /\ InUTC /\ w => streak.last < q.today
    <3> SUFFICES ASSUME ~overlapped
                 PROVE  /\ q.seen = streak /\ ~straddled /\ ~straddled'
                        /\ InUTC /\ w => streak.last < q.today
      OBVIOUS
    <3>1. q.seen = streak
      BY <2>1 DEF RequestFits, StreakIsSeen
    <3>2. ~straddled
      BY DEF DexInv, DoneIsKept
    <3>3. ~Dex!OtherDayOpen(r)
      BY <2>1 DEF Dex!OtherDayOpen, DexInv, RequestsFit, Together, Inside
    <3>4. InUTC => (w <=> q.counts /\ q.seen.last # q.today)
      BY <2>1, WritesIs
    <3> QED
      BY <2>1, <2>2, <3>1, <3>2, <3>3, <3>4 DEF DexTypes, DexDays
  <2>10. KindIs(q) = "progress" => done[q.key] = 0
    <3>1. KindIs(q) = "progress" => q.key \notin sessions
      BY <2>1 DEF RequestFits, SessionIsNew
    <3> QED
      BY <2>1, <3>1 DEF DexInv, DoneIsKept, KindIs
  <2> HIDE DEF q, w
  <2>11. DoneIsKept'
    <3>1. ASSUME ~overlapped'
          PROVE  /\ ~straddled'
                 /\ \A k \in Keys : KindOf[k] = "vote" /\ done'[k] # 0 => stage' >= 2
                 /\ \A k \in Keys : KindOf[k] = "driver" /\ done'[k] # 0 => stage' >= 3
                 /\ InUTC => \A d \in DexDays : bonuses'[d] # 0 => d <= streak'.last
      <4>1. DoneIsKept /\ ~overlapped
        BY <2>1, <3>1 DEF DexInv
      <4>2. ASSUME NEW k \in Keys, done'[k] # 0
            PROVE  /\ KindOf[k] = "vote" => stage' >= 2
                   /\ KindOf[k] = "driver" => stage' >= 3
        <5>1. CASE k = q.key
          BY <2>8, <4>1, <5>1 DEF KindIs
        <5>2. CASE k # q.key
          BY <2>3, <2>8, <4>1, <4>2, <5>2 DEF DoneIsKept
        <5> QED
          BY <5>1, <5>2
      <4>3. ASSUME InUTC, NEW d \in DexDays, bonuses'[d] # 0 PROVE d <= streak'.last
        <5>1. streak.last <= streak'.last /\ streak.last \in Int /\ streak'.last \in Int
          BY <2>1, <2>2, <2>5, <2>9, <4>1, <4>3 DEF DexTypes, DexDays
        <5>2. CASE bonuses'[d] = bonuses[d]
          <6>1. d <= streak.last
            BY <4>1, <4>3, <5>2 DEF DoneIsKept
          <6> QED
            BY <5>1, <6>1 DEF DexDays
        <5>3. CASE bonuses'[d] # bonuses[d]
          <6>1. d = q.today /\ w
            BY <2>4, <5>3 DEF Dex!EarnsBonus, w
          <6> QED
            BY <2>1, <2>5, <4>3, <6>1 DEF DexDays
        <5> QED
          BY <5>2, <5>3
      <4> QED
        BY <2>9, <4>1, <4>2, <4>3
    <3>2. \A k \in Keys : KindOf[k] = "progress" /\ done'[k] # 0 => k \in sessions'
      BY <2>1, <2>3 DEF DexInv, DoneIsKept, KindIs
    <3> QED
      BY <3>1, <3>2 DEF DoneIsKept
  <2>12. Dex!ActionsCountOnce'
    <3>1. Dex!ContextOncePerKey'
      BY <2>1, <2>3, <2>10 DEF DexInv, Dex!ActionsCountOnce, Dex!ContextOncePerKey, KindIs
    <3>2. ASSUME ~overlapped', NEW ks, ks = Dex!Votes \/ ks = Dex!Drivers
          PROVE  Dex!Once(ks)'
      <4>1. ~overlapped /\ Dex!Once(ks) /\ ks \subseteq Keys
        BY <2>1, <3>2 DEF DexInv, Dex!ActionsCountOnce, Dex!VotesOnce, Dex!Votes, Dex!Drivers
      <4>2. CASE q.key \notin ks
        BY <2>3, <4>1, <4>2 DEF Dex!Once
      <4>3. CASE q.key \in ks
        <5>1. \A k \in ks : done[k] = 0
          <6>1. DoneIsKept
            BY DEF DexInv
          <6>2. CASE ks = Dex!Votes
            BY <2>3, <2>8, <4>1, <4>3, <6>1, <6>2 DEF DoneIsKept, Dex!Votes, KindIs
          <6>3. CASE ks = Dex!Drivers
            BY <2>3, <2>8, <4>1, <4>3, <6>1, <6>3 DEF DoneIsKept, Dex!Drivers, KindIs
          <6> QED
            BY <3>2, <6>2, <6>3
        <5>2. \A k \in ks : done'[k] = IF k = q.key THEN 1 ELSE 0
          BY <2>3, <4>1, <5>1
        <5> QED
          BY <5>2 DEF Dex!Once
      <4> QED
        BY <4>2, <4>3
    <3>3. Dex!VotesOnce'
      BY <3>2 DEF Dex!VotesOnce
    <3> QED
      BY <3>1, <3>3 DEF Dex!ActionsCountOnce
  <2>13. ~straddled' /\ InUTC =>
             \/ streak' = streak /\ activeDays' = activeDays
             \/ /\ streak.last < q.today
                /\ streak' = Dex!NewStreak(streak, q.today)
                /\ activeDays' = activeDays \cup {q.today}
    BY <1>2, <2>1, CommitStreak DEF q
  <2>14. StreakIsLast'
    <3> SUFFICES ASSUME ~straddled', InUTC
                 PROVE  /\ activeDays' \subseteq 1 .. streak'.last
                        /\ streak'.last \notin {-2, -1} => streak'.last \in activeDays'
      BY DEF StreakIsLast
    <3>1. Dex!NewStreak(streak, q.today).last = q.today
      BY <2>1, <2>2, NewStreakIs DEF DexTypes
    <3> QED
      BY <2>1, <2>2, <2>13, <3>1 DEF DexInv, StreakIsLast, DexTypes, DexDays
  <2>15. InUTC => Dex!StreakIsRun'
    <3>4. Dex!RunEndingAt(streak.last) = Cardinality(RunOf(activeDays, streak.last))
      BY Zenon DEF Dex!RunEndingAt, RunOf, Dex!Cardinality, Cardinality
    <3>5. Dex!RunEndingAt(streak.last)' = Cardinality(RunOf(activeDays', streak'.last))
      BY Zenon DEF Dex!RunEndingAt, RunOf, Dex!Cardinality, Cardinality
    <3> SUFFICES ASSUME InUTC, ~straddled'
                 PROVE  streak'.days = Cardinality(RunOf(activeDays', streak'.last))
      BY <3>5 DEF Dex!StreakIsRun
    <3>1. /\ ~straddled /\ activeDays \subseteq 1 .. streak.last
          /\ streak.days = Cardinality(RunOf(activeDays, streak.last))
          /\ streak.last \in -2 .. LastDay /\ q.today \in Nat \ {0}
      BY <2>1, <2>2, <3>4 DEF DexInv, StreakIsLast, Dex!StreakFollowsDays, Dex!StreakIsRun,
                              DexTypes, DexDays, InUTC
    <3>2. CASE streak' = streak /\ activeDays' = activeDays
      BY <3>1, <3>2
    <3>3. CASE /\ streak.last < q.today
               /\ streak' = Dex!NewStreak(streak, q.today)
               /\ activeDays' = activeDays \cup {q.today}
      <4>1. /\ streak'.last = q.today
            /\ streak'.days = IF streak.last = q.today - 1 THEN streak.days + 1 ELSE 1
        BY <2>1, <2>2, <3>3, NewStreakIs DEF DexTypes
      <4> DEFINE A == activeDays
                 l == streak.last
                 t == q.today
      <4>2. A \subseteq 1 .. l /\ l \in Int /\ t \in Nat \ {0} /\ l < t
        BY <3>1, <3>3
      <4> HIDE DEF A, l, t
      <4>3. /\ l = t - 1 => Cardinality(RunOf(A \cup {t}, t)) = Cardinality(RunOf(A, l)) + 1
            /\ l # t - 1 => Cardinality(RunOf(A \cup {t}, t)) = 1
        <5>1. CASE l \in Nat
          BY <4>2, <5>1, RunGrows
        <5>2. CASE l \notin Nat
          <6>1. A = {} /\ A \subseteq 1 .. 0 /\ l # t - 1
            BY <4>2, <5>2
          <6>2. RunOf({}, 0) = {} /\ Cardinality({}) = 0
            BY FS_EmptySet DEF RunOf
          <6>3. /\ 0 = t - 1 => Cardinality(RunOf({} \cup {t}, t)) = Cardinality(RunOf({}, 0)) + 1
                /\ 0 # t - 1 => Cardinality(RunOf({} \cup {t}, t)) = 1
            <7>1. {} \subseteq 1 .. 0 /\ 0 < t /\ 0 \in Nat /\ t \in Nat
              BY <4>2
            <7> QED
              BY <7>1, RunGrows
          <6> QED
            BY <4>2, <6>1, <6>2, <6>3
        <5> QED
          BY <5>1, <5>2
      <4> QED
        BY <3>1, <3>3, <4>1, <4>3 DEF A, l, t
    <3> QED
      BY <2>13, <3>2, <3>3
  <2>16. InUTC => Dex!OneBonusPerDay'
    <3> SUFFICES ASSUME InUTC, ~overlapped', NEW d \in DexDays PROVE bonuses'[d] <= 1
      BY DEF Dex!OneBonusPerDay, Dex!Days, DexDays
    <3>1. bonuses[d] <= 1 /\ bonuses[d] \in Nat /\ (bonuses[d] # 0 => d <= streak.last)
      BY <2>1, <2>2 DEF DexInv, Dex!StreakFollowsDays, Dex!OneBonusPerDay, Dex!Days, DexDays,
                        DoneIsKept, DexTypes, InUTC
    <3>2. CASE bonuses'[d] = bonuses[d]
      BY <3>1, <3>2
    <3>3. CASE bonuses'[d] # bonuses[d]
      <4>1. d = q.today /\ w /\ bonuses'[d] = bonuses[d] + 1
        BY <2>4, <3>3 DEF Dex!EarnsBonus, w
      <4>2. streak.last < d
        BY <2>1, <2>9, <4>1
      <4> QED
        BY <2>2, <3>1, <4>1, <4>2 DEF DexTypes, DexDays
    <3> QED
      BY <3>2, <3>3
  <2> QED
    BY <2>6, <2>7, <2>11, <2>12, <2>14, <2>15, <2>16
       DEF DexInv, Dex!StreakFollowsDays, InUTC
<1> QED
  BY <1>1, <1>2

(* A later day disturbs nothing.                                             *)
LEMMA NextDayStep == ASSUME DexInv, Dex!NextDay PROVE DexInv'
<1>1. /\ UNCHANGED <<DexRows, dexReq, overlapped>> /\ day < LastDay /\ day' = day + 1
  BY DEF Dex!NextDay, Dex!counts, DexRows
<1>2. DexTypes'
  BY <1>1, DaysAssumption DEF DexInv, DexTypes, DexDays, DexRows
<1>3. RequestsFit'
  <2>1. ASSUME NEW r \in Requests PROVE RequestFits(dexReq[r])'
    <3>1. RequestFits(dexReq[r]) /\ day \in DexDays
      BY DEF DexInv, RequestsFit, DexTypes
    <3>2. RequestTypes(dexReq[r])'
      BY <1>1, <3>1 DEF RequestFits, RequestTypes, DexDays
    <3>3. StageIsSeen(dexReq[r])' /\ SessionIsNew(dexReq[r])'
      BY <1>1, <3>1 DEF RequestFits, StageIsSeen, SessionIsNew, DexRows, Inside, KindIs
    <3>4. StreakIsSeen(dexReq[r])'
      BY <1>1, <3>1 DEF RequestFits, StreakIsSeen, DexRows, Dex!NewStreak
    <3> QED
      BY <3>2, <3>3, <3>4 DEF RequestFits
  <2>2. \A r, o \in Requests : r # o => Together(dexReq[r], dexReq[o])'
    BY <1>1 DEF DexInv, RequestsFit, Together, Inside, KindIs
  <2> QED
    BY <2>1, <2>2 DEF RequestsFit
<1>4. DoneIsKept' /\ StreakIsLast'
  BY <1>1 DEF DexInv, DoneIsKept, StreakIsLast, DexRows
<1>5. Dex!ActionsCountOnce'
  BY <1>1 DEF DexInv, DexRows, Dex!ActionsCountOnce, Dex!VotesOnce, Dex!ContextOncePerKey,
              Dex!Once, Dex!Votes, Dex!Drivers
<1>6. Dex!StreakFollowsDays'
  BY <1>1 DEF DexInv, DexRows, Dex!StreakFollowsDays, Dex!StreakIsRun, Dex!OneBonusPerDay,
              Dex!RunEndingAt, Dex!Days
<1> QED
  BY <1>2, <1>3, <1>4, <1>5, <1>6 DEF DexInv

(* What leaves the rows and the requests alone keeps the invariant.          *)
LEMMA DexStutter ==
    ASSUME DexInv, UNCHANGED <<DexRows, day, overlapped, dexReq>> PROVE DexInv'
<1>1. DexTypes' /\ DoneIsKept' /\ StreakIsLast'
  BY DEF DexInv, DexRows, DexTypes, DoneIsKept, StreakIsLast
<1>2. RequestsFit'
  BY DEF DexInv, DexRows, RequestsFit, RequestFits, RequestTypes, StageIsSeen, SessionIsNew,
         StreakIsSeen, Together, Inside, KindIs, Dex!NewStreak
<1>3. Dex!ActionsCountOnce'
  BY DEF DexInv, DexRows, Dex!ActionsCountOnce, Dex!VotesOnce, Dex!ContextOncePerKey,
         Dex!Once, Dex!Votes, Dex!Drivers
<1>4. Dex!StreakFollowsDays'
  BY DEF DexInv, DexRows, Dex!StreakFollowsDays, Dex!StreakIsRun, Dex!OneBonusPerDay,
         Dex!RunEndingAt, Dex!Days
<1> QED
  BY <1>1, <1>2, <1>3, <1>4 DEF DexInv

(* A request arrives, or its answer is stored.                               *)
LEMMA DoorStep ==
    ASSUME DexInv, NEW r \in Requests, NEW k \in Keys, Dex!Arrive(r, k) \/ Dex!StoreKey(r)
    PROVE  DexInv'
<1>0. DOMAIN dexReq = Requests /\ overlapped \in BOOLEAN
  BY DEF DexInv, DexTypes
<1>1. /\ UNCHANGED <<DexRows, day, overlapped>>
      /\ \/ dexReq' = dexReq
         \/ dexReq' = [dexReq EXCEPT ![r] = [pc |-> "begin", key |-> k]]
         \/ dexReq' = [dexReq EXCEPT ![r] = Dex!Gone]
  BY DEF Dex!Arrive, Dex!StoreKey, Dex!counts, DexRows
<1>2. CASE dexReq' = dexReq
  BY <1>1, <1>2, DexStutter
<1>3. CASE dexReq' = [dexReq EXCEPT ![r] = [pc |-> "begin", key |-> k]]
  <2>1. /\ DOMAIN dexReq' = Requests /\ \A o \in Requests \ {r} : dexReq'[o] = dexReq[o]
        /\ dexReq'[r].pc = "begin" /\ dexReq'[r].key \in Keys
    BY <1>0, <1>3
  <2> QED
    BY <1>0, <1>1, <2>1, OutsideFits
<1>4. CASE dexReq' = [dexReq EXCEPT ![r] = Dex!Gone]
  <2>1. /\ DOMAIN dexReq' = Requests /\ \A o \in Requests \ {r} : dexReq'[o] = dexReq[o]
        /\ dexReq'[r].pc = "none"
    BY <1>0, <1>4 DEF Dex!Gone
  <2> QED
    BY <1>0, <1>1, <2>1, OutsideFits
<1> QED
  BY <1>1, <1>2, <1>3, <1>4

(* Every step of the Dex keeps the invariant.                                *)
LEMMA DexInvStep == DexInv /\ [Dex!Next]_ofDex => DexInv'
<1> SUFFICES ASSUME DexInv, [Dex!Next]_ofDex PROVE DexInv'
  OBVIOUS
<1>1. CASE UNCHANGED ofDex
  BY <1>1, DexStutter DEF ofDex, DexRows
<1>2. CASE Dex!NextDay
  BY <1>2, NextDayStep
<1>3. ASSUME NEW k \in Keys, Dex!ExpireKey(k) PROVE DexInv'
  BY <1>3, DexStutter DEF Dex!ExpireKey, Dex!counts, DexRows
<1>4. ASSUME NEW r \in Requests, NEW k \in Keys, Dex!Arrive(r, k) PROVE DexInv'
  BY <1>4, DoorStep
<1>5. ASSUME NEW r \in Requests, Dex!StoreKey(r) PROVE DexInv'
  <2>1. dexReq[r].key \in Keys
    BY <1>5 DEF Dex!StoreKey, DexInv, RequestsFit, RequestFits, RequestTypes
  <2> QED
    BY <1>5, <2>1, DoorStep
<1>6. ASSUME NEW r \in Requests, Dex!RequestDies(r) PROVE DexInv'
  BY <1>6, AbortStep DEF Dex!RequestDies
<1>7. ASSUME NEW r \in Requests, Dex!CreateRow(r) PROVE DexInv'
  BY <1>7, AbortStep, WriteStep DEF Dex!CreateRow, Dex!NoRow
<1>8. ASSUME NEW r \in Requests, Dex!UpdateRow(r) PROVE DexInv'
  BY <1>8, WriteStep DEF Dex!UpdateRow
<1> QED
  BY <1>1, <1>2, <1>3, <1>4, <1>5, <1>6, <1>7, <1>8, ReadProgressStep, ReadAgainStep,
     ReadStreakStep, CommitStep DEF Dex!Next

(* Nothing was done on the first day.                                        *)
LEMMA DexInvInit == Dex!Init => DexInv
<1> SUFFICES ASSUME Dex!Init PROVE DexInv
  OBVIOUS
<1> USE DEF Dex!Init, Dex!NoRow, Dex!NoDate, Dex!NoIdentity, Dex!Gone
<1>1. DexTypes
  <2>1. LastDay \in Nat /\ 1 \in DexDays
    BY DaysAssumption DEF DexDays
  <2>2. streak \in [days : Nat, last : -2 .. LastDay] /\ streak.last <= day
    BY <2>1
  <2>3. done \in [Keys -> Nat] /\ bonuses \in [DexDays -> Nat]
    BY DEF DexDays, Dex!Days
  <2>4. stage \in -1 .. 3 /\ day \in DexDays /\ DOMAIN dexReq = Requests
    BY <2>1
  <2>5. overlapped \in BOOLEAN /\ straddled \in BOOLEAN
    OBVIOUS
  <2>6. sessions \subseteq Keys /\ activeDays \subseteq DexDays
    OBVIOUS
  <2> HIDE DEF Dex!Init
  <2> QED
    BY <2>2, <2>3, <2>4, <2>5, <2>6 DEF DexTypes
<1>2. RequestsFit
  BY DEF RequestsFit, RequestFits, RequestTypes, StageIsSeen, SessionIsNew, StreakIsSeen,
         Together, Inside
<1>3. DoneIsKept /\ StreakIsLast
  BY DEF DoneIsKept, StreakIsLast, DexDays, Dex!Days
<1>4. Dex!ActionsCountOnce
  BY DEF Dex!ActionsCountOnce, Dex!VotesOnce, Dex!ContextOncePerKey, Dex!Once, Dex!Votes,
         Dex!Drivers
<1>5. Dex!StreakFollowsDays
  <2>1. Dex!RunEndingAt(streak.last) = Cardinality(RunOf({}, streak.last))
    BY Zenon DEF Dex!RunEndingAt, RunOf, Dex!Cardinality, Cardinality
  <2>2. RunOf({}, streak.last) = {}
    BY DEF RunOf
  <2>3. Dex!StreakIsRun
    BY <2>1, <2>2, FS_EmptySet DEF Dex!StreakIsRun
  <2>4. Dex!OneBonusPerDay
    BY DEF Dex!OneBonusPerDay
  <2> QED
    BY <2>3, <2>4 DEF Dex!StreakFollowsDays
<1> QED
  BY <1>1, <1>2, <1>3, <1>4, <1>5 DEF DexInv

(* The stage falls only where transactions overlapped.                       *)
LEMMA StageStays == ASSUME DexInv, [Dex!Next]_ofDex PROVE Dex!StageFallsInOverlap
<1>1. stage \in Int
  BY DEF DexInv, DexTypes
<1>2. CASE stage' = stage
  BY <1>1, <1>2 DEF Dex!StageFallsInOverlap
<1>3. ASSUME NEW r \in Requests, Dex!Commit(r), ~Dex!Abort(r), ~overlapped
      PROVE  stage' >= stage
  BY <1>3, CommitStage
<1>4. stage' = stage \/ \E r \in Requests : Dex!Commit(r) /\ ~Dex!Abort(r)
  BY DEF ofDex, Dex!Next, Dex!NextDay, Dex!Arrive, Dex!ReadProgress, Dex!ReadAgain,
         Dex!CreateRow, Dex!UpdateRow, Dex!ReadStreak, Dex!StoreKey, Dex!RequestDies,
         Dex!ExpireKey, Dex!Abort, Dex!Move
<1> QED
  BY <1>2, <1>3, <1>4 DEF Dex!StageFallsInOverlap

-----------------------------------------------------------------------------
(* The brick sets of a day.                                                  *)

AllSets == LocalDays \X {"MORNING", "EVENING"}
SetFor(q) == <<q.day, q.kind>>
MorningOf(q) == <<q.day, "MORNING">>
Aim(q) == TargetOf[q.kind]
Left(c) == Bricks \ Sets!UsedIn(c)
MostTaken == Sets!Max({TargetOf[k] : k \in Sets!Kinds})
Excluded(q) == IF q.kind = "EVENING" THEN items[MorningOf(q)] ELSE {}

BuilderTypes(q) ==
    /\ q \in [step : Sets!Steps, day : LocalDays \cup {NoDay}, kind : {"MORNING", "EVENING"},
              cycle : 0 .. MaxRotations, exclude : SUBSET Bricks, picked : SUBSET Bricks]
    /\ q.step # "idle" => q.day \in LocalDays
    /\ q.step \in {"morning", "remaining", "close", "recreate", "pick", "insert", "items"} =>
           q.cycle \in DOMAIN ended

(* Whoever else builds: a set is filled by one builder, from what it picked, *)
(* and an evening comes after its morning.                                   *)
BuilderShares(q) ==
    /\ q.step = "insert" => Cardinality(q.picked) <= Aim(q)
    /\ q.step = "items" => /\ cycleOf[SetFor(q)] = q.cycle
                           /\ Cardinality(items[SetFor(q)] \cup q.picked) <= Aim(q)
    /\ q.step # "idle" /\ q.kind = "EVENING" => cycleOf[MorningOf(q)] # 0

(* A set is full, or there is a reason.                                      *)
Fills(q, s) ==
    \/ Cardinality(s) = Aim(q)
    \/ Cardinality(Bricks) < Aim(q)
    \/ q.kind = "EVENING" /\ cycleOf[MorningOf(q)] < q.cycle

(* Alone, a builder works in the newest cycle, and what it read still stands. *)
BuilderAlone(q) ==
    /\ q.step \in {"create", "recreate"} => \A c \in DOMAIN ended : ended[c]
    /\ q.step \in {"morning", "remaining", "close", "pick", "insert", "items"} =>
           q.cycle = Len(ended)
    /\ q.step = "close" => Cardinality(Left(q.cycle)) < Aim(q)
    /\ q.step \in {"remaining", "close", "recreate", "pick", "insert", "items"} =>
           q.exclude = Excluded(q)
    /\ q.step = "pick" =>
           Cardinality(Left(q.cycle)) >= Aim(q) \/ Cardinality(Bricks) < Aim(q)
    /\ q.step \in {"insert", "items"} => q.picked \subseteq Left(q.cycle) \ q.exclude
    /\ q.step = "insert" => Fills(q, q.picked)
    /\ q.step = "items" => Fills(q, items[SetFor(q)] \cup q.picked)
    /\ q.step = "items" /\ q.kind = "MORNING" => cycleOf[<<q.day, "EVENING">>] = 0

BuilderFits(q) == BuilderTypes(q) /\ BuilderShares(q) /\ (~setsOverlap => BuilderAlone(q))

Apart(q, p) ==
    /\ q.step = "items" /\ p.step = "items" => SetFor(q) # SetFor(p)
    /\ ~setsOverlap => q.step = "idle" \/ p.step = "idle"

BuildersFit ==
    /\ DOMAIN builder = Requests
    /\ \A b \in Requests : BuilderFits(builder[b])
    /\ \A b, o \in Requests : b # o => Apart(builder[b], builder[o])

SetTables ==
    /\ ended \in Seq(BOOLEAN) /\ Len(ended) <= MaxRotations /\ setsOverlap \in BOOLEAN
    /\ cycleOf \in [AllSets -> Nat] /\ items \in [AllSets -> SUBSET Bricks]
    /\ \A x \in AllSets : cycleOf[x] # 0 => cycleOf[x] \in DOMAIN ended
    /\ \A x \in AllSets : cycleOf[x] = 0 => items[x] = {}
    /\ \A d \in LocalDays : cycleOf[<<d, "EVENING">>] # 0 => cycleOf[<<d, "MORNING">>] # 0

InTarget ==
    /\ \A x \in AllSets : Cardinality(items[x]) <= TargetOf[x[2]]
    /\ \A x, y \in AllSets : x # y /\ cycleOf[x] = cycleOf[y] => items[x] \cap items[y] = {}

(* A cycle is ended when it was exhausted, and stays so.                     *)
CyclesInOrder ==
    ~setsOverlap =>
        /\ \A c \in DOMAIN ended : c < Len(ended) => ended[c]
        /\ \A c \in DOMAIN ended : ended[c] => Cardinality(Left(c)) < MostTaken
        /\ Sets!BrickOncePerDay

SetsInv == SetTables /\ InTarget /\ CyclesInOrder /\ BuildersFit

(* The size of a set is that of the library.                                 *)
LEMMA SetsCardinality == \A S : Sets!Cardinality(S) = Cardinality(S)
  BY Zenon DEF Sets!Cardinality, Cardinality

(* The greatest of some naturals under a bound.                              *)
LEMMA GreatestIs ==
    ASSUME NEW S, S \subseteq Nat, S # {}, NEW n \in Nat, \A m \in S : m <= n
    PROVE  Sets!Max(S) \in S /\ \A m \in S : m <= Sets!Max(S)
<1> DEFINE Gaps == {n - m : m \in S}
<1>1. Gaps \subseteq Nat /\ Gaps # {}
  <2>1. Gaps \subseteq Nat
    OBVIOUS
  <2>2. PICK m \in S : TRUE
    OBVIOUS
  <2>3. n - m \in Gaps
    OBVIOUS
  <2> QED
    BY <2>1, <2>3
<1>2. PICK g \in Gaps : \A h \in Gaps : g <= h
  BY <1>1, LeastNatural
<1>3. PICK k \in S : g = n - k
  BY <1>2
<1>4. \A m \in S : k >= m
  <2> SUFFICES ASSUME NEW m \in S PROVE k >= m
    OBVIOUS
  <2>1. n - m \in Gaps
    OBVIOUS
  <2>2. n - k <= n - m
    BY <1>2, <1>3, <2>1
  <2> QED
    BY <2>2
<1>5. \E x \in S : \A y \in S : x >= y
  BY <1>4
<1>6. Sets!Max(S) \in S /\ \A y \in S : Sets!Max(S) >= y
  BY <1>5 DEF Sets!Max
<1> QED
  BY <1>6

(* The smaller of two naturals.                                              *)
LEMMA SmallerIs ==
    ASSUME NEW a \in Nat, NEW c \in Nat
    PROVE  Sets!Min({a, c}) = IF a <= c THEN a ELSE c
<1>1. Sets!Min({a, c}) = CHOOSE x \in {a, c} : \A y \in {a, c} : x <= y
  BY DEF Sets!Min
<1>2. CASE a <= c
  BY <1>1, <1>2
<1>3. CASE ~(a <= c)
  BY <1>1, <1>3
<1> QED
  BY <1>2, <1>3

(* No target is above the largest.                                           *)
LEMMA MostTakenIs ==
    MostTaken \in Nat /\ \A k \in {"MORNING", "EVENING"} : TargetOf[k] <= MostTaken
<1> DEFINE T == {TargetOf[k] : k \in Sets!Kinds}
           m == TargetOf["MORNING"]
           e == TargetOf["EVENING"]
<1>1. m \in Nat /\ e \in Nat /\ T = {m, e}
  BY TargetsAssumption DEF Sets!Kinds
<1> HIDE DEF T, m, e
<1>2. T \subseteq Nat /\ T # {} /\ m + e \in Nat /\ \A t \in T : t <= m + e
  BY <1>1
<1>3. Sets!Max(T) \in T /\ \A t \in T : t <= Sets!Max(T)
  BY <1>2, GreatestIs
<1> QED
  BY <1>1, <1>2, <1>3 DEF MostTaken, T, m, e

(* What a cycle's sets have taken.                                           *)
LEMMA UsedIs ==
    /\ \A c, z : z \in Sets!UsedIn(c) <=> \E x \in AllSets : cycleOf[x] = c /\ z \in items[x]
    /\ \A c, z : z \in Sets!UsedIn(c)' <=> \E x \in AllSets : cycleOf'[x] = c /\ z \in items'[x]
  BY DEF Sets!UsedIn, Sets!Sets, Sets!Kinds, AllSets

(* What is left of the bricks can be counted.                                *)
LEMMA LeftFinite == \A c : /\ IsFiniteSet(Left(c)) /\ Cardinality(Left(c)) \in Nat
                           /\ Cardinality(Left(c)) <= Cardinality(Bricks)
                           /\ Cardinality(Bricks) \in Nat
<1> SUFFICES ASSUME NEW c PROVE /\ IsFiniteSet(Left(c)) /\ Cardinality(Left(c)) \in Nat
                                /\ Cardinality(Left(c)) <= Cardinality(Bricks)
                                /\ Cardinality(Bricks) \in Nat
  OBVIOUS
<1>1. Left(c) \in SUBSET Bricks
  BY DEF Left
<1> QED
  BY <1>1, BricksAssumption, FS_Subset, FS_CardinalityType

(* A step of one builder that writes no table.                               *)
LEMMA BuilderMoves ==
    ASSUME SetsInv, UNCHANGED <<ended, cycleOf, items>>, NEW b \in Requests,
           setsOverlap' \in BOOLEAN, setsOverlap => setsOverlap',
           DOMAIN builder' = Requests, \A o \in Requests \ {b} : builder'[o] = builder[o],
           BuilderFits(builder[b])',
           \A o \in Requests \ {b} : Apart(builder[b], builder[o])'
    PROVE  SetsInv'
<1> USE DEF SetsInv
<1>1. \A c : Left(c)' = Left(c)
  BY DEF Left, Sets!UsedIn
<1>2. SetTables' /\ InTarget'
  BY DEF SetTables, InTarget
<1>3. CyclesInOrder'
  BY <1>1 DEF CyclesInOrder, Sets!BrickOncePerDay
<1>4. ASSUME NEW o \in Requests \ {b} PROVE BuilderFits(builder[o])'
  <2>1. BuilderFits(builder[o]) /\ builder'[o] = builder[o]
    BY DEF BuildersFit
  <2>2. BuilderTypes(builder[o])'
    BY <2>1 DEF BuilderFits, BuilderTypes
  <2>3. BuilderShares(builder[o])'
    BY <2>1 DEF BuilderFits, BuilderShares, SetFor, MorningOf, Aim
  <2>4. ~setsOverlap' => BuilderAlone(builder[o])'
    BY <1>1, <2>1 DEF BuilderFits, BuilderAlone, SetFor, MorningOf, Aim, Fills, Excluded
  <2> QED
    BY <2>2, <2>3, <2>4 DEF BuilderFits
<1>5. ASSUME NEW p \in Requests, NEW o \in Requests, p # o PROVE Apart(builder[p], builder[o])'
  <2>1. CASE p = b
    BY <1>5, <2>1
  <2>2. CASE o = b
    <3>1. Apart(builder[b], builder[p])'
      BY <1>5, <2>2
    <3> QED
      BY <2>2, <3>1 DEF Apart, SetFor
  <2>3. CASE p # b /\ o # b
    <3>1. Apart(builder[p], builder[o]) /\ builder'[p] = builder[p] /\ builder'[o] = builder[o]
      BY <1>5, <2>3 DEF BuildersFit
    <3> QED
      BY <3>1 DEF Apart, SetFor
  <2> QED
    BY <2>1, <2>2, <2>3
<1> QED
  BY <1>2, <1>3, <1>4, <1>5 DEF BuildersFit

(* A builder at work goes on, but not to the items.                          *)
LEMMA WorkMoves ==
    ASSUME SetsInv, UNCHANGED <<ended, cycleOf, items, setsOverlap>>, NEW b \in Requests,
           builder[b].step # "idle", builder' = [builder EXCEPT ![b] = builder'[b]],
           builder'[b].step # "items", BuilderFits(builder[b])'
    PROVE  SetsInv'
<1>1. /\ DOMAIN builder' = Requests /\ \A o \in Requests \ {b} : builder'[o] = builder[o]
      /\ setsOverlap \in BOOLEAN
  BY DEF SetsInv, BuildersFit, SetTables
<1>2. \A o \in Requests \ {b} : Apart(builder[b], builder[o])'
  BY <1>1 DEF SetsInv, BuildersFit, Apart
<1> QED
  BY <1>1, <1>2, BuilderMoves

(* The step that a builder goes to is all that changes.                      *)
LEMMA GotoIs ==
    ASSUME SetsInv, NEW b \in Requests, NEW s \in Sets!Steps, Sets!Goto(b, s)
    PROVE  /\ builder' = [builder EXCEPT ![b] = builder'[b]] /\ builder'[b].step = s
           /\ builder'[b].day = builder[b].day /\ builder'[b].kind = builder[b].kind
           /\ builder'[b].cycle = builder[b].cycle /\ builder'[b].exclude = builder[b].exclude
           /\ builder'[b].picked = builder[b].picked
           /\ builder'[b] \in [step : Sets!Steps, day : LocalDays \cup {NoDay},
                               kind : {"MORNING", "EVENING"}, cycle : 0 .. MaxRotations,
                               exclude : SUBSET Bricks, picked : SUBSET Bricks]
           /\ BuilderFits(builder[b])
<1>1. /\ DOMAIN builder = Requests /\ BuilderFits(builder[b])
      /\ builder[b] \in [step : Sets!Steps, day : LocalDays \cup {NoDay},
                         kind : {"MORNING", "EVENING"}, cycle : 0 .. MaxRotations,
                         exclude : SUBSET Bricks, picked : SUBSET Bricks]
  BY DEF SetsInv, BuildersFit, BuilderFits, BuilderTypes
<1>2. builder' = [builder EXCEPT ![b] = [builder[b] EXCEPT !.step = s]]
  BY DEF Sets!Goto
<1>3. builder'[b] = [builder[b] EXCEPT !.step = s]
  BY <1>1, <1>2
<1> QED
  BY <1>1, <1>2, <1>3

(* A kind that is done fits: its set is there.                               *)
LEMMA KindDoneFits ==
    ASSUME SetsInv, NEW b \in Requests, builder[b].step # "idle", Sets!KindDone(b),
           cycleOf'[SetFor(builder[b])] # 0
    PROVE  /\ BuilderFits(builder[b])' /\ builder' = [builder EXCEPT ![b] = builder'[b]]
           /\ builder'[b].step \in {"idle", "find"}
<1> DEFINE q == IF builder[b].kind = "EVENING" THEN Sets!Idle
                ELSE [Sets!Idle EXCEPT !.step = "find", !.day = builder[b].day,
                                       !.kind = "EVENING"]
<1>1. BuilderTypes(builder[b]) /\ DOMAIN builder = Requests
  BY DEF SetsInv, BuildersFit, BuilderFits
<1>2. builder' = [builder EXCEPT ![b] = q]
  BY DEF Sets!KindDone
<1>3. builder' = [builder EXCEPT ![b] = builder'[b]]
  <2> HIDE DEF q
  <2> QED
    BY <1>1, <1>2
<1>4. CASE builder[b].kind = "EVENING"
  <2>1. builder'[b] = Sets!Idle
    BY <1>1, <1>2, <1>4
  <2>2. BuilderTypes(builder[b])'
    BY <2>1, BricksAssumption DEF BuilderTypes, Sets!Idle, Sets!Steps
  <2>3. BuilderShares(builder[b])' /\ BuilderAlone(builder[b])'
    BY <2>1 DEF BuilderShares, BuilderAlone, Sets!Idle
  <2> QED
    BY <1>3, <2>1, <2>2, <2>3 DEF BuilderFits, Sets!Idle
<1>5. CASE builder[b].kind # "EVENING"
  <2>1. builder[b].kind = "MORNING" /\ builder[b].day \in LocalDays
    BY <1>1, <1>5 DEF BuilderTypes
  <2>2. builder'[b] = [step |-> "find", day |-> builder[b].day, kind |-> "EVENING",
                       cycle |-> 0, exclude |-> {}, picked |-> {}]
    BY <1>1, <1>2, <1>5 DEF Sets!Idle
  <2>3. BuilderTypes(builder[b])'
    BY <2>1, <2>2, BricksAssumption DEF BuilderTypes, Sets!Steps
  <2>4. BuilderShares(builder[b])' /\ BuilderAlone(builder[b])'
    BY <2>1, <2>2 DEF BuilderShares, BuilderAlone, SetFor, MorningOf
  <2> QED
    BY <1>3, <2>2, <2>3, <2>4 DEF BuilderFits
<1> QED
  BY <1>4, <1>5

(* A request asks for the sets of a day.                                     *)
LEMMA AskStep ==
    ASSUME SetsInv, NEW b \in Requests, NEW d \in LocalDays, Sets!Ask(b, d) PROVE SetsInv'
<1>1. /\ DOMAIN builder = Requests /\ setsOverlap \in BOOLEAN
  BY DEF SetsInv, BuildersFit, SetTables
<1>2. /\ builder[b].step = "idle" /\ UNCHANGED <<ended, cycleOf, items>>
      /\ builder' = [builder EXCEPT ![b] = [Sets!Idle EXCEPT !.step = "find", !.day = d]]
      /\ setsOverlap' = (setsOverlap \/ \E other \in Requests : builder[other].step # "idle")
  BY DEF Sets!Ask, Sets!At, Sets!tables
<1>3. builder'[b] = [step |-> "find", day |-> d, kind |-> "MORNING", cycle |-> 0,
                     exclude |-> {}, picked |-> {}]
  BY <1>1, <1>2 DEF Sets!Idle
<1>4. \A o \in Requests \ {b} : builder'[o] = builder[o]
  BY <1>1, <1>2
<1>5. BuilderTypes(builder[b])'
  <2>1. 0 \in 0 .. MaxRotations /\ "find" \in Sets!Steps
    BY BricksAssumption DEF Sets!Steps
  <2> QED
    BY <1>3, <2>1 DEF BuilderTypes
<1>6. BuilderShares(builder[b])' /\ BuilderAlone(builder[b])'
  BY <1>3 DEF BuilderShares, BuilderAlone
<1>7. ASSUME NEW o \in Requests \ {b} PROVE Apart(builder[b], builder[o])'
  <2>1. builder'[b].step = "find" /\ builder'[o] = builder[o]
    BY <1>3, <1>4
  <2>2. builder[o].step # "idle" => setsOverlap'
    BY <1>2
  <2> QED
    BY <2>1, <2>2 DEF Apart
<1> QED
  BY <1>1, <1>2, <1>4, <1>5, <1>6, <1>7, BuilderMoves DEF BuilderFits

(* A process dies.                                                           *)
LEMMA DieStep == ASSUME SetsInv, NEW b \in Requests, Sets!Die(b) PROVE SetsInv'
<1>1. DOMAIN builder = Requests
  BY DEF SetsInv, BuildersFit
<1>2. /\ builder[b].step # "idle" /\ UNCHANGED <<ended, cycleOf, items, setsOverlap>>
      /\ builder' = [builder EXCEPT ![b] = Sets!Idle]
  BY DEF Sets!Die, Sets!At, Sets!tables
<1>3. builder'[b] = Sets!Idle /\ builder' = [builder EXCEPT ![b] = builder'[b]]
  BY <1>1, <1>2
<1>4. BuilderTypes(builder[b])'
  BY <1>3, BricksAssumption DEF BuilderTypes, Sets!Idle, Sets!Steps
<1>5. BuilderShares(builder[b])' /\ BuilderAlone(builder[b])' /\ builder'[b].step = "idle"
  BY <1>3 DEF BuilderShares, BuilderAlone, Sets!Idle
<1> QED
  BY <1>2, <1>3, <1>4, <1>5, WorkMoves DEF BuilderFits

(* The set is there, or is looked for.                                       *)
LEMMA FindStep ==
    ASSUME SetsInv, NEW b \in Requests, Sets!Find(b) \/ Sets!SetBuilt(b) PROVE SetsInv'
<1>1. /\ builder[b].step \in {"find", "items"} /\ UNCHANGED <<ended, cycleOf, items, setsOverlap>>
      /\ \/ Sets!KindDone(b) /\ (builder[b].step = "items" \/ cycleOf[SetFor(builder[b])] # 0)
         \/ Sets!Goto(b, "cycle") /\ builder[b].step = "find"
  BY DEF Sets!Find, Sets!SetBuilt, Sets!At, Sets!tables, Sets!SetOf, SetFor
<1>2. BuilderFits(builder[b])
  BY DEF SetsInv, BuildersFit
<1>3. CASE Sets!KindDone(b) /\ (builder[b].step = "items" \/ cycleOf[SetFor(builder[b])] # 0)
  <2>1. builder[b].step = "items" => cycleOf[SetFor(builder[b])] \in DOMAIN ended
    BY <1>2 DEF BuilderFits, BuilderShares, BuilderTypes
  <2>2. cycleOf'[SetFor(builder[b])] # 0
    BY <1>1, <1>3, <2>1 DEF SetsInv, SetTables
  <2> QED
    BY <1>1, <1>3, <2>2, KindDoneFits, WorkMoves
<1>4. CASE Sets!Goto(b, "cycle") /\ builder[b].step = "find"
  <2>1. "cycle" \in Sets!Steps
    BY DEF Sets!Steps
  <2>2. /\ builder' = [builder EXCEPT ![b] = builder'[b]] /\ builder'[b].step = "cycle"
        /\ builder'[b].day = builder[b].day /\ builder'[b].kind = builder[b].kind
        /\ builder'[b] \in [step : Sets!Steps, day : LocalDays \cup {NoDay},
                            kind : {"MORNING", "EVENING"}, cycle : 0 .. MaxRotations,
                            exclude : SUBSET Bricks, picked : SUBSET Bricks]
    BY <1>4, <2>1, GotoIs
  <2>3. BuilderTypes(builder[b])'
    BY <1>2, <1>4, <2>2 DEF BuilderFits, BuilderTypes
  <2>4. BuilderShares(builder[b])' /\ BuilderAlone(builder[b])'
    BY <1>1, <1>2, <1>4, <2>2 DEF BuilderFits, BuilderShares, BuilderAlone, MorningOf
  <2> QED
    BY <1>1, <1>4, <2>2, <2>3, <2>4, WorkMoves DEF BuilderFits
<1> QED
  BY <1>1, <1>3, <1>4

(* The newest open cycle is found, or none.                                  *)
LEMMA FindCycleStep == ASSUME SetsInv, NEW b \in Requests, Sets!FindCycle(b) PROVE SetsInv'
<1> DEFINE open == {c \in DOMAIN ended : ~ended[c]}
<1>1. /\ builder[b].step = "cycle" /\ UNCHANGED <<ended, cycleOf, items, setsOverlap>>
      /\ IF open = {} THEN Sets!Goto(b, "create")
         ELSE builder' = [builder EXCEPT ![b].step = "morning", ![b].cycle = Sets!Max(open)]
  BY DEF Sets!FindCycle, Sets!At, Sets!tables
<1>2. BuilderFits(builder[b]) /\ DOMAIN builder = Requests
  BY DEF SetsInv, BuildersFit
<1>3. /\ ended \in Seq(BOOLEAN) /\ DOMAIN ended = 1 .. Len(ended) /\ Len(ended) \in Nat
      /\ Len(ended) <= MaxRotations /\ MaxRotations \in Nat
  BY BricksAssumption DEF SetsInv, SetTables
<1>4. CASE open = {}
  <2>1. "create" \in Sets!Steps
    BY DEF Sets!Steps
  <2>2. /\ builder' = [builder EXCEPT ![b] = builder'[b]] /\ builder'[b].step = "create"
        /\ builder'[b].day = builder[b].day /\ builder'[b].kind = builder[b].kind
        /\ builder'[b] \in [step : Sets!Steps, day : LocalDays \cup {NoDay},
                            kind : {"MORNING", "EVENING"}, cycle : 0 .. MaxRotations,
                            exclude : SUBSET Bricks, picked : SUBSET Bricks]
    BY <1>1, <1>4, <2>1, GotoIs
  <2>3. BuilderTypes(builder[b])'
    BY <1>1, <1>2, <2>2 DEF BuilderFits, BuilderTypes
  <2>4. BuilderShares(builder[b])' /\ BuilderAlone(builder[b])'
    BY <1>1, <1>2, <1>4, <2>2 DEF BuilderFits, BuilderShares, BuilderAlone, MorningOf
  <2> QED
    BY <1>1, <2>2, <2>3, <2>4, WorkMoves DEF BuilderFits
<1>5. CASE open # {}
  <2> DEFINE m == Sets!Max(open)
  <2>1. m \in open
    <3>1. open \subseteq Nat /\ \A c \in open : c <= Len(ended)
      BY <1>3
    <3> QED
      BY <1>3, <1>5, <3>1, GreatestIs
  <2>2. ~setsOverlap => m = Len(ended)
    BY <1>3, <2>1 DEF SetsInv, CyclesInOrder
  <2>3. m \in DOMAIN ended /\ m \in 0 .. MaxRotations
    BY <1>3, <2>1
  <2> HIDE DEF m
  <2>4. builder' = [builder EXCEPT ![b] = [[builder[b] EXCEPT !.step = "morning"]
                                           EXCEPT !.cycle = m]]
    BY <1>1, <1>2, <1>5 DEF m
  <2>5. /\ builder' = [builder EXCEPT ![b] = builder'[b]] /\ builder'[b].step = "morning"
        /\ builder'[b].day = builder[b].day /\ builder'[b].kind = builder[b].kind
        /\ builder'[b].cycle = m
        /\ builder'[b] \in [step : Sets!Steps, day : LocalDays \cup {NoDay},
                            kind : {"MORNING", "EVENING"}, cycle : 0 .. MaxRotations,
                            exclude : SUBSET Bricks, picked : SUBSET Bricks]
    <3> DEFINE q == [[builder[b] EXCEPT !.step = "morning"] EXCEPT !.cycle = m]
    <3>1. builder[b] \in [step : Sets!Steps, day : LocalDays \cup {NoDay},
                          kind : {"MORNING", "EVENING"}, cycle : 0 .. MaxRotations,
                          exclude : SUBSET Bricks, picked : SUBSET Bricks]
      BY <1>2 DEF BuilderFits, BuilderTypes
    <3>2. /\ q.step = "morning" /\ q.day = builder[b].day /\ q.kind = builder[b].kind
          /\ q.cycle = m
          /\ q \in [step : Sets!Steps, day : LocalDays \cup {NoDay},
                    kind : {"MORNING", "EVENING"}, cycle : 0 .. MaxRotations,
                    exclude : SUBSET Bricks, picked : SUBSET Bricks]
      BY <2>3, <3>1 DEF Sets!Steps
    <3> HIDE DEF q
    <3>3. builder' = [builder EXCEPT ![b] = q]
      BY <2>4 DEF q
    <3> QED
      BY <1>2, <3>2, <3>3
  <2>6. BuilderTypes(builder[b])'
    BY <1>1, <1>2, <2>3, <2>5 DEF BuilderFits, BuilderTypes
  <2>7. BuilderShares(builder[b])'
    BY <1>1, <1>2, <2>5 DEF BuilderFits, BuilderShares, MorningOf
  <2>8. ~setsOverlap' => BuilderAlone(builder[b])'
    BY <1>1, <2>2, <2>5 DEF BuilderAlone
  <2> QED
    BY <1>1, <2>5, <2>6, <2>7, <2>8, WorkMoves DEF BuilderFits
<1> QED
  BY <1>4, <1>5

(* The evening reads what its morning has.                                   *)
LEMMA ReadMorningStep == ASSUME SetsInv, NEW b \in Requests, Sets!ReadMorning(b) PROVE SetsInv'
<1> DEFINE e == Excluded(builder[b])
           q == [[builder[b] EXCEPT !.step = "remaining"] EXCEPT !.exclude = e]
<1>1. BuilderFits(builder[b]) /\ DOMAIN builder = Requests
  BY DEF SetsInv, BuildersFit
<1>2. builder[b] \in [step : Sets!Steps, day : LocalDays \cup {NoDay},
                      kind : {"MORNING", "EVENING"}, cycle : 0 .. MaxRotations,
                      exclude : SUBSET Bricks, picked : SUBSET Bricks]
  BY <1>1 DEF BuilderFits, BuilderTypes
<1>3. /\ builder[b].step = "morning" /\ UNCHANGED <<ended, cycleOf, items, setsOverlap>>
      /\ builder' = [builder EXCEPT ![b] = q]
  BY <1>1 DEF Sets!ReadMorning, Sets!At, Sets!tables, Excluded, MorningOf
<1>4. e \in SUBSET Bricks
  <2>1. builder[b].day \in LocalDays
    BY <1>1, <1>3 DEF BuilderFits, BuilderTypes
  <2>2. MorningOf(builder[b]) \in AllSets
    BY <2>1 DEF MorningOf, AllSets
  <2> QED
    BY <2>2 DEF SetsInv, SetTables, Excluded
<1> HIDE DEF e
<1>5. /\ q.step = "remaining" /\ q.day = builder[b].day /\ q.kind = builder[b].kind
      /\ q.cycle = builder[b].cycle /\ q.exclude = e
      /\ q \in [step : Sets!Steps, day : LocalDays \cup {NoDay},
                kind : {"MORNING", "EVENING"}, cycle : 0 .. MaxRotations,
                exclude : SUBSET Bricks, picked : SUBSET Bricks]
  BY <1>2, <1>4 DEF Sets!Steps
<1> HIDE DEF q
<1>6. builder'[b] = q /\ builder' = [builder EXCEPT ![b] = builder'[b]]
  BY <1>1, <1>3
<1>7. BuilderTypes(builder[b])'
  BY <1>1, <1>3, <1>5, <1>6 DEF BuilderFits, BuilderTypes
<1>8. BuilderShares(builder[b])'
  BY <1>1, <1>3, <1>5, <1>6 DEF BuilderFits, BuilderShares, MorningOf
<1>9. ~setsOverlap' => BuilderAlone(builder[b])'
  BY <1>1, <1>3, <1>5, <1>6 DEF BuilderFits, BuilderAlone, Excluded, MorningOf, e
<1> QED
  BY <1>3, <1>5, <1>6, <1>7, <1>8, <1>9, WorkMoves DEF BuilderFits

(* The cycle has enough bricks left, or is closed.                           *)
LEMMA CountStep == ASSUME SetsInv, NEW b \in Requests, Sets!CountRemaining(b) PROVE SetsInv'
<1>1. /\ builder[b].step = "remaining" /\ UNCHANGED <<ended, cycleOf, items, setsOverlap>>
      /\ \/ Sets!Goto(b, "pick") /\ Cardinality(Left(builder[b].cycle)) >= Aim(builder[b])
         \/ /\ Sets!Goto(b, "close")
            /\ ~(Cardinality(Left(builder[b].cycle)) >= Aim(builder[b]))
  BY SetsCardinality DEF Sets!CountRemaining, Sets!At, Sets!tables, Left, Sets!Target, Aim
<1>2. PICK s \in {"pick", "close"} :
          /\ Sets!Goto(b, s)
          /\ s = "pick" => Cardinality(Left(builder[b].cycle)) >= Aim(builder[b])
          /\ s = "close" => ~(Cardinality(Left(builder[b].cycle)) >= Aim(builder[b]))
  BY <1>1
<1>3. s \in Sets!Steps
  BY DEF Sets!Steps
<1>4. /\ builder' = [builder EXCEPT ![b] = builder'[b]] /\ builder'[b].step = s
      /\ builder'[b].day = builder[b].day /\ builder'[b].kind = builder[b].kind
      /\ builder'[b].cycle = builder[b].cycle /\ builder'[b].exclude = builder[b].exclude
      /\ builder'[b] \in [step : Sets!Steps, day : LocalDays \cup {NoDay},
                          kind : {"MORNING", "EVENING"}, cycle : 0 .. MaxRotations,
                          exclude : SUBSET Bricks, picked : SUBSET Bricks]
      /\ BuilderFits(builder[b])
  BY <1>2, <1>3, GotoIs
<1>5. BuilderTypes(builder[b])'
  BY <1>1, <1>4 DEF BuilderFits, BuilderTypes
<1>6. BuilderShares(builder[b])'
  BY <1>1, <1>4 DEF BuilderFits, BuilderShares, MorningOf
<1>7. ~setsOverlap' => BuilderAlone(builder[b])'
  <2>1. Left(builder[b].cycle)' = Left(builder[b].cycle)
    BY <1>1, <1>4 DEF Left, Sets!UsedIn
  <2>2. Aim(builder[b]) \in Nat /\ Cardinality(Left(builder[b].cycle)) \in Nat
    BY <1>4, TargetsAssumption, LeftFinite DEF Aim, BuilderFits, BuilderTypes
  <2> QED
    BY <1>1, <1>2, <1>4, <2>1, <2>2 DEF BuilderFits, BuilderAlone, Excluded, MorningOf, Aim
<1> QED
  BY <1>1, <1>2, <1>4, <1>5, <1>6, <1>7, WorkMoves DEF BuilderFits

(* The bricks are chosen: as many as the set takes, if there are so many.    *)
LEMMA PickStep == ASSUME SetsInv, NEW b \in Requests, Sets!Pick(b) PROVE SetsInv'
<1> DEFINE old == builder[b]
           eligible == Left(old.cycle) \ old.exclude
           aim == Aim(old)
           size == Sets!Min({aim, Cardinality(eligible)})
<1>1. BuilderFits(old) /\ DOMAIN builder = Requests
  BY DEF SetsInv, BuildersFit
<1>2. old \in [step : Sets!Steps, day : LocalDays \cup {NoDay},
               kind : {"MORNING", "EVENING"}, cycle : 0 .. MaxRotations,
               exclude : SUBSET Bricks, picked : SUBSET Bricks]
  BY <1>1 DEF BuilderFits, BuilderTypes
<1>3. /\ old.step = "pick" /\ UNCHANGED <<ended, cycleOf, items, setsOverlap>>
      /\ \E picked \in Sets!kSubset(size, eligible) :
             builder' = [builder EXCEPT ![b].step = "insert", ![b].picked = picked]
  BY SetsCardinality DEF Sets!Pick, Sets!At, Sets!tables, Left, Sets!Target, Aim
<1>4. PICK picked : /\ picked \in SUBSET eligible /\ Cardinality(picked) = size
                    /\ builder' = [builder EXCEPT ![b].step = "insert", ![b].picked = picked]
  BY <1>3, SetsCardinality DEF Sets!kSubset
<1>5. /\ aim \in Nat /\ Cardinality(eligible) \in Nat
      /\ size = IF aim <= Cardinality(eligible) THEN aim ELSE Cardinality(eligible)
  <2>1. aim \in Nat
    BY <1>2, TargetsAssumption DEF Aim
  <2>2. Cardinality(eligible) \in Nat
    <3>1. eligible \in SUBSET Left(old.cycle) /\ IsFiniteSet(Left(old.cycle))
      BY LeftFinite
    <3> QED
      BY <3>1, FS_Subset, FS_CardinalityType
  <2> QED
    BY <2>1, <2>2, SmallerIs
<1>6. ~setsOverlap => Fills(old, picked)
  <2> SUFFICES ASSUME ~setsOverlap PROVE Fills(old, picked)
    OBVIOUS
  <2>1. /\ old.cycle = Len(ended) /\ old.exclude = Excluded(old)
        /\ Cardinality(Left(old.cycle)) >= aim \/ Cardinality(Bricks) < aim
    BY <1>1, <1>3 DEF BuilderFits, BuilderAlone
  <2>2. CASE Cardinality(Bricks) < aim
    BY <2>2 DEF Fills
  <2>3. CASE Cardinality(Left(old.cycle)) >= aim /\ eligible = Left(old.cycle)
    BY <1>4, <1>5, <2>3 DEF Fills
  <2>4. CASE eligible # Left(old.cycle)
    <3>1. PICK z \in old.exclude : z \in Left(old.cycle)
      BY <2>4
    <3>2. old.kind = "EVENING" /\ z \in items[MorningOf(old)]
      BY <2>1, <3>1 DEF Excluded
    <3>3. MorningOf(old) \in AllSets
      BY <1>1, <1>3 DEF BuilderFits, BuilderTypes, MorningOf, AllSets
    <3>4. cycleOf[MorningOf(old)] # old.cycle
      BY <3>1, <3>2, <3>3, UsedIs DEF Left
    <3>5. cycleOf[MorningOf(old)] \in Nat /\ cycleOf[MorningOf(old)] <= Len(ended)
          /\ Len(ended) \in Nat
      BY <3>3 DEF SetsInv, SetTables
    <3> QED
      BY <2>1, <3>2, <3>4, <3>5 DEF Fills
  <2> QED
    BY <2>1, <2>2, <2>3, <2>4
<1> DEFINE q == [[old EXCEPT !.step = "insert"] EXCEPT !.picked = picked]
<1>7. picked \in SUBSET Bricks /\ picked \subseteq Left(old.cycle) \ old.exclude
  BY <1>4 DEF Left
<1>8. /\ q.step = "insert" /\ q.day = old.day /\ q.kind = old.kind
      /\ q.cycle = old.cycle /\ q.exclude = old.exclude /\ q.picked = picked
      /\ q \in [step : Sets!Steps, day : LocalDays \cup {NoDay},
                kind : {"MORNING", "EVENING"}, cycle : 0 .. MaxRotations,
                exclude : SUBSET Bricks, picked : SUBSET Bricks]
  BY <1>2, <1>7 DEF Sets!Steps
<1>9. builder' = [builder EXCEPT ![b] = q]
  BY <1>1, <1>4
<1> HIDE DEF q
<1>10. builder'[b] = q /\ builder' = [builder EXCEPT ![b] = builder'[b]]
  BY <1>1, <1>9
<1>11. BuilderTypes(builder[b])'
  BY <1>1, <1>3, <1>8, <1>10 DEF BuilderFits, BuilderTypes
<1>12. BuilderShares(builder[b])'
  <2>1. Cardinality(picked) <= aim
    BY <1>4, <1>5
  <2> QED
    BY <1>1, <1>3, <1>8, <1>10, <2>1 DEF BuilderFits, BuilderShares, MorningOf, Aim
<1>13. ~setsOverlap' => BuilderAlone(builder[b])'
  <2>1. Left(old.cycle) = Bricks \ Sets!UsedIn(old.cycle)
        /\ Left(builder[b].cycle)' = Left(old.cycle)
    BY <1>3, <1>8, <1>10 DEF Left, Sets!UsedIn
  <2> QED
    BY <1>1, <1>3, <1>6, <1>7, <1>8, <1>10, <2>1
       DEF BuilderFits, BuilderAlone, Excluded, MorningOf, Fills, Aim
<1> QED
  BY <1>3, <1>8, <1>10, <1>11, <1>12, <1>13, WorkMoves DEF BuilderFits

(* The other builders beside one that writes a table: what they hold stands, *)
(* and if it was alone they are idle.                                        *)
LEMMA OthersFit ==
    ASSUME SetsInv, NEW b \in Requests, builder[b].step # "idle", setsOverlap' = setsOverlap,
           builder' = [builder EXCEPT ![b] = builder'[b]],
           DOMAIN ended \subseteq DOMAIN ended',
           \A x \in AllSets : cycleOf[x] # 0 => cycleOf'[x] = cycleOf[x],
           \A x \in AllSets : items'[x] # items[x] =>
               builder[b].step = "items" /\ x = SetFor(builder[b]),
           BuilderFits(builder[b])',
           builder'[b].step = "items" =>
               /\ SetFor(builder[b])' = SetFor(builder[b])
               /\ builder[b].step = "items" \/ cycleOf[SetFor(builder[b])] = 0
    PROVE  BuildersFit'
<1>1. /\ DOMAIN builder = Requests /\ DOMAIN builder' = Requests
      /\ \A o \in Requests \ {b} : builder'[o] = builder[o]
  BY DEF SetsInv, BuildersFit
<1>2. ASSUME NEW o \in Requests \ {b}
      PROVE  /\ BuilderFits(builder[o]) /\ Apart(builder[b], builder[o])
             /\ Apart(builder[o], builder[b]) /\ builder'[o] = builder[o]
  BY <1>1 DEF SetsInv, BuildersFit
<1>3. ASSUME NEW o \in Requests \ {b} PROVE BuilderFits(builder[o])'
  <2>1. BuilderTypes(builder[o])'
    BY <1>2 DEF BuilderFits, BuilderTypes
  <2>2. BuilderShares(builder[o])'
    <3> DEFINE p == builder[o]
    <3>1. /\ BuilderTypes(p) /\ BuilderShares(p) /\ builder'[o] = p
      BY <1>2 DEF BuilderFits
    <3>2. p.step # "idle" => SetFor(p) \in AllSets /\ MorningOf(p) \in AllSets
      BY <3>1 DEF BuilderTypes, SetFor, MorningOf, AllSets
    <3>3. p.step = "items" => /\ cycleOf[SetFor(p)] # 0
                              /\ items'[SetFor(p)] = items[SetFor(p)]
      <4>1. p.step = "items" => p.cycle # 0
        BY <3>1 DEF BuilderTypes, SetsInv, SetTables
      <4>2. p.step = "items" /\ builder[b].step = "items" => SetFor(p) # SetFor(builder[b])
        BY <1>2 DEF Apart
      <4> QED
        BY <3>1, <3>2, <4>1, <4>2 DEF BuilderShares
    <3> HIDE DEF p
    <3> QED
      BY <3>1, <3>2, <3>3 DEF BuilderShares, SetFor, MorningOf, Aim
  <2>3. ~setsOverlap' => BuilderAlone(builder[o])'
    <3>1. ~setsOverlap' => builder'[o].step = "idle"
      BY <1>2 DEF Apart
    <3> QED
      BY <3>1 DEF BuilderAlone
  <2> QED
    BY <2>1, <2>2, <2>3 DEF BuilderFits
<1>4. ASSUME NEW o \in Requests \ {b}
      PROVE  Apart(builder[b], builder[o])' /\ Apart(builder[o], builder[b])'
  <2> DEFINE p == builder[o]
  <2>1. /\ BuilderTypes(p) /\ BuilderShares(p) /\ builder'[o] = p
    BY <1>2 DEF BuilderFits
  <2>2. p.step = "items" => cycleOf[SetFor(p)] # 0
    BY <2>1 DEF BuilderTypes, BuilderShares, SetsInv, SetTables
  <2>3. p.step = "items" /\ builder'[b].step = "items" => SetFor(p) # SetFor(builder[b])'
    BY <1>2, <2>2 DEF Apart
  <2>4. ~setsOverlap' => p.step = "idle"
    BY <1>2 DEF Apart
  <2> HIDE DEF p
  <2> QED
    BY <2>1, <2>3, <2>4 DEF Apart, SetFor
<1>5. \A p, o \in Requests : p # o => Apart(builder[p], builder[o])'
  <2> SUFFICES ASSUME NEW p \in Requests, NEW o \in Requests, p # o
               PROVE  Apart(builder[p], builder[o])'
    OBVIOUS
  <2>1. CASE p = b \/ o = b
    BY <1>4, <2>1
  <2>2. CASE p # b /\ o # b
    <3>1. Apart(builder[p], builder[o]) /\ builder'[p] = builder[p] /\ builder'[o] = builder[o]
      BY <1>1, <2>2 DEF SetsInv, BuildersFit
    <3> QED
      BY <3>1 DEF Apart, SetFor
  <2> QED
    BY <2>1, <2>2
<1> QED
  BY <1>1, <1>3, <1>5 DEF BuildersFit

(* With more taken, less is left.                                            *)
LEMMA LeftShrinks ==
    ASSUME NEW c, \A z \in Sets!UsedIn(c) : z \in Sets!UsedIn(c)'
    PROVE  Cardinality(Left(c)') <= Cardinality(Left(c))
<1>1. Left(c)' \in SUBSET Left(c)
  BY DEF Left
<1> QED
  BY <1>1, LeftFinite, FS_Subset

(* A cycle is begun.                                                         *)
LEMMA NewCycleStep ==
    ASSUME SetsInv, NEW b \in Requests, Sets!CreateCycle(b) \/ Sets!OpenNextCycle(b)
    PROVE  SetsInv'
<1> DEFINE old == builder[b]
<1>0. PICK n : n = Len(ended) + 1
  OBVIOUS
<1>1. PICK from \in {"create", "recreate"}, to \in {"morning", "pick"} :
          Sets!NewCycle(b, from, to) /\ (to = "pick" <=> from = "recreate")
  BY DEF Sets!CreateCycle, Sets!OpenNextCycle
<1>2. /\ old.step = from /\ Len(ended) < MaxRotations /\ ended' = Append(ended, FALSE)
      /\ builder' = [builder EXCEPT ![b].step = to, ![b].cycle = n]
      /\ UNCHANGED <<cycleOf, items, setsOverlap>>
  BY <1>0, <1>1 DEF Sets!NewCycle, Sets!At
<1>3. BuilderFits(old) /\ DOMAIN builder = Requests
  BY DEF SetsInv, BuildersFit
<1>4. old \in [step : Sets!Steps, day : LocalDays \cup {NoDay},
               kind : {"MORNING", "EVENING"}, cycle : 0 .. MaxRotations,
               exclude : SUBSET Bricks, picked : SUBSET Bricks]
  BY <1>3 DEF BuilderFits, BuilderTypes
<1>5. /\ ended \in Seq(BOOLEAN) /\ DOMAIN ended = 1 .. Len(ended) /\ Len(ended) \in Nat
      /\ MaxRotations \in Nat
  BY BricksAssumption DEF SetsInv, SetTables
<1>6. /\ ended' \in Seq(BOOLEAN) /\ Len(ended') = n /\ DOMAIN ended' = 1 .. n
      /\ \A c \in DOMAIN ended : ended'[c] = ended[c]
      /\ ended'[n] = FALSE /\ n \in 1 .. MaxRotations /\ n \in 0 .. MaxRotations
  BY <1>0, <1>2, <1>5
<1>7. \A c : Left(c)' = Left(c)
  BY <1>2 DEF Left, Sets!UsedIn
<1>8. Left(n) = Bricks
  <2>1. \A x \in AllSets : cycleOf[x] # n
    BY <1>0, <1>5 DEF SetsInv, SetTables
  <2> QED
    BY <2>1, UsedIs DEF Left
<1>20. PICK q : q = [[old EXCEPT !.step = to] EXCEPT !.cycle = n]
  OBVIOUS
<1>9. /\ q.step = to /\ q.day = old.day /\ q.kind = old.kind
      /\ q.cycle = n /\ q.exclude = old.exclude
      /\ q \in [step : Sets!Steps, day : LocalDays \cup {NoDay},
                kind : {"MORNING", "EVENING"}, cycle : 0 .. MaxRotations,
                exclude : SUBSET Bricks, picked : SUBSET Bricks]
  BY <1>4, <1>6, <1>20 DEF Sets!Steps
<1>10. builder' = [builder EXCEPT ![b] = q]
  BY <1>2, <1>3, <1>20
<1>11. builder'[b] = q /\ builder' = [builder EXCEPT ![b] = builder'[b]]
  BY <1>3, <1>10
<1>12. BuilderTypes(builder[b])'
  BY <1>2, <1>3, <1>6, <1>9, <1>11 DEF BuilderFits, BuilderTypes
<1>13. BuilderShares(builder[b])'
  BY <1>2, <1>3, <1>9, <1>11 DEF BuilderFits, BuilderShares, MorningOf
<1>14. ~setsOverlap' => BuilderAlone(builder[b])'
  <2> SUFFICES ASSUME ~setsOverlap PROVE BuilderAlone(builder[b])'
    BY <1>2
  <2>1. to = "pick" => q.exclude = Excluded(q)'
    BY <1>1, <1>2, <1>3, <1>9 DEF BuilderFits, BuilderAlone, Excluded, MorningOf
  <2>2. Cardinality(Left(n)') >= Aim(q) \/ Cardinality(Bricks) < Aim(q)
    <3>1. Aim(q) \in Nat /\ Cardinality(Bricks) \in Nat
      BY <1>9, TargetsAssumption, LeftFinite DEF Aim
    <3> QED
      BY <1>7, <1>8, <3>1
  <2> QED
    BY <1>6, <1>9, <1>11, <2>1, <2>2 DEF BuilderAlone, Excluded, MorningOf, Aim
<1>15. BuildersFit'
  <2>1. DOMAIN ended \subseteq DOMAIN ended'
    BY <1>0, <1>5, <1>6
  <2> QED
    BY <1>2, <1>9, <1>11, <1>12, <1>13, <1>14, <2>1, OthersFit DEF BuilderFits
<1>16. SetTables' /\ InTarget'
  BY <1>2, <1>5, <1>6 DEF SetsInv, SetTables, InTarget
<1>17. CyclesInOrder'
  <2> SUFFICES ASSUME ~setsOverlap
               PROVE  /\ \A c \in 1 .. n : c < n => ended'[c]
                      /\ \A c \in 1 .. n : ended'[c] => Cardinality(Left(c)') < MostTaken
                      /\ Sets!BrickOncePerDay'
    BY <1>2, <1>6 DEF CyclesInOrder
  <2>1. \A c \in DOMAIN ended : ended[c] /\ Cardinality(Left(c)) < MostTaken
    BY <1>1, <1>2, <1>3 DEF BuilderFits, BuilderAlone, SetsInv, CyclesInOrder
  <2>2. \A c \in 1 .. n : c \in DOMAIN ended \/ c = n
    BY <1>0, <1>5
  <2>3. Sets!BrickOncePerDay'
    BY <1>2 DEF SetsInv, CyclesInOrder, Sets!BrickOncePerDay
  <2> QED
    BY <1>5, <1>6, <1>7, <2>1, <2>2, <2>3
<1> QED
  BY <1>15, <1>16, <1>17 DEF SetsInv

(* An exhausted cycle is closed.                                             *)
LEMMA CloseCycleStep == ASSUME SetsInv, NEW b \in Requests, Sets!CloseCycle(b) PROVE SetsInv'
<1> DEFINE k == builder[b].cycle
<1>1. /\ builder[b].step = "close" /\ ended' = [ended EXCEPT ![k] = TRUE]
      /\ Sets!Goto(b, "recreate") /\ UNCHANGED <<cycleOf, items, setsOverlap>>
  BY DEF Sets!CloseCycle, Sets!At
<1>2. "recreate" \in Sets!Steps
  BY DEF Sets!Steps
<1>3. /\ builder' = [builder EXCEPT ![b] = builder'[b]] /\ builder'[b].step = "recreate"
      /\ builder'[b].day = builder[b].day /\ builder'[b].kind = builder[b].kind
      /\ builder'[b].cycle = k /\ builder'[b].exclude = builder[b].exclude
      /\ builder'[b] \in [step : Sets!Steps, day : LocalDays \cup {NoDay},
                          kind : {"MORNING", "EVENING"}, cycle : 0 .. MaxRotations,
                          exclude : SUBSET Bricks, picked : SUBSET Bricks]
      /\ BuilderFits(builder[b])
  BY <1>1, <1>2, GotoIs
<1>4. /\ ended \in Seq(BOOLEAN) /\ DOMAIN ended = 1 .. Len(ended) /\ Len(ended) \in Nat
      /\ k \in DOMAIN ended
  BY <1>1, <1>3 DEF SetsInv, SetTables, BuilderFits, BuilderTypes
<1>5. /\ ended' \in Seq(BOOLEAN) /\ DOMAIN ended' = DOMAIN ended /\ Len(ended') = Len(ended)
      /\ ended'[k] = TRUE /\ \A c \in DOMAIN ended \ {k} : ended'[c] = ended[c]
  <2>1. ended \in [1 .. Len(ended) -> BOOLEAN]
    BY <1>4
  <2>2. /\ ended' \in [1 .. Len(ended) -> BOOLEAN] /\ ended'[k] = TRUE
        /\ \A c \in 1 .. Len(ended) : c # k => ended'[c] = ended[c]
    BY <1>1, <1>4, <2>1
  <2>3. ended' \in Seq(BOOLEAN)
    BY <1>4, <2>2
  <2>4. DOMAIN ended' = 1 .. Len(ended')
    BY <2>3
  <2> QED
    BY <1>4, <2>2, <2>3, <2>4
<1>6. \A c : Left(c)' = Left(c)
  BY <1>1 DEF Left, Sets!UsedIn
<1>7. ~setsOverlap => \A c \in DOMAIN ended : ended'[c]
  BY <1>1, <1>3, <1>4, <1>5 DEF BuilderFits, BuilderAlone, SetsInv, CyclesInOrder
<1>8. BuilderTypes(builder[b])'
  BY <1>1, <1>3, <1>5 DEF BuilderFits, BuilderTypes
<1>9. BuilderShares(builder[b])'
  BY <1>1, <1>3 DEF BuilderFits, BuilderShares, MorningOf
<1>10. ~setsOverlap' => BuilderAlone(builder[b])'
  BY <1>1, <1>3, <1>5, <1>7 DEF BuilderFits, BuilderAlone, Excluded, MorningOf
<1>11. BuildersFit'
  BY <1>1, <1>3, <1>5, <1>8, <1>9, <1>10, OthersFit DEF BuilderFits
<1>12. SetTables' /\ InTarget'
  BY <1>1, <1>5 DEF SetsInv, SetTables, InTarget
<1>13. CyclesInOrder'
  <2> SUFFICES ASSUME ~setsOverlap
               PROVE  /\ \A c \in DOMAIN ended : ended'[c]
                      /\ \A c \in DOMAIN ended : Cardinality(Left(c)) < MostTaken
                      /\ Sets!BrickOncePerDay'
    BY <1>1, <1>5, <1>6 DEF CyclesInOrder
  <2>1. Cardinality(Left(k)) < MostTaken
    <3>1. /\ Cardinality(Left(k)) < Aim(builder[b]) /\ Aim(builder[b]) <= MostTaken
          /\ Aim(builder[b]) \in Nat
      BY <1>1, <1>3, MostTakenIs, TargetsAssumption
         DEF BuilderFits, BuilderAlone, BuilderTypes, Aim
    <3>2. MostTaken \in Nat
      BY MostTakenIs
    <3> QED
      BY <3>1, <3>2, LeftFinite
  <2>2. \A c \in DOMAIN ended \ {k} : Cardinality(Left(c)) < MostTaken
    <3>1. k = Len(ended)
      BY <1>1, <1>3 DEF BuilderFits, BuilderAlone
    <3> QED
      BY <1>4, <3>1 DEF SetsInv, CyclesInOrder
  <2>3. Sets!BrickOncePerDay'
    BY <1>1 DEF SetsInv, CyclesInOrder, Sets!BrickOncePerDay
  <2> QED
    BY <1>7, <2>1, <2>2, <2>3
<1> QED
  BY <1>11, <1>12, <1>13 DEF SetsInv

(* The row of a set is inserted, by one of its builders.                     *)
LEMMA InsertSetStep == ASSUME SetsInv, NEW b \in Requests, Sets!InsertSet(b) PROVE SetsInv'
<1>1. PICK old, s : old = builder[b] /\ s = SetFor(old)
  OBVIOUS
<1>2. /\ old.step = "insert" /\ UNCHANGED <<ended, items, setsOverlap>>
      /\ \/ /\ cycleOf[s] = 0 /\ cycleOf' = [cycleOf EXCEPT ![s] = old.cycle]
            /\ Sets!Goto(b, "items")
         \/ cycleOf[s] # 0 /\ Sets!KindDone(b) /\ UNCHANGED cycleOf
  BY <1>1 DEF Sets!InsertSet, Sets!At, Sets!SetOf, SetFor
<1>3. BuilderFits(old)
  BY <1>1 DEF SetsInv, BuildersFit
<1>4. /\ old.day \in LocalDays /\ old.kind \in {"MORNING", "EVENING"}
      /\ old.cycle \in DOMAIN ended /\ old.cycle \in Nat /\ old.cycle # 0
  BY <1>2, <1>3 DEF BuilderFits, BuilderTypes, SetsInv, SetTables
<1>5. s = <<old.day, old.kind>> /\ s \in AllSets
  BY <1>1, <1>4 DEF SetFor, AllSets
<1>6. CASE cycleOf[s] # 0 /\ Sets!KindDone(b) /\ UNCHANGED cycleOf
  BY <1>1, <1>2, <1>6, KindDoneFits, WorkMoves
<1>7. CASE /\ cycleOf[s] = 0 /\ cycleOf' = [cycleOf EXCEPT ![s] = old.cycle]
           /\ Sets!Goto(b, "items")
  <2>1. /\ cycleOf'[s] = old.cycle /\ \A x \in AllSets \ {s} : cycleOf'[x] = cycleOf[x]
        /\ cycleOf' \in [AllSets -> Nat]
    BY <1>4, <1>5, <1>7 DEF SetsInv, SetTables
  <2>2. items[s] = {}
    BY <1>5, <1>7 DEF SetsInv, SetTables
  <2>3. \A c : Left(c)' = Left(c)
    <3>1. \A c, z : z \in Sets!UsedIn(c)' <=> z \in Sets!UsedIn(c)
      BY <1>2, <2>1, <2>2, UsedIs
    <3> QED
      BY <3>1 DEF Left
  <2>4. "items" \in Sets!Steps
    BY DEF Sets!Steps
  <2>5. PICK q : q = builder'[b]
    OBVIOUS
  <2>6. /\ builder' = [builder EXCEPT ![b] = q] /\ q.step = "items" /\ q.day = old.day
        /\ q.kind = old.kind /\ q.cycle = old.cycle /\ q.exclude = old.exclude
        /\ q.picked = old.picked
        /\ q \in [step : Sets!Steps, day : LocalDays \cup {NoDay}, kind : {"MORNING", "EVENING"},
                  cycle : 0 .. MaxRotations, exclude : SUBSET Bricks, picked : SUBSET Bricks]
    BY <1>1, <1>7, <2>4, <2>5, GotoIs
  <2>7. BuilderTypes(q)'
    BY <1>2, <1>4, <2>6 DEF BuilderTypes
  <2>8. SetFor(q) = s /\ (q.kind = "EVENING" => MorningOf(q) \in AllSets \ {s})
    BY <1>4, <1>5, <2>6 DEF SetFor, MorningOf, AllSets
  <2>9. BuilderShares(q)'
    <3>1. /\ Cardinality(old.picked) <= Aim(q)
          /\ old.kind = "EVENING" => cycleOf[MorningOf(q)] # 0
      BY <1>2, <1>3, <2>6 DEF BuilderFits, BuilderShares, Aim, MorningOf
    <3>2. SetFor(q)' = s /\ MorningOf(q)' = MorningOf(q) /\ Aim(q)' = Aim(q)
      BY <2>8 DEF SetFor, MorningOf, Aim
    <3>3. items'[s] \cup q.picked = old.picked
      BY <1>2, <2>2, <2>6
    <3> QED
      BY <2>1, <2>6, <2>8, <3>1, <3>2, <3>3 DEF BuilderShares
  <2>10. ASSUME ~setsOverlap PROVE BuilderAlone(q)'
    <3>1. /\ old.cycle = Len(ended) /\ old.exclude = Excluded(old)
          /\ old.picked \subseteq Left(old.cycle) \ old.exclude /\ Fills(old, old.picked)
      BY <1>2, <1>3, <2>10 DEF BuilderFits, BuilderAlone
    <3>2. Excluded(q)' = old.exclude
      BY <1>2, <2>6, <3>1 DEF Excluded, MorningOf
    <3>3. Fills(q, items[SetFor(q)] \cup q.picked)'
      <4>1. SetFor(q)' = s /\ items'[s] \cup q.picked = old.picked
        BY <1>2, <2>2, <2>6, <2>8 DEF SetFor
      <4>2. Fills(q, old.picked)'
        BY <2>1, <2>6, <2>8, <3>1 DEF Fills, Aim, MorningOf
      <4> QED
        BY <4>1, <4>2 DEF Fills
    <3>4. q.kind = "MORNING" => cycleOf'[<<q.day, "EVENING">>] = 0
      <4>1. <<old.day, "EVENING">> \in AllSets
        BY <1>4 DEF AllSets
      <4>2. old.kind = "MORNING" => cycleOf[<<old.day, "EVENING">>] = 0
        BY <1>4, <1>5, <1>7 DEF SetsInv, SetTables
      <4> QED
        BY <1>5, <2>1, <2>6, <4>1, <4>2
    <3> QED
      BY <1>2, <2>3, <2>6, <3>1, <3>2, <3>3, <3>4 DEF BuilderAlone
  <2>11. BuilderFits(builder[b])'
    BY <1>2, <2>5, <2>7, <2>9, <2>10 DEF BuilderFits, BuilderTypes, BuilderShares, BuilderAlone,
       Excluded, MorningOf, SetFor, Aim, Fills
  <2>12. BuildersFit'
    <3>1. SetFor(builder[b])' = SetFor(builder[b])
      BY <1>1, <2>5, <2>6 DEF SetFor
    <3>2. \A x \in AllSets : cycleOf[x] # 0 => cycleOf'[x] = cycleOf[x]
      BY <1>7, <2>1
    <3> QED
      BY <1>1, <1>2, <1>7, <2>5, <2>6, <2>11, <3>1, <3>2, OthersFit
  <2>13. SetTables'
    <3>1. \A x \in AllSets : cycleOf'[x] # 0 => cycleOf'[x] \in DOMAIN ended'
      BY <1>2, <1>4, <2>1 DEF SetsInv, SetTables
    <3>2. \A x \in AllSets : cycleOf'[x] = 0 => items'[x] = {}
      BY <1>2, <2>1, <2>2 DEF SetsInv, SetTables
    <3>3. ASSUME NEW d \in LocalDays, cycleOf'[<<d, "EVENING">>] # 0
          PROVE  cycleOf'[<<d, "MORNING">>] # 0
      <4>1. /\ <<d, "EVENING">> \in AllSets /\ <<d, "MORNING">> \in AllSets
            /\ cycleOf[<<d, "EVENING">>] # 0 => cycleOf[<<d, "MORNING">>] # 0
        BY DEF AllSets, SetsInv, SetTables
      <4>2. CASE <<d, "EVENING">> = s
        <5>1. old.kind = "EVENING" /\ MorningOf(old) = <<d, "MORNING">>
          BY <1>5, <4>2 DEF MorningOf
        <5>2. cycleOf[<<d, "MORNING">>] # 0
          BY <1>2, <1>3, <5>1 DEF BuilderFits, BuilderShares
        <5> QED
          BY <1>7, <2>1, <4>1, <5>2
      <4>3. CASE <<d, "EVENING">> # s
        BY <1>4, <2>1, <3>3, <4>1, <4>3
      <4> QED
        BY <4>2, <4>3
    <3> QED
      BY <1>2, <2>1, <3>1, <3>2, <3>3 DEF SetsInv, SetTables
  <2>14. InTarget'
    BY <1>2, <2>1, <2>2 DEF SetsInv, InTarget
  <2>15. CyclesInOrder'
    BY <1>2, <2>3 DEF SetsInv, CyclesInOrder, Sets!BrickOncePerDay
  <2> QED
    BY <2>12, <2>13, <2>14, <2>15 DEF SetsInv
<1> QED
  BY <1>2, <1>6, <1>7

(* A brick of the choice is inserted, or skipped.                            *)
LEMMA InsertItemStep == ASSUME SetsInv, NEW b \in Requests, Sets!InsertItem(b) PROVE SetsInv'
<1>1. PICK old, s : old = builder[b] /\ s = SetFor(old)
  OBVIOUS
<1>2. /\ old.step = "items" /\ UNCHANGED <<ended, cycleOf, setsOverlap>>
      /\ \E x \in old.picked :
            /\ builder' = [builder EXCEPT ![b].picked = @ \ {x}]
            /\ items' = IF x \in Sets!UsedIn(old.cycle) THEN items
                        ELSE [items EXCEPT ![s] = @ \cup {x}]
  BY <1>1 DEF Sets!InsertItem, Sets!At, Sets!SetOf, SetFor
<1>3. PICK z \in old.picked :
            /\ builder' = [builder EXCEPT ![b].picked = @ \ {z}]
            /\ items' = IF z \in Sets!UsedIn(old.cycle) THEN items
                        ELSE [items EXCEPT ![s] = @ \cup {z}]
  BY <1>2
<1>4. BuilderFits(old) /\ DOMAIN builder = Requests
  BY <1>1 DEF SetsInv, BuildersFit
<1>5. /\ old \in [step : Sets!Steps, day : LocalDays \cup {NoDay}, kind : {"MORNING", "EVENING"},
                  cycle : 0 .. MaxRotations, exclude : SUBSET Bricks, picked : SUBSET Bricks]
      /\ old.day \in LocalDays /\ old.cycle \in DOMAIN ended
  BY <1>2, <1>4 DEF BuilderFits, BuilderTypes
<1>6. s = <<old.day, old.kind>> /\ s \in AllSets /\ cycleOf[s] = old.cycle /\ old.cycle # 0
  BY <1>1, <1>2, <1>4, <1>5 DEF SetFor, AllSets, BuilderFits, BuilderShares, SetsInv, SetTables
<1>7. PICK q : q = [old EXCEPT !.picked = old.picked \ {z}]
  OBVIOUS
<1>8. /\ q.step = "items" /\ q.day = old.day /\ q.kind = old.kind /\ q.cycle = old.cycle
      /\ q.exclude = old.exclude /\ q.picked = old.picked \ {z}
      /\ q \in [step : Sets!Steps, day : LocalDays \cup {NoDay}, kind : {"MORNING", "EVENING"},
                cycle : 0 .. MaxRotations, exclude : SUBSET Bricks, picked : SUBSET Bricks]
  BY <1>2, <1>5, <1>7
<1>9. builder'[b] = q /\ builder' = [builder EXCEPT ![b] = q]
  BY <1>1, <1>3, <1>4, <1>7
<1>10. /\ items' \in [AllSets -> SUBSET Bricks]
       /\ \A x \in AllSets \ {s} : items'[x] = items[x]
       /\ items'[s] = IF z \in Sets!UsedIn(old.cycle) THEN items[s] ELSE items[s] \cup {z}
  <2>1. items \in [AllSets -> SUBSET Bricks] /\ z \in Bricks
    BY <1>3, <1>5 DEF SetsInv, SetTables
  <2> QED
    BY <1>3, <1>6, <2>1
<1>11. \A c, y : y \in Sets!UsedIn(c) => y \in Sets!UsedIn(c)'
  BY <1>2, <1>10, UsedIs
<1>12. \A c, y : y \in Sets!UsedIn(c)' => y \in Sets!UsedIn(c) \/ y = z
  BY <1>2, <1>10, UsedIs
<1>13. /\ IsFiniteSet(items[s] \cup old.picked)
       /\ Cardinality(items[s] \cup old.picked) <= Aim(old) /\ Aim(old) \in Nat
       /\ Cardinality(items[s] \cup old.picked) \in Nat
  <2>1. items[s] \cup old.picked \in SUBSET Bricks
    BY <1>5, <1>6 DEF SetsInv, SetTables
  <2>2. IsFiniteSet(items[s] \cup old.picked)
    BY <2>1, BricksAssumption, FS_Subset
  <2>3. Aim(old) \in Nat
    BY <1>5, TargetsAssumption DEF Aim
  <2> QED
    BY <1>1, <1>2, <1>4, <2>2, <2>3, FS_CardinalityType DEF BuilderFits, BuilderShares
<1>14. BuilderTypes(q)'
  BY <1>2, <1>5, <1>8 DEF BuilderTypes
<1>15. SetFor(q)' = s /\ MorningOf(q)' = MorningOf(old) /\ Aim(q)' = Aim(old)
  BY <1>6, <1>8 DEF SetFor, MorningOf, Aim
<1>16. BuilderShares(q)'
  <2>1. items'[s] \cup q.picked \in SUBSET (items[s] \cup old.picked)
    BY <1>3, <1>8, <1>10
  <2>2. /\ Cardinality(items'[s] \cup q.picked) <= Cardinality(items[s] \cup old.picked)
        /\ IsFiniteSet(items'[s] \cup q.picked)
    BY <1>13, <2>1, FS_Subset
  <2>3. Cardinality(items'[s] \cup q.picked) <= Aim(old)
    BY <1>13, <2>2, FS_CardinalityType
  <2>4. q.kind = "EVENING" => cycleOf[MorningOf(old)] # 0
    BY <1>2, <1>4, <1>8 DEF BuilderFits, BuilderShares
  <2> QED
    BY <1>2, <1>6, <1>8, <1>15, <2>3, <2>4 DEF BuilderShares
<1>17. ASSUME ~setsOverlap
       PROVE  /\ old.cycle = Len(ended) /\ old.exclude = Excluded(old)
              /\ old.picked \subseteq Left(old.cycle) \ old.exclude
              /\ Fills(old, items[s] \cup old.picked)
              /\ old.kind = "MORNING" => cycleOf[<<old.day, "EVENING">>] = 0
              /\ items'[s] = items[s] \cup {z}
  <2>1. /\ old.cycle = Len(ended) /\ old.exclude = Excluded(old)
        /\ old.picked \subseteq Left(old.cycle) \ old.exclude
        /\ Fills(old, items[s] \cup old.picked)
        /\ old.kind = "MORNING" => cycleOf[<<old.day, "EVENING">>] = 0
    BY <1>1, <1>2, <1>4, <1>17 DEF BuilderFits, BuilderAlone
  <2>2. z \notin Sets!UsedIn(old.cycle)
    BY <1>3, <2>1 DEF Left
  <2> QED
    BY <1>10, <2>1, <2>2
<1>18. ASSUME ~setsOverlap PROVE BuilderAlone(q)'
  <2>1. Excluded(q)' = old.exclude
    <3>1. old.kind = "EVENING" => MorningOf(old) \in AllSets \ {s}
      BY <1>5, <1>6 DEF MorningOf, AllSets
    <3> QED
      BY <1>8, <1>10, <1>15, <1>17, <1>18, <3>1 DEF Excluded
  <2>2. q.picked \subseteq Left(q.cycle)' \ q.exclude
    BY <1>5, <1>8, <1>12, <1>17, <1>18 DEF Left
  <2>3. items'[s] \cup q.picked = items[s] \cup old.picked
    BY <1>3, <1>8, <1>17, <1>18
  <2>4. Fills(q, items[SetFor(q)] \cup q.picked)'
    <3>1. PICK taken : taken = items[s] \cup old.picked
      OBVIOUS
    <3>2. Fills(old, taken)
      BY <1>17, <1>18, <3>1
    <3>3. Fills(q, taken)'
      BY <1>2, <1>8, <1>15, <3>2 DEF Fills
    <3>4. items'[s] \cup q.picked = taken
      BY <2>3, <3>1
    <3> QED
      BY <1>15, <3>3, <3>4 DEF Fills
  <2> QED
    BY <1>2, <1>8, <1>17, <1>18, <2>1, <2>2, <2>4 DEF BuilderAlone
<1>19. BuilderFits(builder[b])'
  BY <1>2, <1>9, <1>14, <1>16, <1>18 DEF BuilderFits, BuilderTypes, BuilderShares, BuilderAlone,
     Excluded, MorningOf, SetFor, Aim, Fills
<1>20. BuildersFit'
  <2>1. SetFor(builder[b])' = SetFor(builder[b])
    BY <1>1, <1>8, <1>9 DEF SetFor
  <2> QED
    BY <1>1, <1>2, <1>9, <1>10, <1>19, <2>1, OthersFit
<1>21. SetTables'
  BY <1>2, <1>6, <1>10 DEF SetsInv, SetTables
<1>22. InTarget'
  <2>1. Cardinality(items'[s]) <= TargetOf[s[2]]
    <3>1. items'[s] \in SUBSET (items[s] \cup old.picked)
      BY <1>3, <1>10
    <3>2. /\ Cardinality(items'[s]) <= Cardinality(items[s] \cup old.picked)
          /\ IsFiniteSet(items'[s])
      BY <1>13, <3>1, FS_Subset
    <3>3. Aim(old) = TargetOf[s[2]]
      BY <1>6 DEF Aim
    <3> QED
      BY <1>13, <3>2, <3>3, FS_CardinalityType
  <2>2. \A x \in AllSets \ {s} : Cardinality(items'[x]) <= TargetOf[x[2]]
    BY <1>10 DEF SetsInv, InTarget
  <2>3. ASSUME NEW x \in AllSets \ {s}, cycleOf[x] = old.cycle PROVE items'[s] \cap items'[x] = {}
    <3>1. items[s] \cap items[x] = {} /\ items'[x] = items[x]
      BY <1>6, <1>10, <2>3 DEF SetsInv, InTarget
    <3>2. items[x] \subseteq Sets!UsedIn(old.cycle)
      BY <2>3, UsedIs
    <3> QED
      BY <1>10, <3>1, <3>2
  <2>4. \A x, y \in AllSets \ {s} :
            x # y /\ cycleOf[x] = cycleOf[y] => items'[x] \cap items'[y] = {}
    BY <1>10 DEF SetsInv, InTarget
  <2>5. \A x, y \in AllSets : x # y /\ cycleOf'[x] = cycleOf'[y] => items'[x] \cap items'[y] = {}
    <3> SUFFICES ASSUME NEW x \in AllSets, NEW y \in AllSets, x # y, cycleOf[x] = cycleOf[y]
                 PROVE  items'[x] \cap items'[y] = {}
      BY <1>2
    <3>1. CASE x = s
      BY <1>6, <2>3, <3>1
    <3>2. CASE y = s
      BY <1>6, <2>3, <3>2
    <3>3. CASE x # s /\ y # s
      BY <2>4, <3>3
    <3> QED
      BY <3>1, <3>2, <3>3
  <2> QED
    BY <2>1, <2>2, <2>5 DEF InTarget
<1>23. CyclesInOrder'
  <2> SUFFICES ASSUME ~setsOverlap
               PROVE  /\ \A c \in DOMAIN ended : c < Len(ended) => ended[c]
                      /\ \A c \in DOMAIN ended : ended[c] => Cardinality(Left(c)') < MostTaken
                      /\ Sets!BrickOncePerDay'
    BY <1>2 DEF CyclesInOrder
  <2>1. \A c \in DOMAIN ended : c < Len(ended) => ended[c]
    BY DEF SetsInv, CyclesInOrder
  <2>2. ASSUME NEW c \in DOMAIN ended, ended[c] PROVE Cardinality(Left(c)') < MostTaken
    <3>1. Cardinality(Left(c)) < MostTaken /\ MostTaken \in Nat
      BY <2>2, MostTakenIs DEF SetsInv, CyclesInOrder
    <3>2. Cardinality(Left(c)') <= Cardinality(Left(c))
      BY <1>11, LeftShrinks
    <3>3. Cardinality(Left(c)') \in Nat /\ Cardinality(Left(c)) \in Nat
      <4>1. Left(c)' \in SUBSET Bricks
        BY DEF Left
      <4> QED
        BY <4>1, LeftFinite, BricksAssumption, FS_Subset, FS_CardinalityType
    <3> QED
      BY <3>1, <3>2, <3>3
  <2>3. ASSUME NEW d \in LocalDays PROVE items'[<<d, "MORNING">>] \cap items'[<<d, "EVENING">>] = {}
    <3>1. /\ <<d, "MORNING">> \in AllSets /\ <<d, "EVENING">> \in AllSets
          /\ items[<<d, "MORNING">>] \cap items[<<d, "EVENING">>] = {}
      BY DEF AllSets, SetsInv, CyclesInOrder, Sets!BrickOncePerDay
    <3>2. CASE s = <<d, "MORNING">>
      <4>1. cycleOf[<<d, "EVENING">>] = 0 /\ <<d, "EVENING">> # s
        BY <1>6, <1>17, <3>2
      <4>2. items'[<<d, "EVENING">>] = {}
        BY <1>10, <3>1, <4>1 DEF SetsInv, SetTables
      <4> QED
        BY <4>2
    <3>3. CASE s = <<d, "EVENING">>
      <4>1. <<d, "MORNING">> # s /\ z \notin items[<<d, "MORNING">>]
        BY <1>3, <1>6, <1>17, <3>3 DEF Excluded, MorningOf
      <4> QED
        BY <1>10, <3>1, <3>3, <4>1
    <3>4. CASE s # <<d, "MORNING">> /\ s # <<d, "EVENING">>
      BY <1>10, <3>1, <3>4
    <3> QED
      BY <3>2, <3>3, <3>4
  <2> QED
    BY <2>1, <2>2, <2>3 DEF Sets!BrickOncePerDay
<1> QED
  BY <1>20, <1>21, <1>22, <1>23 DEF SetsInv

(* The sets keep their invariant.                                            *)
LEMMA SetsInvStep == SetsInv /\ [Sets!Next]_ofSets => SetsInv'
<1> SUFFICES ASSUME SetsInv, [Sets!Next]_ofSets PROVE SetsInv'
  OBVIOUS
<1>1. CASE UNCHANGED ofSets
  <2>1. ended' = ended /\ cycleOf' = cycleOf /\ items' = items /\ builder' = builder
        /\ setsOverlap' = setsOverlap
    BY <1>1 DEF ofSets
  <2>2. \A c : Left(c)' = Left(c)
    BY <2>1 DEF Left, Sets!UsedIn
  <2>3. SetTables' /\ InTarget'
    BY <2>1 DEF SetsInv, SetTables, InTarget
  <2>4. CyclesInOrder'
    BY <2>1, <2>2 DEF SetsInv, CyclesInOrder, Sets!BrickOncePerDay
  <2>5. ASSUME NEW b \in Requests PROVE BuilderFits(builder[b])'
    <3>1. BuilderFits(builder[b]) /\ builder'[b] = builder[b]
      BY <2>1 DEF SetsInv, BuildersFit
    <3>2. BuilderTypes(builder[b])' /\ BuilderShares(builder[b])'
      BY <2>1, <3>1 DEF BuilderFits, BuilderTypes, BuilderShares, SetFor, MorningOf, Aim
    <3>3. ~setsOverlap' => BuilderAlone(builder[b])'
      BY <2>1, <2>2, <3>1 DEF BuilderFits, BuilderAlone, SetFor, MorningOf, Aim, Fills, Excluded
    <3> QED
      BY <3>2, <3>3 DEF BuilderFits
  <2>6. \A b, o \in Requests : b # o => Apart(builder[b], builder[o])'
    BY <2>1 DEF SetsInv, BuildersFit, Apart, SetFor
  <2>7. DOMAIN builder' = Requests
    BY <2>1 DEF SetsInv, BuildersFit
  <2>8. BuildersFit'
    BY <2>5, <2>6, <2>7 DEF BuildersFit
  <2> QED
    BY <2>2, <2>3, <2>4, <2>8 DEF SetsInv
<1>2. CASE \E b \in Requests, d \in LocalDays : Sets!Ask(b, d)
  BY <1>2, AskStep
<1>3. CASE \E b \in Requests : Sets!Step(b) \/ Sets!Die(b)
  <2>1. PICK b \in Requests : Sets!Step(b) \/ Sets!Die(b)
    BY <1>3
  <2>2. CASE Sets!Step(b)
    BY <2>2, FindStep, FindCycleStep, NewCycleStep, ReadMorningStep, CountStep, CloseCycleStep,
       PickStep, InsertSetStep, InsertItemStep DEF Sets!Step
  <2> QED
    BY <2>1, <2>2, DieStep
<1> QED
  BY <1>1, <1>2, <1>3 DEF Sets!Next

(* Nothing is built at first.                                                *)
LEMMA SetsInvInit == Sets!Init => SetsInv
<1> SUFFICES ASSUME Sets!Init PROVE SetsInv
  OBVIOUS
<1>1. /\ ended = <<>> /\ cycleOf = [x \in AllSets |-> 0] /\ items = [x \in AllSets |-> {}]
      /\ builder = [b \in Requests |-> Sets!Idle] /\ setsOverlap = FALSE
  BY DEF Sets!Init, Sets!Sets, Sets!Kinds, AllSets
<1>2. SetTables
  <2>1. ended \in Seq(BOOLEAN) /\ Len(ended) = 0 /\ 0 <= MaxRotations
    BY <1>1, BricksAssumption
  <2>2. cycleOf \in [AllSets -> Nat] /\ items \in [AllSets -> SUBSET Bricks]
    BY <1>1
  <2>3. \A x \in AllSets : cycleOf[x] = 0 /\ items[x] = {}
    BY <1>1
  <2>4. \A d \in LocalDays : <<d, "EVENING">> \in AllSets
    BY DEF AllSets
  <2> QED
    BY <1>1, <2>1, <2>2, <2>3, <2>4 DEF SetTables
<1>3. InTarget
  <2>1. \A x \in AllSets : Cardinality(items[x]) = 0 /\ TargetOf[x[2]] \in Nat
    BY <1>1, TargetsAssumption, FS_EmptySet DEF AllSets
  <2> QED
    BY <1>1, <2>1 DEF InTarget
<1>4. CyclesInOrder
  BY <1>1 DEF CyclesInOrder, Sets!BrickOncePerDay, AllSets
<1>5. BuildersFit
  <2>1. BuilderTypes(Sets!Idle)
    BY BricksAssumption DEF BuilderTypes, Sets!Idle, Sets!Steps
  <2>2. BuilderShares(Sets!Idle) /\ BuilderAlone(Sets!Idle) /\ Sets!Idle.step = "idle"
    BY DEF BuilderShares, BuilderAlone, Sets!Idle
  <2> QED
    BY <1>1, <2>1, <2>2 DEF BuildersFit, BuilderFits, Apart
<1> QED
  BY <1>2, <1>3, <1>4, <1>5 DEF SetsInv

(* What the invariant says of the sets.                                      *)
LEMMA SetsInvMeans == SetsInv => Sets!SetsAreSound
<1> SUFFICES ASSUME SetsInv PROVE Sets!SetsAreSound
  OBVIOUS
<1>1. Sets!SetsStayInTarget
  BY SetsCardinality DEF SetsInv, InTarget, Sets!SetsStayInTarget, Sets!Sets, Sets!Kinds, AllSets
<1>2. ASSUME ~setsOverlap PROVE Sets!BrickOncePerDay
  BY <1>2 DEF SetsInv, CyclesInOrder
<1>3. ASSUME ~setsOverlap, NEW b \in Requests, Sets!At(b, "items"), builder[b].picked = {}
      PROVE  \/ Sets!Cardinality(items[Sets!SetOf(b)]) = Sets!Target(b)
             \/ Sets!Cardinality(Bricks) < Sets!Target(b)
             \/ /\ builder[b].kind = "EVENING"
                /\ cycleOf[<<builder[b].day, "MORNING">>] < builder[b].cycle
  <2>1. Fills(builder[b], items[SetFor(builder[b])] \cup builder[b].picked)
    BY <1>3 DEF SetsInv, BuildersFit, BuilderFits, BuilderAlone, Sets!At
  <2>2. items[SetFor(builder[b])] \cup builder[b].picked = items[SetFor(builder[b])]
    BY <1>3
  <2>3. Fills(builder[b], items[SetFor(builder[b])])
    BY <2>1, <2>2
  <2> QED
    BY <2>3, SetsCardinality DEF Fills, Aim, SetFor, MorningOf, Sets!SetOf, Sets!Target
<1>4. ASSUME ~setsOverlap, NEW c \in DOMAIN ended, NEW later \in DOMAIN ended, c < later
      PROVE  /\ ended[c]
             /\ Sets!Cardinality(Bricks \ Sets!UsedIn(c))
                    < Sets!Max({TargetOf[k] : k \in Sets!Kinds})
  <2>1. c < Len(ended)
    BY <1>4 DEF SetsInv, SetTables
  <2>2. ended[c] /\ Cardinality(Left(c)) < MostTaken
    BY <1>4, <2>1 DEF SetsInv, CyclesInOrder
  <2> QED
    BY <2>2, SetsCardinality DEF Left, MostTaken
<1> QED
  BY <1>1, <1>2, <1>3, <1>4 DEF Sets!SetsAreSound, Sets!OneAfterTheOther

-----------------------------------------------------------------------------
(* The pool of a day.                                                        *)

SlotIds == DOMAIN Slots
View(b, s) == IF b = PoolWorker /\ local[s] # NoTemplate THEN local[s] ELSE pool[s]
FitsSlot(s) == {t \in PoolTemplates : FamilyOfSlot[Slots[s]] \in {"*", Family[t]}}
Exhausted(b, s) == FitsSlot(s) \subseteq {View(b, q) : q \in 1 .. s - 1}

PoolTypes ==
    /\ pool \in [SlotIds -> PoolTemplates \cup {NoTemplate}]
    /\ local \in [SlotIds -> PoolTemplates \cup {NoTemplate}]
    /\ at \in [Pools!Builders -> 0 .. Len(Slots) + 1]
    /\ used \in [Pools!Builders -> SUBSET PoolTemplates]

(* A template fits its slot, and the worker's are in slots that it has left  *)
(* behind and no request has filled.                                         *)
RowsFit ==
    \A s \in SlotIds :
        /\ pool[s] # NoTemplate => pool[s] \in FitsSlot(s)
        /\ local[s] # NoTemplate => /\ local[s] \in FitsSlot(s)
                                    /\ pool[s] = NoTemplate /\ s < at[PoolWorker]

(* The worker's own and the committed rows together are distinct.            *)
ViewIsDistinct ==
    \A s, r \in SlotIds :
        View(PoolWorker, s) = View(PoolWorker, r) /\ View(PoolWorker, s) # NoTemplate => s = r

(* A builder excludes the slots it left behind; one that it left empty takes *)
(* only templates of the slots before, and so will never be filled.          *)
Passed(b) ==
    /\ \A s \in SlotIds : s < at[b] =>
           IF View(b, s) = NoTemplate THEN Exhausted(b, s) ELSE View(b, s) \in used[b]
    /\ used[b] \subseteq {View(b, q) : q \in SlotIds}

(* So does a slot that is empty before one that is filled.                   *)
Gap(s) == FitsSlot(s) \subseteq {pool[q] : q \in 1 .. s - 1}
GapsAreExhausted ==
    \A s, r \in SlotIds : s < r /\ pool[r] # NoTemplate /\ pool[s] = NoTemplate => Gap(s)

PoolInv ==
    /\ PoolTypes /\ RowsFit /\ ViewIsDistinct /\ GapsAreExhausted
    /\ \A b \in Pools!Builders : Passed(b)

(* The slots are numbered from 1, and what a builder sees is its view.       *)
LEMMA SlotsAre ==
    /\ Len(Slots) \in Nat /\ SlotIds = 1 .. Len(Slots)
    /\ \A b : \A s \in SlotIds : Pools!Seen(b)[s] = View(b, s)
  BY SlotsAssumption DEF SlotIds, Pools!Seen, View

(* What is committed is seen by every builder.                               *)
LEMMA CommittedIsSeen ==
    ASSUME PoolInv, NEW b, NEW s \in SlotIds, pool[s] # NoTemplate PROVE View(b, s) = pool[s]
  BY DEF PoolInv, RowsFit, View

(* A gap is exhausted for every builder.                                     *)
LEMMA GapIsExhausted == ASSUME PoolInv, NEW b, NEW s \in SlotIds, Gap(s) PROVE Exhausted(b, s)
<1> SUFFICES ASSUME NEW t \in FitsSlot(s) PROVE \E q \in 1 .. s - 1 : View(b, q) = t
  BY DEF Exhausted
<1>1. PICK q \in 1 .. s - 1 : pool[q] = t
  BY DEF Gap
<1>2. q \in SlotIds /\ t # NoTemplate
  BY SlotsAre, SlotsAssumption DEF FitsSlot
<1> QED
  BY <1>1, <1>2, CommittedIsSeen

(* The worker's uncommitted rows are ahead of every request.                 *)
LEMMA UnseenIsAhead ==
    ASSUME PoolInv, NEW b \in Pools!Builders, b # PoolWorker, NEW q \in SlotIds, q < at[b]
    PROVE  local[q] = NoTemplate
<1> SUFFICES ASSUME local[q] # NoTemplate PROVE FALSE
  OBVIOUS
<1>1. local[q] \in FitsSlot(q) /\ pool[q] = NoTemplate
  BY DEF PoolInv, RowsFit
<1>2. View(b, q) = NoTemplate /\ View(PoolWorker, q) = local[q]
  BY <1>1 DEF View
<1>3. Exhausted(b, q)
  BY <1>2 DEF PoolInv, Passed
<1>4. PICK r \in 1 .. q - 1 : View(b, r) = local[q]
  BY <1>1, <1>3 DEF Exhausted
<1>5. r \in SlotIds /\ r # q
  BY SlotsAre
<1>6. pool[r] = local[q]
  BY <1>4 DEF View
<1>7. View(PoolWorker, r) = local[q]
  BY <1>5, <1>6, CommittedIsSeen
<1> QED
  BY <1>2, <1>5, <1>7 DEF PoolInv, ViewIsDistinct

(* A builder that may insert is ahead of all others, and what it picks is in *)
(* no slot.                                                                  *)
LEMMA InserterIsAhead ==
    ASSUME PoolInv, NEW b \in Pools!Builders, NEW s \in SlotIds, at[b] = s,
           View(b, s) = NoTemplate, local[s] = NoTemplate,
           NEW t \in FitsSlot(s), t \notin used[b]
    PROVE  /\ \A r \in SlotIds : View(PoolWorker, r) # t
           /\ \A c \in Pools!Builders : at[c] <= s
           /\ \A r \in SlotIds : r > s => pool[r] = NoTemplate /\ local[r] = NoTemplate
           /\ pool[s] = NoTemplate
<1>0. t # NoTemplate /\ \A r \in SlotIds : r \in Nat
  BY SlotsAre, SlotsAssumption DEF FitsSlot
<1>1. pool[s] = NoTemplate
  BY DEF View
<1>2. \A q \in SlotIds : q < s /\ View(b, q) # NoTemplate => View(b, q) \in used[b]
  BY DEF PoolInv, Passed
<1>3. ~Exhausted(b, s)
  <2> SUFFICES ASSUME Exhausted(b, s) PROVE FALSE
    OBVIOUS
  <2>1. PICK q \in 1 .. s - 1 : View(b, q) = t
    BY DEF Exhausted
  <2>2. q \in SlotIds /\ q < s
    BY SlotsAre
  <2> QED
    BY <1>0, <1>2, <2>1, <2>2
<1>4. \A q \in SlotIds : q < s => View(PoolWorker, q) = View(b, q)
  BY UnseenIsAhead DEF View
<1>5. ~Exhausted(PoolWorker, s) /\ ~Gap(s)
  <2>1. ~Gap(s)
    BY <1>3, GapIsExhausted
  <2>2. \A q \in 1 .. s - 1 : View(PoolWorker, q) = View(b, q)
    BY <1>4, SlotsAre
  <2> QED
    BY <1>3, <2>1, <2>2 DEF Exhausted
<1>6. \A c \in Pools!Builders : at[c] <= s
  <2> SUFFICES ASSUME NEW c \in Pools!Builders, ~(at[c] <= s) PROVE FALSE
    OBVIOUS
  <2>1. s < at[c]
    <3>1. at[c] \in Nat
      BY SlotsAre DEF PoolInv, PoolTypes
    <3> QED
      BY <1>0, <3>1
  <2>2. View(c, s) = NoTemplate
    BY <1>1 DEF View
  <2>3. Exhausted(c, s)
    BY <2>1, <2>2 DEF PoolInv, Passed
  <2>4. CASE c = PoolWorker
    BY <1>5, <2>3, <2>4
  <2>5. CASE c # PoolWorker
    BY <1>5, <2>3, <2>5 DEF Exhausted, Gap, View
  <2> QED
    BY <2>4, <2>5
<1>7. ASSUME NEW r \in SlotIds, r > s PROVE pool[r] = NoTemplate /\ local[r] = NoTemplate
  <2>1. pool[r] = NoTemplate
    BY <1>0, <1>1, <1>5, <1>7 DEF PoolInv, GapsAreExhausted
  <2>2. PoolWorker \in Pools!Builders
    BY DEF Pools!Builders
  <2>3. at[PoolWorker] <= s /\ at[PoolWorker] \in Nat
    BY <1>6, <2>2, SlotsAre DEF PoolInv, PoolTypes
  <2> QED
    BY <1>0, <1>7, <2>1, <2>3 DEF PoolInv, RowsFit
<1>8. ASSUME NEW r \in SlotIds PROVE View(PoolWorker, r) # t
  <2>1. CASE r < s
    BY <1>0, <1>2, <1>4, <2>1
  <2>2. CASE r = s
    BY <1>0, <1>1, <2>2 DEF View
  <2>3. CASE r > s
    BY <1>0, <1>7, <2>3 DEF View
  <2> QED
    BY <1>0, <2>1, <2>2, <2>3
<1> QED
  BY <1>1, <1>6, <1>7, <1>8

(* A step that leaves the rows alone only has to move its builder rightly.   *)
LEMMA RowsStay ==
    ASSUME PoolInv, NEW b \in Pools!Builders, UNCHANGED <<pool, local>>,
           NEW n \in 0 .. Len(Slots) + 1, NEW u \in SUBSET PoolTemplates,
           at' = [at EXCEPT ![b] = n], used' = [used EXCEPT ![b] = u],
           \A s \in SlotIds : s < n =>
               IF View(b, s) = NoTemplate THEN Exhausted(b, s) ELSE View(b, s) \in u,
           u \subseteq {View(b, q) : q \in SlotIds},
           b = PoolWorker => at[b] <= n \/ \A s \in SlotIds : local[s] = NoTemplate
    PROVE  PoolInv'
<1>1. /\ at'[b] = n /\ \A c \in Pools!Builders \ {b} : at'[c] = at[c]
      /\ used'[b] = u /\ \A c \in Pools!Builders \ {b} : used'[c] = used[c]
      /\ at \in [Pools!Builders -> 0 .. Len(Slots) + 1]
  BY DEF PoolInv, PoolTypes
<1>2. \A c, s : View(c, s)' = View(c, s)
  BY DEF View
<1>3. PoolTypes'
  BY DEF PoolInv, PoolTypes
<1>4. RowsFit'
  <2>1. /\ PoolWorker \in Pools!Builders /\ at[PoolWorker] \in Nat /\ n \in Nat
        /\ \A s \in SlotIds : s \in Nat
    BY <1>1, SlotsAre DEF Pools!Builders
  <2> QED
    BY <1>1, <2>1 DEF PoolInv, RowsFit, FitsSlot
<1>5. ViewIsDistinct' /\ GapsAreExhausted'
  BY <1>2 DEF PoolInv, ViewIsDistinct, GapsAreExhausted, Gap, FitsSlot
<1>6. ASSUME NEW c \in Pools!Builders PROVE Passed(c)'
  <2>1. CASE c = b
    BY <1>1, <1>2, <2>1 DEF Passed, Exhausted, FitsSlot
  <2>2. CASE c # b
    BY <1>1, <1>2, <2>2 DEF PoolInv, Passed, Exhausted, FitsSlot
  <2> QED
    BY <2>1, <2>2
<1> QED
  BY <1>3, <1>4, <1>5, <1>6 DEF PoolInv

(* A builder begins, passes over a slot, or finds it taken.                  *)
LEMMA PoolWalks ==
    ASSUME PoolInv, NEW b \in Pools!Builders,
           Pools!Begin(b) \/ Pools!Skip(b) \/ Pools!Conflict(b)
    PROVE  PoolInv'
<1>0. /\ at[b] \in 0 .. Len(Slots) + 1 /\ used[b] \in SUBSET PoolTemplates
      /\ pool \in [SlotIds -> PoolTemplates \cup {NoTemplate}] /\ Passed(b)
      /\ Len(Slots) \in Nat /\ SlotIds = 1 .. Len(Slots) /\ DOMAIN Slots = SlotIds
  BY SlotsAre DEF PoolInv, PoolTypes, SlotIds
<1>1. CASE Pools!Begin(b)
  <2>1. PICK u : u = Pools!Chosen(pool)
    OBVIOUS
  <2>2. u \in SUBSET PoolTemplates /\ u \subseteq {View(b, q) : q \in SlotIds}
    BY <1>0, <2>1, CommittedIsSeen DEF Pools!Chosen
  <2>3. /\ at' = [at EXCEPT ![b] = 1] /\ used' = [used EXCEPT ![b] = u]
        /\ UNCHANGED <<pool, local>> /\ 1 \in 0 .. Len(Slots) + 1 /\ at[b] <= 1
        /\ \A s \in SlotIds : ~(s < 1)
    BY <1>0, <1>1, <2>1 DEF Pools!Begin
  <2> QED
    BY <2>2, <2>3, RowsStay
<1>2. ASSUME at[b] \in DOMAIN Slots,
             NEW u \in SUBSET PoolTemplates, used[b] \subseteq u,
             u \subseteq {View(b, q) : q \in SlotIds},
             IF View(b, at[b]) = NoTemplate THEN Exhausted(b, at[b]) ELSE View(b, at[b]) \in u,
             at' = [at EXCEPT ![b] = @ + 1], used' = [used EXCEPT ![b] = u],
             UNCHANGED <<pool, local>>
      PROVE  PoolInv'
  <2>1. PICK n : n = at[b] + 1
    OBVIOUS
  <2>2. /\ n \in 0 .. Len(Slots) + 1 /\ at[b] <= n
        /\ \A s \in SlotIds : s < n => s < at[b] \/ s = at[b]
    BY <1>0, <1>2, <2>1
  <2>3. \A s \in SlotIds : s < n =>
            IF View(b, s) = NoTemplate THEN Exhausted(b, s) ELSE View(b, s) \in u
    BY <1>0, <1>2, <2>2 DEF Passed
  <2> QED
    BY <1>2, <2>1, <2>2, <2>3, RowsStay
<1>3. CASE Pools!Skip(b)
  <2>1. /\ at[b] \in SlotIds /\ View(b, at[b]) = NoTemplate /\ FitsSlot(at[b]) \subseteq used[b]
    BY <1>0, <1>3, SlotsAre DEF Pools!Skip, Pools!Building, Pools!Picks, FitsSlot
  <2>2. ASSUME NEW t \in FitsSlot(at[b]) PROVE \E q \in 1 .. at[b] - 1 : View(b, q) = t
    <3>1. PICK q \in SlotIds : View(b, q) = t
      BY <1>0, <2>1 DEF Passed
    <3>2. t # NoTemplate
      BY SlotsAssumption DEF FitsSlot
    <3>3. CASE q < at[b]
      BY <1>0, <2>1, <3>1, <3>3
    <3>4. CASE q = at[b]
      BY <2>1, <3>1, <3>2, <3>4
    <3>5. CASE q > at[b]
      <4>1. pool[at[b]] = NoTemplate
        BY <2>1, CommittedIsSeen
      <4>2. pool[q] # NoTemplate
        <5> SUFFICES ASSUME pool[q] = NoTemplate PROVE FALSE
          OBVIOUS
        <5>1. b = PoolWorker /\ local[q] # NoTemplate
          BY <3>1, <3>2 DEF View
        <5>2. q < at[b]
          BY <5>1 DEF PoolInv, RowsFit
        <5> QED
          BY <1>0, <2>1, <3>5, <5>2
      <4>3. at[b] < q
        BY <1>0, <2>1, <3>5
      <4>4. Gap(at[b])
        BY <2>1, <4>1, <4>2, <4>3 DEF PoolInv, GapsAreExhausted
      <4> QED
        BY <2>1, <4>4, GapIsExhausted DEF Exhausted
    <3> QED
      BY <1>0, <2>1, <3>3, <3>4, <3>5
  <2>3. Exhausted(b, at[b])
    BY <2>2 DEF Exhausted
  <2>4. used' = [used EXCEPT ![b] = used[b]]
    BY <1>3 DEF Pools!Skip, PoolInv, PoolTypes
  <2> QED
    BY <1>0, <1>2, <1>3, <2>1, <2>3, <2>4 DEF Pools!Skip, Pools!Building, Passed
<1>4. CASE Pools!Conflict(b)
  <2>1. PICK u : u = used[b] \cup {View(b, at[b])}
    OBVIOUS
  <2>2. at[b] \in SlotIds /\ View(b, at[b]) # NoTemplate /\ used' = [used EXCEPT ![b] = u]
    BY <1>0, <1>4, <2>1, SlotsAre DEF Pools!Conflict, Pools!Building
  <2>3. View(b, at[b]) \in PoolTemplates
    BY <1>0, <2>2 DEF PoolInv, PoolTypes, View
  <2>4. used[b] \subseteq {View(b, q) : q \in SlotIds}
    BY <1>0 DEF Passed
  <2>5. /\ u \in SUBSET PoolTemplates /\ used[b] \subseteq u
        /\ u \subseteq {View(b, q) : q \in SlotIds}
    BY <1>0, <2>1, <2>2, <2>3, <2>4
  <2> QED
    BY <1>0, <1>2, <1>4, <2>1, <2>2, <2>5 DEF Pools!Conflict, Pools!Building
<1> QED
  BY <1>1, <1>3, <1>4

(* A builder that inserts fills a slot of which no other has read beyond.    *)
LEMMA PoolInsertStep ==
    ASSUME PoolInv, NEW b \in Pools!Builders, Pools!Insert(b) PROVE PoolInv'
<1>1. PICK s : s = at[b]
  OBVIOUS
<1>2. PICK t \in Pools!Picks(b) :
          /\ used' = [used EXCEPT ![b] = @ \cup {t}]
          /\ IF b = PoolWorker THEN local' = [local EXCEPT ![s] = t] /\ UNCHANGED pool
                               ELSE pool' = [pool EXCEPT ![s] = t] /\ UNCHANGED local
  BY <1>1 DEF Pools!Insert
<1>3. /\ s \in SlotIds /\ View(b, s) = NoTemplate /\ local[s] = NoTemplate
      /\ t \in FitsSlot(s) /\ t \notin used[b] /\ t \in PoolTemplates /\ t # NoTemplate
      /\ at' = [at EXCEPT ![b] = s + 1]
  BY <1>1, <1>2, SlotsAre, SlotsAssumption
  DEF Pools!Insert, Pools!Building, Pools!Picks, FitsSlot, SlotIds
<1>4. /\ \A r \in SlotIds : View(PoolWorker, r) # t
      /\ \A c \in Pools!Builders : at[c] <= s
      /\ \A r \in SlotIds : r > s => pool[r] = NoTemplate /\ local[r] = NoTemplate
      /\ pool[s] = NoTemplate
  BY <1>1, <1>3, InserterIsAhead
<1>5. /\ at \in [Pools!Builders -> 0 .. Len(Slots) + 1] /\ PoolTypes
      /\ used \in [Pools!Builders -> SUBSET PoolTemplates]
      /\ Len(Slots) \in Nat /\ SlotIds = 1 .. Len(Slots) /\ s \in Nat
      /\ PoolWorker \in Pools!Builders
  BY <1>3, SlotsAre DEF PoolInv, PoolTypes, Pools!Builders
<1>6. /\ at'[b] = s + 1 /\ \A c \in Pools!Builders \ {b} : at'[c] = at[c]
      /\ used'[b] = used[b] \cup {t} /\ \A c \in Pools!Builders \ {b} : used'[c] = used[c]
  BY <1>2, <1>3, <1>5
<1>7. \A c \in Pools!Builders : \A q \in SlotIds : q # s => View(c, q)' = View(c, q)
  BY <1>2, <1>5 DEF PoolTypes, View
<1>8. View(b, s)' = t /\ \A c \in Pools!Builders : View(c, s) = NoTemplate
  BY <1>2, <1>3, <1>4, <1>5 DEF PoolTypes, View
<1>9. View(PoolWorker, s)' = t
  BY <1>2, <1>3, <1>4, <1>5 DEF PoolTypes, View
<1>10. PoolTypes'
  <2>1. at' \in [Pools!Builders -> 0 .. Len(Slots) + 1]
    BY <1>3, <1>5
  <2>2. used' \in [Pools!Builders -> SUBSET PoolTemplates]
    BY <1>2, <1>3, <1>5
  <2>3. /\ pool' \in [SlotIds -> PoolTemplates \cup {NoTemplate}]
        /\ local' \in [SlotIds -> PoolTemplates \cup {NoTemplate}]
    BY <1>2, <1>3, <1>5 DEF PoolTypes
  <2> QED
    BY <2>1, <2>2, <2>3 DEF PoolTypes
<1>11. RowsFit'
  <2> SUFFICES ASSUME NEW q \in SlotIds
               PROVE  /\ pool'[q] # NoTemplate => pool'[q] \in FitsSlot(q)
                      /\ local'[q] # NoTemplate => /\ local'[q] \in FitsSlot(q)
                                                   /\ pool'[q] = NoTemplate
                                                   /\ q < at'[PoolWorker]
    BY DEF RowsFit, FitsSlot, SlotIds
  <2>1. CASE q = s
    BY <1>2, <1>3, <1>4, <1>5, <1>6, <2>1 DEF PoolTypes
  <2>2. CASE q # s
    <3>1. pool'[q] = pool[q] /\ local'[q] = local[q]
      BY <1>2, <1>5, <2>2 DEF PoolTypes
    <3>2. q \in Nat /\ at[PoolWorker] <= at'[PoolWorker]
      BY <1>4, <1>5, <1>6
    <3>3. at[PoolWorker] \in Nat /\ at'[PoolWorker] \in Nat
      BY <1>5, <1>6
    <3> QED
      BY <3>1, <3>2, <3>3 DEF PoolInv, RowsFit
  <2> QED
    BY <2>1, <2>2
<1>12. ViewIsDistinct'
  <2> SUFFICES ASSUME NEW q \in SlotIds, NEW r \in SlotIds,
                      View(PoolWorker, q)' = View(PoolWorker, r)', View(PoolWorker, q)' # NoTemplate
               PROVE  q = r
    BY DEF ViewIsDistinct, SlotIds
  <2> QED
    BY <1>4, <1>5, <1>7, <1>9 DEF PoolInv, ViewIsDistinct
<1>13. GapsAreExhausted'
  <2>1. \A q \in SlotIds : pool[q] # NoTemplate => pool'[q] = pool[q]
    BY <1>2, <1>4, <1>5 DEF PoolTypes
  <2>2. ASSUME NEW q \in SlotIds, Gap(q) PROVE Gap(q)'
    <3> SUFFICES ASSUME NEW x \in FitsSlot(q) PROVE \E p \in 1 .. q - 1 : pool'[p] = x
      BY DEF Gap, FitsSlot
    <3>1. PICK p \in 1 .. q - 1 : pool[p] = x
      BY <2>2 DEF Gap
    <3>2. p \in SlotIds /\ x # NoTemplate
      BY <1>5, SlotsAssumption DEF FitsSlot
    <3> QED
      BY <2>1, <3>1, <3>2
  <2>3. ASSUME NEW q \in SlotIds, NEW r \in SlotIds,
               q < r, pool'[r] # NoTemplate, pool'[q] = NoTemplate
        PROVE  Gap(q)
    <3>1. pool[q] = NoTemplate
      BY <2>1, <2>3
    <3>2. CASE pool[r] # NoTemplate
      BY <2>3, <3>1, <3>2 DEF PoolInv, GapsAreExhausted
    <3>3. CASE pool[r] = NoTemplate
      <4>1. r = s /\ b # PoolWorker
        BY <1>2, <1>5, <2>3, <3>3 DEF PoolTypes
      <4>2. \A p : View(b, p) = pool[p]
        BY <4>1 DEF View
      <4>3. Exhausted(b, q)
        BY <1>1, <2>3, <3>1, <4>1, <4>2 DEF PoolInv, Passed
      <4> QED
        BY <4>2, <4>3 DEF Exhausted, Gap
    <3> QED
      BY <3>2, <3>3
  <2> QED
    BY <2>2, <2>3 DEF GapsAreExhausted, SlotIds
<1>14. ASSUME NEW c \in Pools!Builders PROVE Passed(c)'
  <2>1. Passed(c)
    BY DEF PoolInv
  <2>2. ASSUME NEW q \in SlotIds, q < s, Exhausted(c, q) PROVE Exhausted(c, q)'
    <3>1. \A p \in 1 .. q - 1 : p \in SlotIds /\ p # s
      BY <1>5, <2>2
    <3>2. \A p \in 1 .. q - 1 : View(c, p)' = View(c, p)
      BY <1>7, <3>1
    <3> QED
      BY <2>2, <3>2 DEF Exhausted, FitsSlot
  <2>3. used[c] \subseteq used'[c] /\ used'[c] \subseteq used[c] \cup (IF c = b THEN {t} ELSE {})
    BY <1>6
  <2>4. ASSUME NEW q \in SlotIds, q < at'[c]
        PROVE  IF View(c, q)' = NoTemplate THEN Exhausted(c, q)' ELSE View(c, q)' \in used'[c]
    <3>1. CASE q < s
      <4>1. q < at[c]
        BY <1>1, <1>6, <2>4, <3>1
      <4>2. View(c, q)' = View(c, q)
        BY <1>5, <1>7, <3>1
      <4> QED
        BY <2>1, <2>2, <2>3, <3>1, <4>1, <4>2 DEF Passed
    <3>2. CASE ~(q < s)
      <4>1. at[c] \in Nat /\ at[c] <= s /\ q \in Nat
        BY <1>4, <1>5
      <4>2. c = b
        BY <1>5, <1>6, <2>4, <3>2, <4>1
      <4>3. q = s
        BY <1>5, <1>6, <2>4, <3>2, <4>1, <4>2
      <4> QED
        BY <1>3, <1>6, <1>8, <4>2, <4>3
    <3> QED
      BY <3>1, <3>2
  <2>5. used'[c] \subseteq {View(c, q)' : q \in SlotIds}
    <3> SUFFICES ASSUME NEW x \in used'[c] PROVE \E q \in SlotIds : View(c, q)' = x
      OBVIOUS
    <3>1. CASE x \in used[c]
      <4>1. PICK q \in SlotIds : View(c, q) = x
        BY <2>1, <3>1 DEF Passed
      <4>2. x # NoTemplate
        BY <1>5, <3>1, SlotsAssumption
      <4> QED
        BY <1>7, <1>8, <4>1, <4>2
    <3>2. CASE x \notin used[c]
      BY <1>3, <1>8, <2>3, <3>2
    <3> QED
      BY <3>1, <3>2
  <2> QED
    BY <2>4, <2>5 DEF Passed, SlotIds
<1> QED
  BY <1>10, <1>11, <1>12, <1>13, <1>14 DEF PoolInv

(* A builder stops: it committed, or its rows are rolled back.               *)
LEMMA PoolStops ==
    ASSUME PoolInv, NEW b \in Pools!Builders, Pools!Finish(b) \/ Pools!Die(b)
    PROVE  PoolInv'
<1>0. /\ at \in [Pools!Builders -> 0 .. Len(Slots) + 1] /\ PoolTypes
      /\ used \in [Pools!Builders -> SUBSET PoolTemplates]
      /\ Len(Slots) \in Nat /\ SlotIds = 1 .. Len(Slots) /\ DOMAIN Slots = SlotIds
      /\ PoolWorker \in Pools!Builders
      /\ at' = [at EXCEPT ![b] = 0] /\ used' = [used EXCEPT ![b] = {}]
  BY SlotsAre DEF PoolInv, PoolTypes, SlotIds, Pools!Builders, Pools!Finish, Pools!Die
<1>1. CASE b # PoolWorker
  <2>1. UNCHANGED <<pool, local>>
    BY <1>1 DEF Pools!Finish, Pools!Die
  <2>2. \A s \in SlotIds : s < 0 =>
            IF View(b, s) = NoTemplate THEN Exhausted(b, s) ELSE View(b, s) \in {}
    BY <1>0
  <2>3. /\ 0 \in 0 .. Len(Slots) + 1 /\ {} \in SUBSET PoolTemplates
        /\ {} \subseteq {View(b, q) : q \in SlotIds}
    BY <1>0
  <2> QED
    BY <1>0, <1>1, <2>1, <2>2, <2>3, RowsStay
<1>2. CASE b = PoolWorker
  <2>1. /\ pool' \in [SlotIds -> PoolTemplates \cup {NoTemplate}]
        /\ local' \in [SlotIds -> PoolTemplates \cup {NoTemplate}]
        /\ \A q \in SlotIds : local'[q] = NoTemplate
        /\ \/ /\ \A q \in SlotIds : pool'[q] = View(PoolWorker, q)
              /\ at[PoolWorker] = Len(Slots) + 1
           \/ UNCHANGED pool
    <3>1. CASE Pools!Finish(b)
      <4>1. /\ pool' = Pools!Seen(PoolWorker) /\ local' = Pools!Empty
            /\ at[PoolWorker] = Len(Slots) + 1
        BY <1>2, <3>1 DEF Pools!Finish
      <4>2. \A q \in SlotIds : View(PoolWorker, q) \in PoolTemplates \cup {NoTemplate}
        BY <1>0 DEF View, PoolTypes
      <4> QED
        BY <1>0, <4>1, <4>2 DEF Pools!Seen, Pools!Empty, View
    <3>2. CASE Pools!Die(b)
      BY <1>0, <1>2, <3>2 DEF Pools!Die, Pools!Empty, PoolTypes
    <3> QED
      BY <3>1, <3>2
  <2>2. \A c : \A q \in SlotIds : View(c, q)' = pool'[q]
    BY <2>1 DEF View
  <2>3. \A q \in SlotIds : pool[q] # NoTemplate => pool'[q] = pool[q]
    BY <2>1, CommittedIsSeen
  <2>4. \A q \in SlotIds : pool'[q] # NoTemplate => pool'[q] = View(PoolWorker, q)
    BY <2>1, CommittedIsSeen
  <2>5. PoolTypes'
    BY <1>0, <2>1 DEF PoolTypes
  <2>6. RowsFit'
    <3>1. \A q \in SlotIds : pool'[q] # NoTemplate => pool'[q] \in FitsSlot(q)
      BY <2>4 DEF PoolInv, RowsFit, View
    <3> QED
      BY <2>1, <3>1 DEF RowsFit, FitsSlot, SlotIds
  <2>7. ViewIsDistinct'
    <3>1. \A q, r \in SlotIds : pool'[q] = pool'[r] /\ pool'[q] # NoTemplate => q = r
      BY <2>4 DEF PoolInv, ViewIsDistinct
    <3> QED
      BY <2>2, <3>1 DEF ViewIsDistinct, SlotIds
  <2>8. GapsAreExhausted'
    <3> SUFFICES ASSUME NEW q \in SlotIds, NEW r \in SlotIds,
                        q < r, pool'[r] # NoTemplate, pool'[q] = NoTemplate,
                        NEW x \in FitsSlot(q)
                 PROVE  \E p \in 1 .. q - 1 : pool'[p] = x
      BY DEF GapsAreExhausted, Gap, FitsSlot, SlotIds
    <3>1. pool[q] = NoTemplate /\ x # NoTemplate /\ \A p \in 1 .. q - 1 : p \in SlotIds
      BY <1>0, <2>3, SlotsAssumption DEF FitsSlot
    <3>2. CASE UNCHANGED pool
      BY <3>1, <3>2 DEF PoolInv, GapsAreExhausted, Gap
    <3>3. CASE ~UNCHANGED pool
      <4>1. q < at[PoolWorker] /\ View(PoolWorker, q) = NoTemplate
        BY <1>0, <2>1, <3>3
      <4>2. Exhausted(PoolWorker, q)
        BY <1>0, <4>1 DEF PoolInv, Passed
      <4>3. PICK p \in 1 .. q - 1 : View(PoolWorker, p) = x
        BY <4>2 DEF Exhausted
      <4> QED
        BY <2>1, <3>1, <3>3, <4>3
    <3> QED
      BY <3>2, <3>3
  <2>9. ASSUME NEW c \in Pools!Builders PROVE Passed(c)'
    <3>1. CASE c = b
      <4>1. at'[c] = 0 /\ used'[c] = {} /\ \A q \in SlotIds : ~(q < 0)
        BY <1>0, <3>1
      <4> QED
        BY <4>1 DEF Passed, SlotIds
    <3>2. CASE c # b
      <4>1. at'[c] = at[c] /\ used'[c] = used[c] /\ Passed(c) /\ c # PoolWorker
        BY <1>0, <1>2, <3>2 DEF PoolInv
      <4>2. \A q \in SlotIds : q < at[c] => View(c, q)' = View(c, q)
        <5> SUFFICES ASSUME NEW q \in SlotIds, q < at[c] PROVE View(c, q)' = View(c, q)
          OBVIOUS
        <5>1. local[q] = NoTemplate
          BY <4>1, UnseenIsAhead
        <5> QED
          BY <2>1, <2>2, <5>1 DEF View
      <4>3. ASSUME NEW q \in SlotIds, q < at[c], Exhausted(c, q) PROVE Exhausted(c, q)'
        <5>1. \A p \in 1 .. q - 1 : p \in SlotIds /\ p < at[c]
          BY <1>0, <4>3
        <5> QED
          BY <4>2, <4>3, <5>1 DEF Exhausted, FitsSlot
      <4>4. \A q \in SlotIds : q < at'[c] =>
                IF View(c, q)' = NoTemplate THEN Exhausted(c, q)' ELSE View(c, q)' \in used'[c]
        BY <4>1, <4>2, <4>3 DEF Passed
      <4>5. used'[c] \subseteq {View(c, q)' : q \in SlotIds}
        <5> SUFFICES ASSUME NEW x \in used[c] PROVE \E q \in SlotIds : View(c, q)' = x
          BY <4>1
        <5>1. PICK q \in SlotIds : View(c, q) = x
          BY <4>1 DEF Passed
        <5>2. x # NoTemplate
          BY <1>0, SlotsAssumption
        <5> QED
          BY <2>2, <2>3, <4>1, <5>1, <5>2 DEF View
      <4> QED
        BY <4>4, <4>5 DEF Passed, SlotIds
    <3> QED
      BY <3>1, <3>2
  <2> QED
    BY <2>5, <2>6, <2>7, <2>8, <2>9 DEF PoolInv
<1> QED
  BY <1>1, <1>2

(* Every step of a pool's builders keeps the invariant.                      *)
LEMMA PoolInvStep == PoolInv /\ [Pools!Next]_ofPool => PoolInv'
<1> SUFFICES ASSUME PoolInv, [Pools!Next]_ofPool PROVE PoolInv'
  OBVIOUS
<1>1. CASE UNCHANGED ofPool
  BY <1>1 DEF ofPool, PoolInv, PoolTypes, RowsFit, ViewIsDistinct, GapsAreExhausted, Gap,
              Passed, Exhausted, View, FitsSlot
<1>2. CASE Pools!Next
  BY <1>2, PoolWalks, PoolInsertStep, PoolStops DEF Pools!Next
<1> QED
  BY <1>1, <1>2

(* It holds of an empty pool.                                                *)
LEMMA PoolInvInit == Pools!Init => PoolInv
<1> SUFFICES ASSUME Pools!Init PROVE PoolInv
  OBVIOUS
<1>1. /\ Len(Slots) \in Nat /\ SlotIds = 1 .. Len(Slots) /\ DOMAIN Slots = SlotIds
      /\ \A q \in SlotIds : q \in Nat /\ ~(q < 0)
  BY SlotsAre DEF SlotIds
<1>2. /\ pool = [s \in SlotIds |-> NoTemplate] /\ local = [s \in SlotIds |-> NoTemplate]
      /\ at = [c \in Pools!Builders |-> 0] /\ used = [c \in Pools!Builders |-> {}]
  BY <1>1 DEF Pools!Init, Pools!Empty
<1>3. PoolTypes /\ RowsFit
  BY <1>1, <1>2 DEF PoolTypes, RowsFit
<1>4. ViewIsDistinct /\ GapsAreExhausted
  BY <1>2 DEF ViewIsDistinct, GapsAreExhausted, View
<1>5. \A b \in Pools!Builders : Passed(b)
  BY <1>1, <1>2 DEF Passed
<1> QED
  BY <1>3, <1>4, <1>5 DEF PoolInv

(* It says that the pool is distinct, and that a step keeps its slots.       *)
LEMMA PoolInvMeans ==
    /\ PoolInv => Pools!PoolIsDistinct
    /\ PoolInv /\ [Pools!Next]_ofPool => Pools!SlotsAreKept
<1>1. PoolInv => Pools!PoolIsDistinct
  BY CommittedIsSeen DEF PoolInv, ViewIsDistinct, Pools!PoolIsDistinct, SlotIds
<1>2. ASSUME PoolInv, [Pools!Next]_ofPool, NEW s \in SlotIds, pool[s] # NoTemplate
      PROVE  pool'[s] = pool[s]
  <2>1. CASE UNCHANGED pool
    BY <2>1
  <2>2. ASSUME NEW b \in Pools!Builders, Pools!Insert(b), ~UNCHANGED pool PROVE pool'[s] = pool[s]
    <3>1. View(b, at[b]) = NoTemplate /\ at[b] \in SlotIds
      BY <2>2, SlotsAre DEF Pools!Insert, Pools!Building, SlotIds
    <3>2. at[b] # s
      BY <1>2, <3>1, CommittedIsSeen
    <3>3. \E t : pool' = [pool EXCEPT ![at[b]] = t]
      BY <2>2 DEF Pools!Insert
    <3> QED
      BY <1>2, <3>2, <3>3 DEF PoolInv, PoolTypes
  <2>3. ASSUME NEW b \in Pools!Builders, Pools!Finish(b), ~UNCHANGED pool PROVE pool'[s] = pool[s]
    <3>1. pool' = Pools!Seen(PoolWorker)
      BY <2>3 DEF Pools!Finish
    <3> QED
      BY <1>2, <3>1, SlotsAre, CommittedIsSeen
  <2> QED
    BY <1>2, <2>1, <2>2, <2>3
    DEF ofPool, Pools!Next, Pools!Begin, Pools!Skip, Pools!Conflict, Pools!Die
<1> QED
  BY <1>1, <1>2 DEF Pools!SlotsAreKept, SlotIds

-----------------------------------------------------------------------------
(* Perfect days.                                                             *)

EventStreams == {"session", "challenge"}
Events == [day : LocalDays, kind : {"MORNING", "EVENING", "DAILY"}]
Dailies(d) == {i \in DOMAIN log["challenge"] : log["challenge"][i].day = d}
MeetsConditions(d) ==
    /\ \A kind \in {"MORNING", "EVENING"} : \E i \in DOMAIN log["session"] :
          log["session"][i].day = d /\ log["session"][i].kind = kind
    /\ Cardinality(Dailies(d)) >= DailyTarget

PerfectTypes ==
    /\ log \in [EventStreams -> Seq(Events)]
    /\ awards \in [LocalDays -> {0, 1}]
    /\ cursor \in [EventStreams -> Nat] /\ \A s \in EventStreams : cursor[s] <= Len(log[s])
    /\ worker \in [step : {"fetch", "award", "cursor"}, stream : EventStreams,
                   next : Nat, last : Nat, full : BOOLEAN]
    /\ worker.step # "fetch" =>
           /\ worker.next = cursor[worker.stream] + 1
           /\ worker.next <= worker.last /\ worker.last <= Len(log[worker.stream])

(* Event i of stream s is still to be seen by the worker.                    *)
Unseen(s, i) == i > cursor[s] /\ ~(worker.step = "cursor" /\ worker.stream = s /\ worker.next = i)

(* A day that meets the conditions and has no award has an event to come.    *)
AwardIsAhead ==
    \A d \in LocalDays : MeetsConditions(d) /\ awards[d] = 0 =>
        \E s \in EventStreams : \E i \in DOMAIN log[s] : log[s][i].day = d /\ Unseen(s, i)

PerfectInv ==
    /\ PerfectTypes /\ AwardIsAhead
    /\ \A d \in LocalDays : awards[d] = 1 => MeetsConditions(d)

(* The service's conditions, and the days that meet them.                    *)
LEMMA ConditionsAre ==
    /\ Perfect!PerfectDays = {d \in LocalDays : MeetsConditions(d)}
    /\ \A d : Perfect!Conditions(d) <=> MeetsConditions(d)
<1>1. \A S : Perfect!Cardinality(S) = Cardinality(S)
  BY Zenon DEF Perfect!Cardinality, Cardinality
<1>2. \A d : Perfect!DailiesDone(d) = Cardinality(Dailies(d))
  BY <1>1 DEF Perfect!DailiesDone, Dailies
<1> QED
  BY <1>1, <1>2 DEF Perfect!PerfectDays, Perfect!Conditions, Perfect!Has, MeetsConditions, Dailies

(* An event of a day may complete that day's conditions and no other's.      *)
LEMMA EventArrives ==
    ASSUME PerfectInv, NEW s \in EventStreams, NEW d \in LocalDays,
           NEW kind \in {"MORNING", "EVENING", "DAILY"},
           log' = [log EXCEPT ![s] = Append(@, [day |-> d, kind |-> kind])],
           UNCHANGED <<awards, cursor, worker>>
    PROVE  PerfectInv'
<1>1. PICK x : x = [day |-> d, kind |-> kind]
  OBVIOUS
<1>2. /\ log \in [EventStreams -> Seq(Events)] /\ x \in Events /\ x.day = d
      /\ log' = [log EXCEPT ![s] = Append(@, x)]
      /\ \A r \in EventStreams : cursor[r] \in Nat /\ cursor[r] <= Len(log[r])
  BY <1>1 DEF PerfectInv, PerfectTypes, Events
<1>3. /\ log'[s] = Append(log[s], x) /\ \A r \in EventStreams \ {s} : log'[r] = log[r]
      /\ log[s] \in Seq(Events) /\ Append(log[s], x) \in Seq(Events)
  BY <1>2
<1>4. /\ Len(log[s]) \in Nat /\ DOMAIN log[s] = 1 .. Len(log[s])
      /\ DOMAIN log'[s] = 1 .. Len(log[s]) + 1 /\ Len(log'[s]) = Len(log[s]) + 1
      /\ \A i \in 1 .. Len(log[s]) : log'[s][i] = log[s][i]
      /\ log'[s][Len(log[s]) + 1] = x
  BY <1>3
<1>5. \A r \in EventStreams :
          Len(log[r]) <= Len(log'[r]) /\ Len(log[r]) \in Nat /\ Len(log'[r]) \in Nat
  <2> SUFFICES ASSUME NEW r \in EventStreams
               PROVE  Len(log[r]) <= Len(log'[r]) /\ Len(log[r]) \in Nat /\ Len(log'[r]) \in Nat
    OBVIOUS
  <2>1. log[r] \in Seq(Events)
    BY <1>2
  <2> QED
    BY <1>3, <1>4, <2>1
<1>6. PerfectTypes'
  <2>1. log' \in [EventStreams -> Seq(Events)]
    BY <1>2, <1>3
  <2>2. \A r \in EventStreams : cursor[r] <= Len(log'[r])
    BY <1>2, <1>5
  <2>3. worker.step # "fetch" => worker.last <= Len(log'[worker.stream])
    BY <1>5 DEF PerfectInv, PerfectTypes
  <2> QED
    BY <2>1, <2>2, <2>3 DEF PerfectInv, PerfectTypes
<1>7. \A r \in EventStreams : \A i \in DOMAIN log[r] :
          i \in DOMAIN log'[r] /\ log'[r][i] = log[r][i]
  BY <1>3, <1>4
<1>8. \A r \in EventStreams : \A i \in DOMAIN log'[r] :
          log'[r][i].day # d => i \in DOMAIN log[r]
  BY <1>2, <1>3, <1>4
<1>9. ASSUME NEW e \in LocalDays
      PROVE  /\ MeetsConditions(e) => MeetsConditions(e)'
             /\ e # d /\ MeetsConditions(e)' => MeetsConditions(e)
  <2>1. /\ Dailies(e) \subseteq Dailies(e)' /\ (e # d => Dailies(e)' \subseteq Dailies(e))
        /\ IsFiniteSet(Dailies(e)')
    <3>1. log'["challenge"] \in Seq(Events)
      BY <1>6 DEF PerfectTypes, EventStreams
    <3>2. Dailies(e)' \subseteq 1 .. Len(log'["challenge"])
      BY <3>1 DEF Dailies
    <3>3. IsFiniteSet(1 .. Len(log'["challenge"]))
      BY <3>1, FS_Interval
    <3>4. IsFiniteSet(Dailies(e)')
      BY <3>2, <3>3, FS_Subset
    <3> QED
      BY <1>7, <1>8, <3>4 DEF Dailies, EventStreams
  <2>2. /\ Cardinality(Dailies(e)) \in Nat /\ Cardinality(Dailies(e)') \in Nat
        /\ Cardinality(Dailies(e)) <= Cardinality(Dailies(e)')
        /\ e # d => Dailies(e)' = Dailies(e)
    BY <2>1, FS_Subset, FS_CardinalityType
  <2>3. DailyTarget \in Nat
    BY BatchAssumption
  <2>4. e # d => Cardinality(Dailies(e)') = Cardinality(Dailies(e))
    BY <2>2
  <2>5. Cardinality(Dailies(e)) >= DailyTarget => Cardinality(Dailies(e)') >= DailyTarget
    BY <2>2, <2>3
  <2>6. \A k : (\E i \in DOMAIN log["session"] :
                    log["session"][i].day = e /\ log["session"][i].kind = k)
               => \E i \in DOMAIN log'["session"] :
                    log'["session"][i].day = e /\ log'["session"][i].kind = k
    BY <1>7 DEF EventStreams
  <2>7. \A k : e # d /\ (\E i \in DOMAIN log'["session"] :
                    log'["session"][i].day = e /\ log'["session"][i].kind = k)
               => \E i \in DOMAIN log["session"] :
                    log["session"][i].day = e /\ log["session"][i].kind = k
    BY <1>7, <1>8 DEF EventStreams
  <2> QED
    BY <2>4, <2>5, <2>6, <2>7 DEF MeetsConditions
<1>10. AwardIsAhead'
  <2> SUFFICES ASSUME NEW e \in LocalDays, MeetsConditions(e)', awards[e] = 0
               PROVE  \E r \in EventStreams : \E i \in DOMAIN log'[r] :
                          log'[r][i].day = e /\ Unseen(r, i)
    BY DEF AwardIsAhead, Unseen
  <2>1. CASE e = d
    <3>1. Len(log[s]) + 1 > cursor[s]
      BY <1>2, <1>4
    <3>2. worker.step = "cursor" /\ worker.stream = s => worker.next # Len(log[s]) + 1
      BY <1>4 DEF PerfectInv, PerfectTypes
    <3> QED
      BY <1>2, <1>4, <2>1, <3>1, <3>2 DEF Unseen
  <2>2. CASE e # d
    BY <1>7, <1>9, <2>2 DEF PerfectInv, AwardIsAhead
  <2> QED
    BY <2>1, <2>2
<1> QED
  BY <1>6, <1>9, <1>10 DEF PerfectInv

(* Every step of the perfect days keeps the invariant.                       *)
LEMMA PerfectInvStep == PerfectInv /\ [Perfect!Next]_ofPerfectDays => PerfectInv'
<1> SUFFICES ASSUME PerfectInv, [Perfect!Next]_ofPerfectDays PROVE PerfectInv'
  OBVIOUS
<1>1. \A d : log' = log => (MeetsConditions(d)' <=> MeetsConditions(d))
  BY DEF MeetsConditions, Dailies
<1>2. /\ log \in [EventStreams -> Seq(Events)] /\ worker.stream \in EventStreams
      /\ cursor \in [EventStreams -> Nat] /\ Len(log[worker.stream]) \in Nat
  BY DEF PerfectInv, PerfectTypes
<1>3. CASE UNCHANGED ofPerfectDays
  BY <1>1, <1>3 DEF ofPerfectDays, PerfectInv, PerfectTypes, AwardIsAhead, Unseen
<1>4. ASSUME NEW d \in LocalDays, Perfect!CompleteDaily(d) PROVE PerfectInv'
  BY <1>4, EventArrives DEF Perfect!CompleteDaily, EventStreams
<1>5. ASSUME NEW d \in LocalDays, NEW kind \in {"MORNING", "EVENING"},
             Perfect!CompleteSession(d, kind)
      PROVE  PerfectInv'
  BY <1>5, EventArrives DEF Perfect!CompleteSession, EventStreams
<1>6. ASSUME UNCHANGED <<log, awards, cursor>>, worker'.step # "cursor", PerfectTypes'
      PROVE  PerfectInv'
  BY <1>1, <1>6 DEF PerfectInv, AwardIsAhead, Unseen
<1>7. CASE Perfect!Fetch
  <2>1. PICK s \in EventStreams : s = worker.stream
    BY <1>2
  <2>2. PICK n : n = Len(log[s]) - cursor[s]
    OBVIOUS
  <2>3. n \in Nat /\ cursor[s] \in Nat /\ Batch \in Nat \ {0}
    BY <1>2, <2>1, <2>2, BatchAssumption DEF PerfectInv, PerfectTypes
  <2>4. UNCHANGED <<log, awards, cursor>>
    BY <1>7 DEF Perfect!Fetch
  <2>5. CASE n = 0
    <3>1. worker' = [Perfect!Asleep EXCEPT !.stream = Perfect!NextStream(s)]
      BY <1>7, <2>1, <2>2, <2>5 DEF Perfect!Fetch
    <3>2. worker' \in [step : {"fetch", "award", "cursor"}, stream : EventStreams,
                       next : Nat, last : Nat, full : BOOLEAN] /\ worker'.step = "fetch"
      BY <3>1 DEF Perfect!Asleep, Perfect!NextStream, EventStreams
    <3> QED
      BY <1>6, <2>4, <3>2 DEF PerfectInv, PerfectTypes
  <2>6. CASE n # 0
    <3>1. worker' = [step |-> "award", stream |-> s, next |-> cursor[s] + 1,
                     last |-> cursor[s] + (IF n > Batch THEN Batch ELSE n), full |-> n >= Batch]
      BY <1>7, <2>1, <2>2, <2>6 DEF Perfect!Fetch
    <3>2. /\ cursor[s] + 1 \in Nat /\ cursor[s] + (IF n > Batch THEN Batch ELSE n) \in Nat
          /\ cursor[s] + 1 <= cursor[s] + (IF n > Batch THEN Batch ELSE n)
          /\ cursor[s] + (IF n > Batch THEN Batch ELSE n) <= Len(log[s])
          /\ (n >= Batch) \in BOOLEAN
      BY <1>2, <2>1, <2>2, <2>3, <2>6
    <3> QED
      BY <1>6, <2>4, <3>1, <3>2 DEF PerfectInv, PerfectTypes
  <2> QED
    BY <2>5, <2>6
<1>8. CASE Perfect!MaybeAward
  <2>1. PICK s \in EventStreams : s = worker.stream
    BY <1>2
  <2>2. PICK d : d = log[s][worker.next].day
    OBVIOUS
  <2>3. /\ worker.step = "award" /\ worker' = [worker EXCEPT !.step = "cursor"]
        /\ UNCHANGED <<log, cursor>>
        /\ awards' = [awards EXCEPT ![d] = IF @ = 0 /\ MeetsConditions(d) THEN 1 ELSE @]
    BY <1>8, <2>1, <2>2, ConditionsAre DEF Perfect!MaybeAward
  <2>4. PerfectTypes'
    BY <2>3 DEF PerfectInv, PerfectTypes
  <2>5. \A e \in LocalDays :
            IF e = d /\ MeetsConditions(d) THEN awards'[e] = 1 ELSE awards'[e] = awards[e]
    BY <2>3 DEF PerfectInv, PerfectTypes
  <2>6. AwardIsAhead'
    <3> SUFFICES ASSUME NEW e \in LocalDays, MeetsConditions(e), awards'[e] = 0
                 PROVE  \E r \in EventStreams : \E i \in DOMAIN log[r] :
                            log[r][i].day = e /\ Unseen(r, i)'
      BY <1>1, <2>3 DEF AwardIsAhead
    <3>1. awards[e] = 0 /\ e # d
      BY <2>5
    <3>0. PICK r \in EventStreams : \E i \in DOMAIN log[r] : log[r][i].day = e /\ Unseen(r, i)
      BY <3>1 DEF PerfectInv, AwardIsAhead
    <3>2. PICK i \in DOMAIN log[r] : log[r][i].day = e /\ Unseen(r, i)
      BY <3>0
    <3>3. ~(r = s /\ i = worker.next)
      BY <2>2, <3>1, <3>2
    <3>4. worker'.stream = s /\ worker'.next = worker.next
      BY <2>1, <2>3 DEF PerfectInv, PerfectTypes
    <3> QED
      BY <2>3, <3>2, <3>3, <3>4 DEF Unseen
  <2> QED
    BY <1>1, <2>3, <2>4, <2>5, <2>6 DEF PerfectInv
<1>9. CASE Perfect!MoveCursor
  <2>1. PICK s \in EventStreams : s = worker.stream
    BY <1>2
  <2>2. /\ worker.step = "cursor" /\ cursor' = [cursor EXCEPT ![s] = worker.next]
        /\ UNCHANGED <<log, awards>>
        /\ worker' = IF worker.next < worker.last
                     THEN [worker EXCEPT !.step = "award", !.next = @ + 1]
                     ELSE [Perfect!Asleep EXCEPT
                               !.stream = IF worker.full THEN s ELSE Perfect!NextStream(s)]
    BY <1>9, <2>1 DEF Perfect!MoveCursor
  <2>3. /\ worker.next \in Nat /\ worker.last \in Nat /\ worker.next = cursor[s] + 1
        /\ worker.next <= worker.last /\ worker.last <= Len(log[s]) /\ Len(log[s]) \in Nat
        /\ cursor[s] \in Nat
    BY <1>2, <2>1, <2>2 DEF PerfectInv, PerfectTypes
  <2>4. /\ cursor'[s] = worker.next /\ \A r \in EventStreams \ {s} : cursor'[r] = cursor[r]
        /\ cursor' \in [EventStreams -> Nat]
    BY <1>2, <2>2, <2>3
  <2>5. worker'.step # "cursor" /\ PerfectTypes'
    <3>1. \A r \in EventStreams : cursor'[r] <= Len(log'[r])
      <4>1. cursor'[s] <= Len(log[s])
        BY <2>3, <2>4
      <4>2. \A r \in EventStreams : cursor[r] <= Len(log[r])
        BY DEF PerfectInv, PerfectTypes
      <4> QED
        BY <2>2, <2>4, <4>1, <4>2
    <3>2. CASE worker.next < worker.last
      <4>1. worker' = [worker EXCEPT !.step = "award", !.next = worker.next + 1]
        BY <2>2, <3>2
      <4>2. /\ worker'.step = "award" /\ worker'.stream = s /\ worker'.next = worker.next + 1
            /\ worker'.last = worker.last
            /\ worker' \in [step : {"fetch", "award", "cursor"}, stream : EventStreams,
                            next : Nat, last : Nat, full : BOOLEAN]
        <5>1. worker \in [step : {"fetch", "award", "cursor"}, stream : EventStreams,
                          next : Nat, last : Nat, full : BOOLEAN] /\ worker.next + 1 \in Nat
          BY <2>3 DEF PerfectInv, PerfectTypes
        <5> QED
          BY <2>1, <4>1, <5>1
      <4>3. /\ worker'.next = cursor'[worker'.stream] + 1 /\ worker'.next <= worker'.last
            /\ worker'.last <= Len(log'[worker'.stream])
        <5>1. worker'.next = cursor'[s] + 1 /\ worker'.next <= worker'.last
          BY <2>3, <2>4, <3>2, <4>2
        <5>2. Len(log'[s]) = Len(log[s])
          BY <2>2
        <5> QED
          BY <2>3, <4>2, <5>1, <5>2
      <4> QED
        BY <2>2, <2>4, <3>1, <4>2, <4>3 DEF PerfectInv, PerfectTypes
    <3>3. CASE ~(worker.next < worker.last)
      <4>1. worker'.step = "fetch" /\
            worker' \in [step : {"fetch", "award", "cursor"}, stream : EventStreams,
                         next : Nat, last : Nat, full : BOOLEAN]
        BY <2>2, <3>3 DEF Perfect!Asleep, Perfect!NextStream, EventStreams
      <4> QED
        BY <2>2, <2>4, <3>1, <4>1 DEF PerfectInv, PerfectTypes
    <3> QED
      BY <3>2, <3>3
  <2>6. ASSUME NEW r \in EventStreams, NEW i \in DOMAIN log[r], Unseen(r, i) PROVE Unseen(r, i)'
    <3>1. log[r] \in Seq(Events) /\ i \in Nat /\ cursor[r] \in Nat
      BY <1>2
    <3>2. i > cursor[r] /\ ~(r = s /\ i = worker.next)
      BY <2>1, <2>2, <2>6 DEF Unseen
    <3>3. i > cursor'[r]
      BY <2>3, <2>4, <3>1, <3>2
    <3> QED
      BY <2>5, <3>3 DEF Unseen
  <2> QED
    BY <1>1, <2>2, <2>5, <2>6 DEF PerfectInv, AwardIsAhead
<1>10. CASE Perfect!Die
  <2>1. worker'.step = "fetch" /\
        worker' \in [step : {"fetch", "award", "cursor"}, stream : EventStreams,
                     next : Nat, last : Nat, full : BOOLEAN]
    BY <1>10 DEF Perfect!Die, Perfect!Asleep, EventStreams
  <2> QED
    BY <1>6, <1>10, <2>1 DEF Perfect!Die, PerfectInv, PerfectTypes
<1> QED
  BY <1>3, <1>4, <1>5, <1>7, <1>8, <1>9, <1>10 DEF Perfect!Next

(* It holds before the first event.                                          *)
LEMMA PerfectInvInit == Perfect!Init => PerfectInv
<1> SUFFICES ASSUME Perfect!Init PROVE PerfectInv
  OBVIOUS
<1>1. /\ log = [s \in EventStreams |-> <<>>] /\ awards = [d \in LocalDays |-> 0]
      /\ cursor = [s \in EventStreams |-> 0] /\ worker = Perfect!Asleep
  BY DEF Perfect!Init, Perfect!Streams, EventStreams
<1>2. PerfectTypes
  BY <1>1 DEF PerfectTypes, Perfect!Asleep, EventStreams
<1>3. \A d \in LocalDays : ~MeetsConditions(d) /\ awards[d] # 1
  BY <1>1 DEF MeetsConditions, EventStreams
<1> QED
  BY <1>2, <1>3 DEF PerfectInv, AwardIsAhead

(* When both cursors are at the ends nothing is to come.                     *)
LEMMA PerfectInvMeans == PerfectInv => Perfect!PerfectDaysFollowEvents
<1> SUFFICES ASSUME PerfectInv PROVE Perfect!PerfectDaysFollowEvents
  OBVIOUS
<1>1. Perfect!AwardIsEarned
  BY ConditionsAre DEF PerfectInv, PerfectTypes, Perfect!AwardIsEarned
<1>2. ASSUME \A s \in EventStreams : cursor[s] = Len(log[s]),
             NEW d \in LocalDays, MeetsConditions(d)
      PROVE  awards[d] = 1
  <2>1. \A s \in EventStreams : \A i \in DOMAIN log[s] : ~(i > cursor[s])
    <3> SUFFICES ASSUME NEW s \in EventStreams, NEW i \in DOMAIN log[s] PROVE ~(i > cursor[s])
      OBVIOUS
    <3>1. log[s] \in Seq(Events)
      BY DEF PerfectInv, PerfectTypes
    <3> QED
      BY <1>2, <3>1
  <2> QED
    BY <1>2, <2>1 DEF PerfectInv, PerfectTypes, AwardIsAhead, Unseen
<1>3. Perfect!PerfectDaysAreAwarded
  BY <1>2, ConditionsAre DEF Perfect!PerfectDaysAreAwarded, Perfect!Streams, EventStreams
<1> QED
  BY <1>1, <1>3 DEF Perfect!PerfectDaysFollowEvents

-----------------------------------------------------------------------------
(* The trust jobs.                                                           *)

Rounds == 1 .. Len(TrustMaxVotes)
AnyVote == [type : {"OVER", "UNDER", "FAIR"}, verified : BOOLEAN]
AnyCycle == [votes : Seq(AnyVote), beforeFreeze : Nat, outcome : {"UP", "DOWN", "FLAT", "open"}]
Statuses == {"none", "PENDING", "PROCESSING", "DONE", "FAILED"}
IsClosed(c) == c \in Trust!Ids /\ cycles[c].outcome # "open"
Scored(c) == \E i \in DOMAIN scores : scores[i].cycle = c
NoScore(c) == cycles[c].outcome = "FLAT" \/ Trust!Eligible(c) = {}
Settled(c) == c \in trust.counted \/ NoScore(c)

(* A job is of a closed cycle.                                               *)
JobsFit ==
    /\ cycles \in Seq(AnyCycle) /\ Len(cycles) \in Rounds
    /\ job \in [Rounds -> Statuses]
    /\ \A c \in Rounds : job[c] # "none" => IsClosed(c)

(* A worker's job was PENDING, and not since it claimed it.                  *)
WorkerFits(w) ==
    /\ trustWorker[w].pc \in {"idle", "claim", "score", "recount", "write", "done"}
    /\ trustWorker[w].pc \in {"claim", "score", "recount", "done"} =>
           trustWorker[w] \in [pc : {"claim", "score", "recount", "done"}, job : Rounds]
    /\ trustWorker[w].pc # "idle" =>
           trustWorker[w].job \in Rounds /\ job[trustWorker[w].job] # "none"
    /\ trustWorker[w].pc \in {"score", "recount", "write", "done"} =>
           job[trustWorker[w].job] # "PENDING"
    /\ trustWorker[w].pc \in {"recount", "write"} => Scored(trustWorker[w].job)

WorkersFit == DOMAIN trustWorker = Requests /\ \A w \in Requests : WorkerFits(w)

(* A score is of the last eligible vote of a closed cycle.                   *)
ScoreIs(s) ==
    /\ IsClosed(s.cycle) /\ cycles[s.cycle].outcome \in {"UP", "DOWN"}
    /\ \E j \in Trust!Eligible(s.cycle) :
          /\ \A k \in Trust!Eligible(s.cycle) : k <= j
          /\ s.aligned <=> cycles[s.cycle].votes[j].type
                             = IF cycles[s.cycle].outcome = "UP" THEN "OVER" ELSE "UNDER"

ScoresFit ==
    /\ scores \in Seq([cycle : Rounds, aligned : BOOLEAN])
    /\ \A i \in DOMAIN scores : ScoreIs(scores[i])
    /\ \A i, k \in DOMAIN scores : scores[i].cycle = scores[k].cycle => i = k

(* A trust state is that of the scores up to some time.                      *)
Misaligned(n) == {i \in 1 .. n : i > n - Recent /\ ~scores[i].aligned}
Reflects(t) == \E n \in 0 .. Len(scores) :
    /\ t.counted = {scores[i].cycle : i \in 1 .. n}
    /\ Trust!Cardinality(Misaligned(n)) >= Misses => t.tier = "PROBATION"

StatesReflect ==
    /\ Reflects(trust)
    /\ \A w \in Requests : trustWorker[w].pc = "write" => Reflects(trustWorker[w].state)

(* Alone, a recomputation loses no score, and what is DONE is counted.       *)
NothingIsLost == ~trustOverlap =>
    /\ \A v, w \in Requests : trustWorker[v].pc = "write" /\ trustWorker[w].pc = "write" => v = w
    /\ \A w \in Requests : trustWorker[w].pc = "write" =>
           trustWorker[w].job \in trustWorker[w].state.counted
           /\ trust.counted \subseteq trustWorker[w].state.counted
    /\ \A w \in Requests : trustWorker[w].pc = "done" => Settled(trustWorker[w].job)
    /\ \A c \in Rounds : job[c] = "DONE" => Settled(c)

(* A job was not claimed before it is PENDING no more, by one worker.        *)
ClaimsFit ==
    /\ DOMAIN claims = Rounds
    /\ ~raced =>
           /\ \A v, w \in Requests :
                  trustWorker[v].pc = "claim" /\ trustWorker[w].pc = "claim" => v = w
           /\ \A w \in Requests :
                  trustWorker[w].pc = "claim" => job[trustWorker[w].job] = "PENDING"
           /\ \A c \in Rounds :
                  claims[c] \in {0, 1} /\ (job[c] \in {"none", "PENDING"} => claims[c] = 0)

TrustInv == JobsFit /\ WorkersFit /\ ScoresFit /\ StatesReflect /\ NothingIsLost /\ ClaimsFit

(* The brick's side opens the next cycle and changes the open one: what is   *)
(* closed stays as it is.                                                    *)
LEMMA BrickSteps ==
    ASSUME TrustInv,
           \/ \E vote \in TrustVotes[Trust!Now] : Trust!CastVote(vote)
           \/ Trust!EnterFreeze \/ Trust!OpenCycle
           \/ \E outcome \in Trust!Outcomes : Trust!CloseCycle(outcome)
    PROVE  /\ cycles' \in Seq(AnyCycle) /\ Len(cycles') \in Rounds
           /\ \A c : IsClosed(c) => c \in DOMAIN cycles' /\ cycles'[c] = cycles[c]
           /\ UNCHANGED <<job, scores, trust, trustWorker, claims, raced, trustOverlap>>
<1>1. PICK now : now = Len(cycles)
  OBVIOUS
<1>2. /\ cycles \in Seq(AnyCycle) /\ now \in Rounds /\ now \in Nat /\ DOMAIN cycles = 1 .. now
      /\ now \in DOMAIN TrustMaxVotes /\ now \in DOMAIN cycles
      /\ cycles[now] \in AnyCycle /\ cycles \in [1 .. now -> AnyCycle]
  BY <1>1, TrustAssumption DEF TrustInv, JobsFit, Rounds
<1>3. ASSUME NEW x \in AnyCycle, Trust!ChangeCycle(x)
      PROVE  /\ cycles' \in Seq(AnyCycle) /\ Len(cycles') \in Rounds
             /\ \A c : IsClosed(c) => c \in DOMAIN cycles' /\ cycles'[c] = cycles[c]
             /\ UNCHANGED <<job, scores, trust, trustWorker, claims, raced, trustOverlap>>
  <2>1. /\ cycles[now].outcome = "open" /\ cycles' = [cycles EXCEPT ![now] = x]
        /\ UNCHANGED <<job, scores, trust, trustWorker, claims, raced, trustOverlap>>
    BY <1>1, <1>3 DEF Trust!ChangeCycle, Trust!Now
  <2>2. cycles' \in [1 .. now -> AnyCycle]
    BY <1>2, <2>1
  <2>3. cycles' \in Seq(AnyCycle) /\ Len(cycles') = now
    BY <1>2, <2>2
  <2>4. \A c : IsClosed(c) => c \in 1 .. now /\ c # now
    BY <1>2, <2>1 DEF IsClosed, Trust!Ids
  <2> QED
    BY <1>2, <2>1, <2>2, <2>3, <2>4
<1>4. ASSUME NEW vote \in TrustVotes[now], Trust!CastVote(vote)
      PROVE  \E x \in AnyCycle : Trust!ChangeCycle(x)
  <2>1. vote \in AnyVote
    <3>1. TrustVotes[now] \subseteq [type : {"OVER", "UNDER", "FAIR"}, verified : BOOLEAN]
      BY <1>2, TrustAssumption
    <3> QED
      BY <1>4, <3>1 DEF AnyVote
  <2>2. PICK votes : votes = Append(cycles[now].votes, vote)
    OBVIOUS
  <2>3. cycles[now].votes \in Seq(AnyVote)
    BY <1>2 DEF AnyCycle
  <2>4. votes \in Seq(AnyVote)
    BY <2>1, <2>2, <2>3
  <2>5. [cycles[now] EXCEPT !.votes = votes] \in AnyCycle
    BY <1>2, <2>4 DEF AnyCycle
  <2> QED
    BY <1>1, <1>4, <2>2, <2>5 DEF Trust!CastVote, Trust!Now
<1>5. ASSUME Trust!EnterFreeze PROVE \E x \in AnyCycle : Trust!ChangeCycle(x)
  <2>1. [cycles[now] EXCEPT !.beforeFreeze = Len(cycles[now].votes)] \in AnyCycle
    BY <1>2 DEF AnyCycle
  <2> QED
    BY <1>1, <1>5, <2>1 DEF Trust!EnterFreeze, Trust!Now
<1>6. ASSUME NEW outcome \in Trust!Outcomes, Trust!CloseCycle(outcome)
      PROVE  \E x \in AnyCycle : Trust!ChangeCycle(x)
  <2>1. [cycles[now] EXCEPT !.outcome = outcome] \in AnyCycle
    BY <1>2 DEF AnyCycle, Trust!Outcomes
  <2> QED
    BY <1>1, <1>6, <2>1 DEF Trust!CloseCycle, Trust!Now
<1>7. CASE Trust!OpenCycle
  <2>1. /\ now < Len(TrustMaxVotes) /\ cycles' = Append(cycles, Trust!NewCycle(now + 1))
        /\ UNCHANGED <<job, scores, trust, trustWorker, claims, raced, trustOverlap>>
    BY <1>1, <1>7 DEF Trust!OpenCycle, Trust!Now, Trust!MaxCycles
  <2>2. now + 1 \in Rounds /\ now + 1 \in DOMAIN TrustMaxVotes
    BY <1>2, <2>1, TrustAssumption DEF Rounds
  <2>3. Trust!NewCycle(now + 1) \in AnyCycle
    BY <2>2, TrustAssumption DEF Trust!NewCycle, AnyCycle
  <2>4. cycles' \in Seq(AnyCycle) /\ Len(cycles') = now + 1
    BY <1>1, <1>2, <2>1, <2>3
  <2>5. \A c \in 1 .. now : c \in DOMAIN cycles' /\ cycles'[c] = cycles[c]
    BY <1>1, <1>2, <2>1, <2>3
  <2> QED
    BY <1>2, <2>1, <2>2, <2>4, <2>5 DEF IsClosed, Trust!Ids
<1> QED
  BY <1>1, <1>3, <1>4, <1>5, <1>6, <1>7 DEF Trust!Now

(* So the jobs and the scores stay right.                                    *)
LEMMA BrickKeeps ==
    ASSUME TrustInv, cycles' \in Seq(AnyCycle), Len(cycles') \in Rounds,
           \A c : IsClosed(c) => c \in DOMAIN cycles' /\ cycles'[c] = cycles[c],
           UNCHANGED <<job, scores, trust, trustWorker, claims, raced, trustOverlap>>
    PROVE  TrustInv'
<1>1. \A c : IsClosed(c) => /\ IsClosed(c)' /\ cycles'[c] = cycles[c]
                            /\ Trust!Eligible(c)' = Trust!Eligible(c)
                            /\ Settled(c) => Settled(c)'
  BY DEF IsClosed, Trust!Ids, Trust!Eligible, Settled, NoScore
<1>2. JobsFit'
  BY <1>1 DEF TrustInv, JobsFit
<1>3. /\ WorkersFit'
      /\ StatesReflect'
      /\ ClaimsFit'
  <2>1. WorkersFit' /\ ClaimsFit'
    BY DEF TrustInv, WorkersFit, WorkerFits, ClaimsFit, Scored
  <2>2. \A t : Reflects(t) => Reflects(t)'
    BY DEF Reflects, Misaligned
  <2> QED
    BY <2>1, <2>2 DEF TrustInv, StatesReflect
<1>4. ScoresFit'
  <2>1. ASSUME NEW i \in DOMAIN scores PROVE ScoreIs(scores[i])'
    <3>1. PICK s : s = scores[i]
      OBVIOUS
    <3>2. ScoreIs(s) /\ IsClosed(s.cycle) /\ scores'[i] = s
      BY <3>1 DEF TrustInv, ScoresFit, ScoreIs
    <3>3. ScoreIs(s)'
      BY <1>1, <3>2 DEF ScoreIs
    <3> QED
      BY <3>1, <3>2, <3>3 DEF ScoreIs
  <2> QED
    BY <2>1 DEF TrustInv, ScoresFit
<1>5. NothingIsLost'
  <2>1. \A w \in Requests : trustWorker[w].pc = "done" => IsClosed(trustWorker[w].job)
    BY DEF TrustInv, WorkersFit, WorkerFits, JobsFit
  <2>2. \A c \in Rounds : job[c] = "DONE" => IsClosed(c)
    BY DEF TrustInv, JobsFit
  <2> QED
    BY <1>1, <2>1, <2>2 DEF TrustInv, NothingIsLost
<1> QED
  BY <1>2, <1>3, <1>4, <1>5 DEF TrustInv

(* Without a new score the scores stay right.                                *)
LEMMA ScoresStay ==
    ASSUME TrustInv, UNCHANGED <<cycles, scores>>
    PROVE  /\ ScoresFit' /\ \A t : Reflects(t)' <=> Reflects(t)
           /\ \A c : (Scored(c)' <=> Scored(c)) /\ (NoScore(c)' <=> NoScore(c))
           /\ trust' = trust => \A c : Settled(c)' <=> Settled(c)
<1>1. ScoresFit'
  BY DEF TrustInv, ScoresFit, ScoreIs, IsClosed, Trust!Ids, Trust!Eligible
<1>2. \A t : Reflects(t)' <=> Reflects(t)
  BY DEF Reflects, Misaligned
<1>3. \A c : (Scored(c)' <=> Scored(c)) /\ (NoScore(c)' <=> NoScore(c))
  BY DEF Scored, NoScore, Trust!Eligible
<1> QED
  BY <1>1, <1>2, <1>3 DEF Settled

(* Jobs are PENDING for the cycles that have closed.                         *)
LEMMA EnsureStep ==
    ASSUME TrustInv, NEW w \in Requests, Trust!EnsureJobsExist(w) PROVE TrustInv'
<1>1. /\ UNCHANGED <<cycles, scores, trust, trustWorker, claims, raced, trustOverlap>>
      /\ job' = [c \in DOMAIN job |->
                    IF c \in Trust!Closed /\ job[c] = "none" THEN "PENDING" ELSE job[c]]
      /\ job \in [Rounds -> Statuses]
  BY DEF Trust!EnsureJobsExist, Trust!NoJob, TrustInv, JobsFit
<1>2. /\ job' \in [Rounds -> Statuses]
      /\ \A c \in Rounds : \/ job[c] = "none" /\ job'[c] = "PENDING" /\ IsClosed(c)
                           \/ job'[c] = job[c]
  BY <1>1 DEF Statuses, Trust!Closed, IsClosed
<1>3. JobsFit'
  BY <1>1, <1>2 DEF TrustInv, JobsFit, IsClosed, Trust!Ids
<1>4. WorkersFit'
  BY <1>1, <1>2, ScoresStay DEF TrustInv, WorkersFit, WorkerFits
<1>5. ScoresFit'
  BY <1>1, ScoresStay
<1>6. StatesReflect'
  BY <1>1, ScoresStay DEF TrustInv, StatesReflect
<1>7. NothingIsLost'
  <2>1. \A c : Settled(c)' <=> Settled(c)
    BY <1>1, ScoresStay
  <2> QED
    BY <1>1, <1>2, <2>1 DEF TrustInv, NothingIsLost
<1>8. ClaimsFit'
  BY <1>1, <1>2 DEF TrustInv, ClaimsFit, WorkersFit, WorkerFits
<1> QED
  BY <1>3, <1>4, <1>5, <1>6, <1>7, <1>8 DEF TrustInv

(* A worker finds the oldest PENDING job.                                    *)
LEMMA FindJobStep == ASSUME TrustInv, NEW w \in Requests, Trust!FindJob(w) PROVE TrustInv'
<1>1. PICK c : c = Trust!Min(Trust!Pending)
  OBVIOUS
<1>2. c \in Rounds /\ job[c] = "PENDING"
  <2>1. Trust!Pending \subseteq Nat /\ Trust!Pending # {} /\ Trust!Pending \subseteq Rounds
    BY DEF Trust!FindJob, Trust!Pending, Trust!Ids, TrustInv, JobsFit, Rounds
  <2>2. \E n \in Trust!Pending : \A m \in Trust!Pending : n <= m
    BY <2>1, LeastNatural
  <2>3. c \in Trust!Pending
    BY <1>1, <2>2 DEF Trust!Min
  <2> QED
    BY <2>1, <2>3 DEF Trust!Pending
<1>3. /\ UNCHANGED <<cycles, job, scores, trust, claims, trustOverlap>>
      /\ trustWorker' = [trustWorker EXCEPT ![w] = [pc |-> "claim", job |-> c]]
      /\ raced' = (raced \/ \E v \in Requests : trustWorker[v].pc = "claim")
  BY <1>1 DEF Trust!FindJob
<1>4. /\ DOMAIN trustWorker' = Requests
      /\ trustWorker'[w] = [pc |-> "claim", job |-> c]
      /\ \A v \in Requests \ {w} : trustWorker'[v] = trustWorker[v]
  BY <1>3 DEF TrustInv, WorkersFit
<1>5. JobsFit'
  BY <1>3 DEF TrustInv, JobsFit, IsClosed, Trust!Ids
<1>6. WorkersFit'
  <2>1. WorkerFits(w)'
    BY <1>2, <1>3, <1>4 DEF WorkerFits
  <2>2. ASSUME NEW v \in Requests \ {w} PROVE WorkerFits(v)'
    BY <1>3, <1>4, ScoresStay DEF TrustInv, WorkersFit, WorkerFits
  <2> QED
    BY <1>4, <2>1, <2>2 DEF WorkersFit
<1>7. ScoresFit'
  BY <1>3, ScoresStay
<1>8. StatesReflect'
  BY <1>3, <1>4, ScoresStay DEF TrustInv, StatesReflect
<1>9. NothingIsLost'
  <2>1. \A d : Settled(d)' <=> Settled(d)
    BY <1>3, ScoresStay
  <2>2. trustWorker'[w].pc = "claim"
    BY <1>4
  <2> QED
    BY <1>3, <1>4, <2>1, <2>2 DEF TrustInv, NothingIsLost
<1>10. ClaimsFit'
  <2>1. ~raced' => ~raced /\ \A v \in Requests : trustWorker[v].pc # "claim"
    BY <1>3, Zenon
  <2>2. trustWorker'[w].pc = "claim" /\ trustWorker'[w].job = c
    BY <1>4
  <2> QED
    BY <1>2, <1>3, <1>4, <2>1, <2>2 DEF TrustInv, ClaimsFit
<1> QED
  BY <1>5, <1>6, <1>7, <1>8, <1>9, <1>10 DEF TrustInv

(* It claims the job, whatever became of it meanwhile.                       *)
LEMMA ClaimJobStep == ASSUME TrustInv, NEW w \in Requests, Trust!ClaimJob(w) PROVE TrustInv'
<1>1. PICK c : c = trustWorker[w].job
  OBVIOUS
<1>2. /\ trustWorker[w].pc = "claim" /\ DOMAIN trustWorker = Requests
      /\ trustWorker[w] \in [pc : {"claim", "score", "recount", "done"}, job : Rounds]
      /\ c \in Rounds /\ job[c] # "none"
  BY <1>1 DEF Trust!ClaimJob, TrustInv, WorkersFit, WorkerFits
<1>3. /\ UNCHANGED <<cycles, scores, trust, raced, trustOverlap>>
      /\ job' = [job EXCEPT ![c] = "PROCESSING"]
      /\ claims' = [claims EXCEPT ![c] = IF @ = 2 THEN @ ELSE @ + 1]
      /\ trustWorker' = [trustWorker EXCEPT ![w].pc = "score"]
  BY <1>1 DEF Trust!ClaimJob, Trust!Goto
<1>4. /\ DOMAIN trustWorker' = Requests
      /\ trustWorker'[w] = [pc |-> "score", job |-> c]
      /\ \A v \in Requests \ {w} : trustWorker'[v] = trustWorker[v]
  BY <1>1, <1>2, <1>3
<1>5. /\ job \in [Rounds -> Statuses] /\ job' \in [Rounds -> Statuses] /\ job'[c] = "PROCESSING"
      /\ \A d \in Rounds \ {c} : job'[d] = job[d]
  BY <1>2, <1>3 DEF TrustInv, JobsFit, Statuses
<1>6. JobsFit'
  BY <1>2, <1>3, <1>5 DEF TrustInv, JobsFit, IsClosed, Trust!Ids
<1>7. WorkersFit'
  <2>1. WorkerFits(w)'
    BY <1>2, <1>4, <1>5 DEF WorkerFits
  <2>2. ASSUME NEW v \in Requests \ {w} PROVE WorkerFits(v)'
    BY <1>3, <1>4, <1>5, ScoresStay DEF TrustInv, WorkersFit, WorkerFits
  <2> QED
    BY <1>4, <2>1, <2>2 DEF WorkersFit
<1>8. ScoresFit'
  BY <1>3, ScoresStay
<1>9. StatesReflect'
  BY <1>3, <1>4, ScoresStay DEF TrustInv, StatesReflect
<1>10. NothingIsLost'
  <2>1. \A d : Settled(d)' <=> Settled(d)
    BY <1>3, ScoresStay
  <2>2. trustWorker'[w].pc = "score"
    BY <1>4
  <2> QED
    BY <1>3, <1>4, <1>5, <2>1, <2>2 DEF TrustInv, NothingIsLost
<1>11. ClaimsFit'
  <2>1. DOMAIN claims' = Rounds /\ \A d \in Rounds \ {c} : claims'[d] = claims[d]
    BY <1>3 DEF TrustInv, ClaimsFit
  <2>2. ASSUME ~raced PROVE claims'[c] = 1
    BY <1>1, <1>2, <1>3, <2>2 DEF TrustInv, ClaimsFit
  <2>3. ASSUME ~raced, NEW v \in Requests \ {w}, trustWorker[v].pc = "claim" PROVE FALSE
    BY <1>2, <2>3 DEF TrustInv, ClaimsFit
  <2>4. trustWorker'[w].pc = "score"
    BY <1>4
  <2> QED
    BY <1>3, <1>4, <1>5, <2>1, <2>2, <2>3, <2>4 DEF TrustInv, ClaimsFit
<1> QED
  BY <1>6, <1>7, <1>8, <1>9, <1>10, <1>11 DEF TrustInv

(* A cycle that scores gets the score of its last eligible vote.             *)
LEMMA LastVoteIs ==
    ASSUME TrustInv, NEW c \in Rounds, IsClosed(c), ~NoScore(c),
           NEW s, s.cycle = c,
           s.aligned = Trust!Aligned(cycles[c].votes[Trust!Max(Trust!Eligible(c))].type,
                                     cycles[c].outcome)
    PROVE  ScoreIs(s)
<1>1. PICK E : E = Trust!Eligible(c)
  OBVIOUS
<1>2. PICK n : n = Len(cycles[c].votes)
  OBVIOUS
<1>3. /\ cycles[c] \in AnyCycle /\ cycles[c].votes \in Seq(AnyVote) /\ n \in Nat
      /\ DOMAIN cycles[c].votes = 1 .. n /\ cycles[c].outcome \in {"UP", "DOWN"}
  <2>1. cycles \in Seq(AnyCycle) /\ c \in DOMAIN cycles
    BY DEF TrustInv, JobsFit, IsClosed, Trust!Ids
  <2>2. cycles[c] \in AnyCycle
    BY <2>1
  <2>3. cycles[c].votes \in Seq(AnyVote)
    BY <2>2 DEF AnyCycle
  <2>4. cycles[c].outcome \in {"UP", "DOWN"}
    BY <2>2 DEF AnyCycle, IsClosed, NoScore
  <2> QED
    BY <1>2, <2>2, <2>3, <2>4
<1>4. E \subseteq Nat /\ E # {} /\ \A m \in E : m <= n
  BY <1>1, <1>3 DEF Trust!Eligible, NoScore
<1>5. PICK j \in E : j = Sets!Max(E)
  BY <1>3, <1>4, GreatestIs
<1>6. \A m \in E : m <= j
  BY <1>3, <1>4, <1>5, GreatestIs
<1>7. Trust!Max(E) \in E /\ \A m \in E : Trust!Max(E) >= m
  <2>1. \E x \in E : \A y \in E : x >= y
    BY <1>4, <1>6
  <2> QED
    BY <2>1 DEF Trust!Max
<1>8. Trust!Max(E) \in E /\ \A m \in E : m <= Trust!Max(E)
  BY <1>4, <1>7
<1>9. \A t : Trust!Aligned(t, cycles[c].outcome)
               <=> t = IF cycles[c].outcome = "UP" THEN "OVER" ELSE "UNDER"
  BY <1>3 DEF Trust!Aligned
<1> QED
  BY <1>1, <1>3, <1>8, <1>9 DEF ScoreIs

(* A new score is of a cycle that had none: what was reflected still is.     *)
LEMMA ScoreArrives ==
    ASSUME TrustInv, UNCHANGED cycles, NEW c \in Rounds, ~Scored(c), NEW s, ScoreIs(s),
           s \in [cycle : Rounds, aligned : BOOLEAN], s.cycle = c, scores' = Append(scores, s)
    PROVE  /\ ScoresFit' /\ \A t : Reflects(t) => Reflects(t)'
           /\ \A d : Scored(d) => Scored(d)'
           /\ Scored(c)'
<1>1. PICK n : n = Len(scores)
  OBVIOUS
<1>2. /\ scores \in Seq([cycle : Rounds, aligned : BOOLEAN]) /\ n \in Nat
      /\ DOMAIN scores = 1 .. n
  BY <1>1 DEF TrustInv, ScoresFit
<1>3. /\ scores' \in Seq([cycle : Rounds, aligned : BOOLEAN])
      /\ Len(scores') = n + 1 /\ DOMAIN scores' = 1 .. n + 1 /\ scores'[n + 1] = s
      /\ \A i \in 1 .. n : scores'[i] = scores[i]
  BY <1>1, <1>2
<1>4. \A x : ScoreIs(x) => ScoreIs(x)'
  BY DEF ScoreIs, IsClosed, Trust!Ids, Trust!Eligible
<1>5. ScoresFit'
  <2>1. \A i \in DOMAIN scores' : i = n + 1 \/ i \in 1 .. n
    BY <1>2, <1>3
  <2>2. ASSUME NEW i \in DOMAIN scores' PROVE ScoreIs(scores[i])'
    <3>1. PICK x : x = scores'[i] /\ ScoreIs(x)
      BY <1>2, <1>3, <2>1 DEF TrustInv, ScoresFit
    <3>2. ScoreIs(x)'
      BY <1>4, <3>1
    <3> QED
      BY <3>1, <3>2 DEF ScoreIs
  <2>3. \A i, k \in DOMAIN scores' : scores'[i].cycle = scores'[k].cycle => i = k
    BY <1>2, <1>3, <2>1 DEF TrustInv, ScoresFit, Scored
  <2> QED
    BY <1>3, <2>2, <2>3 DEF ScoresFit
<1>6. ASSUME NEW t, Reflects(t) PROVE Reflects(t)'
  <2>1. PICK k \in 0 .. n : /\ t.counted = {scores[i].cycle : i \in 1 .. k}
                            /\ Trust!Cardinality(Misaligned(k)) >= Misses => t.tier = "PROBATION"
    BY <1>1, <1>6 DEF Reflects
  <2>2. k \in 0 .. n + 1 /\ \A i \in 1 .. k : scores'[i] = scores[i]
    BY <1>2, <1>3
  <2>3. Misaligned(k)' = Misaligned(k)
    BY <2>2 DEF Misaligned
  <2>5. t.counted = {scores'[i].cycle : i \in 1 .. k}
    <3>1. {scores'[i].cycle : i \in 1 .. k} = {scores[i].cycle : i \in 1 .. k}
      BY <2>2
    <3> QED
      BY <2>1, <3>1
  <2>4. Trust!Cardinality(Misaligned(k)') = Trust!Cardinality(Misaligned(k))
    BY <2>3
  <2> QED
    BY <1>3, <2>1, <2>2, <2>4, <2>5 DEF Reflects
<1>7. \A d : Scored(d) => Scored(d)'
  BY <1>2, <1>3 DEF Scored
<1>8. Scored(c)'
  BY <1>2, <1>3 DEF Scored
<1> QED
  BY <1>5, <1>6, <1>7, <1>8

(* A worker scores the cycle, or finds nothing to score.                     *)
LEMMA ScoreVoteStep == ASSUME TrustInv, NEW w \in Requests, Trust!ScoreVote(w) PROVE TrustInv'
<1>1. PICK c : c = trustWorker[w].job
  OBVIOUS
<1>2. /\ trustWorker[w].pc = "score" /\ DOMAIN trustWorker = Requests
      /\ trustWorker[w] \in [pc : {"claim", "score", "recount", "done"}, job : Rounds]
      /\ c \in Rounds /\ job[c] # "none" /\ job[c] # "PENDING" /\ IsClosed(c)
  BY <1>1 DEF Trust!ScoreVote, TrustInv, WorkersFit, WorkerFits, JobsFit
<1>3. UNCHANGED <<cycles, job, trust, claims, raced, trustOverlap>>
  BY DEF Trust!ScoreVote
<1>4. ASSUME NEW pc \in {"recount", "done"}, trustWorker' = [trustWorker EXCEPT ![w].pc = pc],
             pc = "recount" => Scored(c)', pc = "done" => NoScore(c),
             ScoresFit', \A t : Reflects(t) => Reflects(t)', \A d : Scored(d) => Scored(d)'
      PROVE  TrustInv'
  <2>1. /\ DOMAIN trustWorker' = Requests
        /\ trustWorker'[w] = [pc |-> pc, job |-> c]
        /\ \A v \in Requests \ {w} : trustWorker'[v] = trustWorker[v]
    BY <1>1, <1>2, <1>4
  <2>2. JobsFit'
    BY <1>3 DEF TrustInv, JobsFit, IsClosed, Trust!Ids
  <2>3. WorkersFit'
    <3>1. WorkerFits(w)'
      BY <1>2, <1>3, <1>4, <2>1 DEF WorkerFits
    <3>2. ASSUME NEW v \in Requests \ {w} PROVE WorkerFits(v)'
      BY <1>3, <1>4, <2>1 DEF TrustInv, WorkersFit, WorkerFits
    <3> QED
      BY <2>1, <3>1, <3>2 DEF WorkersFit
  <2>4. StatesReflect'
    BY <1>3, <1>4, <2>1 DEF TrustInv, StatesReflect
  <2>5. NothingIsLost'
    <3>1. \A d : (NoScore(d)' <=> NoScore(d)) /\ (Settled(d)' <=> Settled(d))
      BY <1>3 DEF Settled, NoScore, Trust!Eligible
    <3>2. pc = "done" => Settled(c)'
      BY <1>4, <3>1 DEF Settled
    <3>3. trustWorker'[w].pc = pc /\ trustWorker'[w].job = c
      BY <2>1
    <3> QED
      BY <1>3, <1>4, <2>1, <3>1, <3>2, <3>3 DEF TrustInv, NothingIsLost
  <2>6. ClaimsFit'
    <3>1. trustWorker'[w].pc = pc
      BY <2>1
    <3> QED
      BY <1>3, <1>4, <2>1, <3>1 DEF TrustInv, ClaimsFit
  <2> QED
    BY <1>4, <2>2, <2>3, <2>4, <2>5, <2>6 DEF TrustInv
<1>5. CASE NoScore(c)
  <2>1. UNCHANGED scores /\ trustWorker' = [trustWorker EXCEPT ![w].pc = "done"]
    BY <1>1, <1>5 DEF Trust!ScoreVote, Trust!Goto, NoScore
  <2> QED
    BY <1>3, <1>4, <1>5, <2>1, ScoresStay
<1>6. CASE ~NoScore(c)
  <2>1. PICK s : s = [cycle |-> c, aligned |-> Trust!Aligned(
                          cycles[c].votes[Trust!Max(Trust!Eligible(c))].type, cycles[c].outcome)]
    OBVIOUS
  <2>2. /\ trustWorker' = [trustWorker EXCEPT ![w].pc = "recount"]
        /\ scores' = IF Scored(c) THEN scores ELSE Append(scores, s)
    BY <1>1, <1>6, <2>1 DEF Trust!ScoreVote, Trust!Goto, NoScore, Scored
  <2>3. CASE Scored(c)
    <3>1. UNCHANGED scores
      BY <2>2, <2>3
    <3>2. Scored(c)'
      BY <2>3, <3>1 DEF Scored
    <3> QED
      BY <1>3, <1>4, <2>2, <3>1, <3>2, ScoresStay
  <2>4. CASE ~Scored(c)
    <3>1. s \in [cycle : Rounds, aligned : BOOLEAN]
      BY <1>2, <2>1 DEF Trust!Aligned
    <3>2. s.cycle = c /\ s.aligned = Trust!Aligned(
                          cycles[c].votes[Trust!Max(Trust!Eligible(c))].type, cycles[c].outcome)
      BY <2>1
    <3>3. ScoreIs(s)
      BY <1>2, <1>6, <3>2, LastVoteIs
    <3>4. /\ ScoresFit' /\ \A t : Reflects(t) => Reflects(t)'
          /\ \A d : Scored(d) => Scored(d)'
          /\ Scored(c)'
      BY <1>2, <1>3, <2>2, <2>4, <3>1, <3>2, <3>3, ScoreArrives
    <3> QED
      BY <1>4, <2>2, <3>4
  <2> QED
    BY <2>3, <2>4
<1> QED
  BY <1>5, <1>6

(* A recomputation reads all the scores.                                     *)
LEMMA RecountedIs ==
    ASSUME TrustInv
    PROVE  /\ Trust!Recounted.counted = {scores[i].cycle : i \in DOMAIN scores}
           /\ Reflects(Trust!Recounted)
<1>1. PICK n : n = Len(scores)
  OBVIOUS
<1>2. n \in Nat /\ DOMAIN scores = 1 .. n /\ n \in 0 .. Len(scores)
  BY <1>1 DEF TrustInv, ScoresFit
<1>3. Trust!Recounted.counted = {scores[i].cycle : i \in DOMAIN scores}
  BY DEF Trust!Recounted
<1>4. Trust!InCooldown(scores) <=> Trust!Cardinality(Misaligned(n)) >= Misses
  <2>1. Misaligned(n) = {i \in DOMAIN scores : i > Len(scores) - Recent /\ ~scores[i].aligned}
    BY <1>1, <1>2 DEF Misaligned
  <2> QED
    BY <2>1 DEF Trust!InCooldown
<1>5. Trust!InCooldown(scores) => Trust!Recounted.tier = "PROBATION"
  BY DEF Trust!Recounted
<1> QED
  BY <1>2, <1>3, <1>4, <1>5 DEF Reflects

(* The transaction reads the scores.                                         *)
LEMMA ReadScoresStep == ASSUME TrustInv, NEW w \in Requests, Trust!ReadScores(w) PROVE TrustInv'
<1>1. PICK c, r : c = trustWorker[w].job /\ r = Trust!Recounted
  OBVIOUS
<1>2. /\ trustWorker[w].pc = "recount" /\ DOMAIN trustWorker = Requests
      /\ c \in Rounds /\ job[c] # "none" /\ job[c] # "PENDING" /\ Scored(c)
  BY <1>1 DEF Trust!ReadScores, TrustInv, WorkersFit, WorkerFits
<1>3. /\ UNCHANGED <<cycles, job, scores, trust, claims, raced>>
      /\ trustWorker' = [trustWorker EXCEPT ![w] = [pc |-> "write", job |-> c, state |-> r]]
      /\ trustOverlap' = (trustOverlap \/ \E v \in Requests : trustWorker[v].pc = "write")
  BY <1>1 DEF Trust!ReadScores
<1>4. /\ DOMAIN trustWorker' = Requests
      /\ trustWorker'[w] = [pc |-> "write", job |-> c, state |-> r]
      /\ \A v \in Requests \ {w} : trustWorker'[v] = trustWorker[v]
  BY <1>2, <1>3
<1>5. r.counted = {scores[i].cycle : i \in DOMAIN scores} /\ Reflects(r)
  BY <1>1, RecountedIs
<1>6. JobsFit'
  BY <1>3 DEF TrustInv, JobsFit, IsClosed, Trust!Ids
<1>7. WorkersFit'
  <2>1. WorkerFits(w)'
    BY <1>2, <1>3, <1>4, ScoresStay DEF WorkerFits
  <2>2. ASSUME NEW v \in Requests \ {w} PROVE WorkerFits(v)'
    BY <1>3, <1>4, ScoresStay DEF TrustInv, WorkersFit, WorkerFits
  <2> QED
    BY <1>4, <2>1, <2>2 DEF WorkersFit
<1>8. ScoresFit'
  BY <1>3, ScoresStay
<1>9. StatesReflect'
  <2>1. trustWorker'[w].state = r
    BY <1>4
  <2> QED
    BY <1>3, <1>4, <1>5, <2>1, ScoresStay DEF TrustInv, StatesReflect
<1>10. NothingIsLost'
  <2>1. \A d : Settled(d)' <=> Settled(d)
    BY <1>3, ScoresStay
  <2>2. ~trustOverlap' => ~trustOverlap /\ \A v \in Requests : trustWorker[v].pc # "write"
    BY <1>3, Zenon
  <2>3. c \in r.counted
    BY <1>2, <1>5 DEF Scored
  <2>4. trust.counted \subseteq r.counted
    <3>1. PICK n \in 0 .. Len(scores) : trust.counted = {scores[i].cycle : i \in 1 .. n}
      BY DEF TrustInv, StatesReflect, Reflects
    <3>2. 1 .. n \subseteq DOMAIN scores
      BY DEF TrustInv, ScoresFit
    <3> QED
      BY <1>5, <3>1, <3>2
  <2>5. trustWorker'[w].pc = "write" /\ trustWorker'[w].job = c /\ trustWorker'[w].state = r
    BY <1>4
  <2> QED
    BY <1>3, <1>4, <2>1, <2>2, <2>3, <2>4, <2>5 DEF TrustInv, NothingIsLost
<1>11. ClaimsFit'
  <2>1. trustWorker'[w].pc = "write"
    BY <1>4
  <2> QED
    BY <1>3, <1>4, <2>1 DEF TrustInv, ClaimsFit
<1> QED
  BY <1>6, <1>7, <1>8, <1>9, <1>10, <1>11 DEF TrustInv

(* It writes what it computed, over what another may have written.           *)
LEMMA WriteTrustStep == ASSUME TrustInv, NEW w \in Requests, Trust!WriteTrust(w) PROVE TrustInv'
<1>1. PICK c, r : c = trustWorker[w].job /\ r = trustWorker[w].state
  OBVIOUS
<1>2. /\ trustWorker[w].pc = "write" /\ DOMAIN trustWorker = Requests
      /\ c \in Rounds /\ job[c] # "none" /\ job[c] # "PENDING" /\ Reflects(r)
  BY <1>1 DEF Trust!WriteTrust, TrustInv, WorkersFit, WorkerFits, StatesReflect
<1>3. /\ UNCHANGED <<cycles, job, scores, claims, raced, trustOverlap>> /\ trust' = r
      /\ trustWorker' = [trustWorker EXCEPT ![w] = [pc |-> "done", job |-> c]]
  BY <1>1 DEF Trust!WriteTrust
<1>4. /\ DOMAIN trustWorker' = Requests
      /\ trustWorker'[w] = [pc |-> "done", job |-> c]
      /\ \A v \in Requests \ {w} : trustWorker'[v] = trustWorker[v]
  BY <1>2, <1>3
<1>5. JobsFit'
  BY <1>3 DEF TrustInv, JobsFit, IsClosed, Trust!Ids
<1>6. WorkersFit'
  <2>1. WorkerFits(w)'
    BY <1>2, <1>3, <1>4 DEF WorkerFits
  <2>2. ASSUME NEW v \in Requests \ {w} PROVE WorkerFits(v)'
    BY <1>3, <1>4, ScoresStay DEF TrustInv, WorkersFit, WorkerFits
  <2> QED
    BY <1>4, <2>1, <2>2 DEF WorkersFit
<1>7. ScoresFit'
  BY <1>3, ScoresStay
<1>8. StatesReflect'
  <2>1. Reflects(r)' /\ \A v \in Requests : trustWorker[v].pc = "write" =>
                                                Reflects(trustWorker[v].state)
    BY <1>2, <1>3, ScoresStay DEF TrustInv, StatesReflect
  <2>2. Reflects(trust)'
    BY <1>3, <2>1 DEF Reflects, Misaligned
  <2>3. trustWorker'[w].pc = "done"
    BY <1>4
  <2>4. \A t : Reflects(t)' <=> Reflects(t)
    BY <1>3, ScoresStay
  <2> QED
    BY <1>4, <2>1, <2>2, <2>3, <2>4 DEF StatesReflect
<1>9. NothingIsLost'
  <2> SUFFICES ASSUME ~trustOverlap PROVE NothingIsLost'
    BY <1>3 DEF NothingIsLost
  <2>1. c \in r.counted /\ trust.counted \subseteq r.counted
        /\ \A v \in Requests \ {w} : trustWorker[v].pc # "write"
    BY <1>1, <1>2 DEF TrustInv, NothingIsLost
  <2>2. \A d : (NoScore(d)' <=> NoScore(d))
    BY <1>3, ScoresStay
  <2>3. Settled(c)' /\ \A d : Settled(d) => Settled(d)'
    BY <1>3, <2>1, <2>2 DEF Settled
  <2>4. trustWorker'[w].pc = "done" /\ trustWorker'[w].job = c
    BY <1>4
  <2> QED
    BY <1>3, <1>4, <2>1, <2>3, <2>4 DEF TrustInv, NothingIsLost
<1>10. ClaimsFit'
  <2>1. trustWorker'[w].pc = "done"
    BY <1>4
  <2> QED
    BY <1>3, <1>4, <2>1 DEF TrustInv, ClaimsFit
<1> QED
  BY <1>5, <1>6, <1>7, <1>8, <1>9, <1>10 DEF TrustInv

(* A worker leaves its job DONE, FAILED, or as it is.                        *)
LEMMA LeaveStep ==
    ASSUME TrustInv, NEW w \in Requests,
           Trust!MarkJobDone(w) \/ Trust!MarkJobFailed(w) \/ Trust!WorkerDies(w)
    PROVE  TrustInv'
<1>1. PICK c : c = trustWorker[w].job
  OBVIOUS
<1>2. /\ UNCHANGED <<cycles, scores, trust, claims, raced, trustOverlap>>
      /\ trustWorker' = [trustWorker EXCEPT ![w] = Trust!Free]
      /\ \/ trustWorker[w].pc = "done" /\ job' = [job EXCEPT ![c] = "DONE"]
         \/ /\ trustWorker[w].pc \in {"score", "recount", "write", "done"}
            /\ job' = [job EXCEPT ![c] = "FAILED"]
         \/ UNCHANGED job
  BY <1>1 DEF Trust!MarkJobDone, Trust!MarkJobFailed, Trust!WorkerDies
<1>3. /\ DOMAIN trustWorker' = Requests /\ trustWorker'[w].pc = "idle"
      /\ \A v \in Requests \ {w} : trustWorker'[v] = trustWorker[v]
  BY <1>2 DEF TrustInv, WorkersFit, Trust!Free
<1>4. \/ /\ c \in Rounds /\ job[c] \notin {"none", "PENDING"} /\ job'[c] \in {"DONE", "FAILED"}
         /\ job'[c] = "DONE" => trustWorker[w].pc = "done"
         /\ job' \in [Rounds -> Statuses] /\ \A d \in Rounds \ {c} : job'[d] = job[d]
      \/ UNCHANGED job
  <2>1. CASE UNCHANGED job
    BY <2>1
  <2>2. CASE ~UNCHANGED job
    <3>1. c \in Rounds /\ job[c] \notin {"none", "PENDING"} /\ job \in [Rounds -> Statuses]
      BY <1>1, <1>2, <2>2 DEF TrustInv, WorkersFit, WorkerFits, JobsFit
    <3> QED
      BY <1>2, <2>2, <3>1 DEF Statuses
  <2> QED
    BY <2>1, <2>2
<1>5. \A d \in Rounds : /\ job'[d] = "none" <=> job[d] = "none"
                        /\ job'[d] = "PENDING" <=> job[d] = "PENDING"
  BY <1>4
<1>6. JobsFit'
  BY <1>2, <1>4, <1>5 DEF TrustInv, JobsFit, IsClosed, Trust!Ids
<1>7. WorkersFit'
  <2>1. WorkerFits(w)'
    BY <1>3 DEF WorkerFits
  <2>2. ASSUME NEW v \in Requests \ {w} PROVE WorkerFits(v)'
    BY <1>2, <1>3, <1>5, ScoresStay DEF TrustInv, WorkersFit, WorkerFits
  <2> QED
    BY <1>3, <2>1, <2>2 DEF WorkersFit
<1>8. ScoresFit'
  BY <1>2, ScoresStay
<1>9. StatesReflect'
  BY <1>2, <1>3, ScoresStay DEF TrustInv, StatesReflect
<1>10. NothingIsLost'
  <2> SUFFICES ASSUME ~trustOverlap PROVE NothingIsLost'
    BY <1>2 DEF NothingIsLost
  <2>1. \A d : Settled(d)' <=> Settled(d)
    BY <1>2, ScoresStay
  <2>2. \A d \in Rounds : job'[d] = "DONE" => Settled(d)
    BY <1>1, <1>4 DEF TrustInv, NothingIsLost
  <2> QED
    BY <1>2, <1>3, <2>1, <2>2 DEF TrustInv, NothingIsLost
<1>11. ClaimsFit'
  <2>1. \A v \in Requests : trustWorker[v].pc = "claim" => trustWorker[v].job \in Rounds
    BY DEF TrustInv, WorkersFit, WorkerFits
  <2> QED
    BY <1>2, <1>3, <1>5, <2>1 DEF TrustInv, ClaimsFit
<1> QED
  BY <1>6, <1>7, <1>8, <1>9, <1>10, <1>11 DEF TrustInv

(* Every step of the trust jobs keeps the invariant.                         *)
LEMMA TrustInvStep == TrustInv /\ [Trust!Next]_ofTrust => TrustInv'
<1> SUFFICES ASSUME TrustInv, [Trust!Next]_ofTrust PROVE TrustInv'
  OBVIOUS
<1>1. CASE UNCHANGED ofTrust
  <2>1. UNCHANGED <<job, scores, trust, trustWorker, claims, raced, trustOverlap, cycles>>
    BY <1>1 DEF ofTrust
  <2>2. \A c : IsClosed(c) => c \in DOMAIN cycles
    BY DEF IsClosed, Trust!Ids
  <2> QED
    BY <2>1, <2>2, BrickKeeps DEF TrustInv, JobsFit
<1>2. CASE \/ \E vote \in TrustVotes[Trust!Now] : Trust!CastVote(vote)
           \/ Trust!EnterFreeze \/ Trust!OpenCycle
           \/ \E outcome \in Trust!Outcomes : Trust!CloseCycle(outcome)
  BY <1>2, BrickSteps, BrickKeeps
<1> QED
  BY <1>1, <1>2, EnsureStep, FindJobStep, ClaimJobStep, ScoreVoteStep, ReadScoresStep,
     WriteTrustStep, LeaveStep
  DEF Trust!Next

(* It holds before the first cycle has closed.                               *)
LEMMA TrustInvInit == Trust!Init => TrustInv
<1> SUFFICES ASSUME Trust!Init PROVE TrustInv
  OBVIOUS
<1>1. 1 \in DOMAIN TrustMaxVotes /\ 1 \in Rounds /\ TrustMaxVotes[1] \in Nat
  BY TrustAssumption DEF Rounds
<1>2. PICK x : x = Trust!NewCycle(1)
  OBVIOUS
<1>3. x \in AnyCycle /\ x.outcome = "open"
  BY <1>1, <1>2 DEF Trust!NewCycle, AnyCycle
<1>4. /\ cycles = <<x>> /\ job = [c \in Rounds |-> "none"] /\ scores = <<>>
      /\ trust = [tier |-> "UNTRUSTED", aligned |-> 0, misaligned |-> 0, counted |-> {}]
      /\ trustWorker = [w \in Requests |-> [pc |-> "idle"]]
      /\ claims = [c \in Rounds |-> 0]
  BY <1>2 DEF Trust!Init, Trust!MaxCycles, Trust!NoJob, Trust!Free, Rounds
<1>5. JobsFit
  BY <1>1, <1>3, <1>4 DEF JobsFit, Statuses
<1>6. WorkersFit /\ ScoresFit /\ ClaimsFit
  BY <1>4 DEF WorkersFit, WorkerFits, ScoresFit, ClaimsFit
<1>7. StatesReflect
  <2>1. Misaligned(0) = {}
    BY DEF Misaligned
  <2>2. Cardinality({}) = 0
    BY FS_EmptySet
  <2>3. Trust!Cardinality({}) = Cardinality({})
    BY Zenon DEF Trust!Cardinality, Cardinality
  <2>4. ~(Trust!Cardinality(Misaligned(0)) >= Misses)
    <3>1. Trust!Cardinality(Misaligned(0)) = 0
      BY <2>1, <2>2, <2>3
    <3>2. Misses \in Nat /\ Misses # 0
      BY TrustAssumption
    <3>3. ~(0 >= Misses)
      BY <3>2
    <3> QED
      BY <3>1, <3>3
  <2>5. trust.counted = {scores[i].cycle : i \in 1 .. 0} /\ 0 \in 0 .. Len(scores)
    BY <1>4
  <2>6. Reflects(trust)
    BY <2>4, <2>5 DEF Reflects
  <2> QED
    BY <1>4, <2>6 DEF StatesReflect
<1>8. NothingIsLost
  BY <1>4 DEF NothingIsLost
<1> QED
  BY <1>5, <1>6, <1>7, <1>8 DEF TrustInv

(* It says what the property says.                                           *)
LEMMA TrustInvMeans == TrustInv => Trust!TrustFollowsScores
<1> SUFFICES ASSUME TrustInv PROVE Trust!TrustFollowsScores
  OBVIOUS
<1>1. PICK n : n = Len(scores)
  OBVIOUS
<1>2. /\ scores \in Seq([cycle : Rounds, aligned : BOOLEAN]) /\ n \in Nat /\ DOMAIN scores = 1 .. n
      /\ \A i \in 1 .. n : ScoreIs(scores[i])
      /\ \A i, k \in 1 .. n : scores[i].cycle = scores[k].cycle => i = k
  BY <1>1 DEF TrustInv, ScoresFit
<1>3. Trust!ScoreIsLastWord
  <2> SUFFICES ASSUME NEW i \in 1 .. n
               PROVE
        LET c == cycles[scores[i].cycle]
            right == IF c.outcome = "UP" THEN "OVER" ELSE "UNDER"
            Says(j) == c.votes[j].verified /\ c.votes[j].type # "FAIR" /\ j <= c.beforeFreeze
        IN  /\ c.outcome \in {"UP", "DOWN"}
            /\ \A k \in 1 .. n : scores[k].cycle = scores[i].cycle => k = i
            /\ \E j \in DOMAIN c.votes :
                  /\ Says(j) /\ \A k \in DOMAIN c.votes : Says(k) => k <= j
                  /\ scores[i].aligned <=> c.votes[j].type = right
    BY <1>2 DEF Trust!ScoreIsLastWord
  <2>1. ScoreIs(scores[i])
    BY <1>2
  <2> QED
    BY <1>2, <2>1 DEF ScoreIs, Trust!Eligible
<1>4. Trust!DoneIsCounted
  <2> SUFFICES ASSUME ~trustOverlap, NEW i \in 1 .. n, job[scores[i].cycle] = "DONE"
               PROVE  scores[i].cycle \in trust.counted
    BY <1>2 DEF Trust!DoneIsCounted
  <2>1. scores[i].cycle \in Rounds /\ ScoreIs(scores[i])
    <3>1. PICK S : S = [cycle : Rounds, aligned : BOOLEAN]
      OBVIOUS
    <3>2. scores \in Seq(S) /\ i \in DOMAIN scores
      BY <1>2, <3>1
    <3>3. scores[i] \in S
      BY <3>2
    <3> QED
      BY <1>2, <3>1, <3>3
  <2>2. Settled(scores[i].cycle)
    BY <2>1 DEF TrustInv, NothingIsLost
  <2>3. ~NoScore(scores[i].cycle)
    BY <2>1 DEF NoScore, ScoreIs
  <2> QED
    BY <2>2, <2>3 DEF Settled
<1>5. Trust!MissesAreHeldBack
  <2> DEFINE Recently == {i \in DOMAIN scores : Len(scores) - i < Recent /\ ~scores[i].aligned}
  <2> SUFFICES ASSUME trust.counted = {scores[i].cycle : i \in DOMAIN scores},
                      ~(Trust!Cardinality(Recently) < Misses)
               PROVE  trust.tier = "PROBATION"
    BY DEF Trust!MissesAreHeldBack
  <2>1. PICK k \in 0 .. n : /\ trust.counted = {scores[i].cycle : i \in 1 .. k}
                            /\ Trust!Cardinality(Misaligned(k)) >= Misses
                                   => trust.tier = "PROBATION"
    BY <1>1 DEF TrustInv, StatesReflect, Reflects
  <2>2. k = n
    <3> SUFFICES ASSUME k # n PROVE FALSE
      OBVIOUS
    <3>1. n \in 1 .. n /\ n \notin 1 .. k /\ 1 .. k \subseteq 1 .. n
      BY <1>2
    <3>2. scores[n].cycle \in trust.counted
      BY <1>2, <3>1
    <3>3. PICK i \in 1 .. k : scores[i].cycle = scores[n].cycle
      BY <2>1, <3>2
    <3> QED
      BY <1>2, <3>1, <3>3
  <2>3. Misaligned(n) = Recently
    <3>1. \A i \in 1 .. n : i > n - Recent <=> n - i < Recent
      BY <1>2, TrustAssumption
    <3> QED
      BY <1>1, <1>2, <3>1 DEF Misaligned
  <2>4. Cardinality(Recently) \in Nat
    <3>1. Recently \subseteq 1 .. n /\ IsFiniteSet(1 .. n)
      BY <1>2, FS_Interval
    <3> HIDE DEF Recently
    <3> QED
      BY <3>1, FS_Subset, FS_CardinalityType
  <2>5. Trust!Cardinality(Recently) = Cardinality(Recently)
    BY Zenon DEF Trust!Cardinality, Cardinality
  <2> HIDE DEF Recently
  <2>6. Trust!Cardinality(Recently) >= Misses
    BY <2>4, <2>5, TrustAssumption
  <2> QED
    BY <2>1, <2>2, <2>3, <2>6
<1>6. Trust!ClaimedOnce
  BY DEF TrustInv, ClaimsFit, Trust!ClaimedOnce
<1> QED
  BY <1>3, <1>4, <1>5, <1>6 DEF Trust!TrustFollowsScores

-----------------------------------------------------------------------------
(* The types.  Where a variable counts, what it counts and what may still be *)
(* counted is at most the bound on the requests sent.                        *)

(* A submission is a request that waits no more.                             *)
Waiters == {r \in Requests : req[r].pc = "waiting"}
WaitsFor == {[pc |-> "waiting", now |-> d] : d \in LimitDays}
RowsAreSent ==
    /\ bounty \in {"OPEN", "CLOSED", "PAUSED"}
    /\ sent \in 0 .. MaxSent
    /\ req \in [Requests -> {[pc |-> "none"]} \cup WaitsFor]
    /\ sweep \in {[pc |-> "idle"]} \cup WaitsFor
    /\ \A d \in LimitDays : rows[d] + Cardinality(Waiters) <= sent

(* The requests that wait are finitely many.                                 *)
LEMMA WaitersFinite == IsFiniteSet(Waiters) /\ Cardinality(Waiters) \in Nat
<1>1. Waiters \subseteq Requests
  BY DEF Waiters
<1> QED
  BY <1>1, RequestsAssumption, FS_Subset, FS_CardinalityType

(* A request begins to wait, or waits no more.                               *)
LEMMA WaitersMove ==
    ASSUME NEW r \in Requests, NEW q, req' = [req EXCEPT ![r] = q], DOMAIN req = Requests
    PROVE  /\ q.pc = "waiting" => Waiters' = Waiters \cup {r}
           /\ q.pc # "waiting" => Waiters' = Waiters \ {r}
           /\ Cardinality(Waiters \cup {r}) <= Cardinality(Waiters) + 1
           /\ r \in Waiters => Cardinality(Waiters \ {r}) = Cardinality(Waiters) - 1
           /\ Cardinality(Waiters \ {r}) <= Cardinality(Waiters)
<1>1. req'[r] = q /\ \A o \in Requests \ {r} : req'[o] = req[o]
  OBVIOUS
<1>2. /\ q.pc = "waiting" => Waiters' = Waiters \cup {r}
      /\ q.pc # "waiting" => Waiters' = Waiters \ {r}
  BY <1>1 DEF Waiters
<1>3. /\ Cardinality(Waiters \cup {r}) =
            IF r \in Waiters THEN Cardinality(Waiters) ELSE Cardinality(Waiters) + 1
      /\ Cardinality(Waiters \ {r}) =
            IF r \in Waiters THEN Cardinality(Waiters) - 1 ELSE Cardinality(Waiters)
  BY WaitersFinite, FS_AddElement, FS_RemoveElement
<1> QED
  BY <1>2, <1>3, WaitersFinite

(* No day has more submissions than requests were sent.                      *)
LEMMA RowsAreSentStep ==
    LimitInv /\ RowsAreSent /\ [Limit!Next]_ofLimit => RowsAreSent'
<1> SUFFICES ASSUME LimitInv, RowsAreSent, [Limit!Next]_ofLimit PROVE RowsAreSent'
  OBVIOUS
<1>t. /\ today \in LimitDays /\ rows \in [LimitDays -> Nat] /\ DOMAIN req = Requests
      /\ \A d \in LimitDays : rows[d] + Cardinality(Waiters) <= sent
      /\ Cardinality(Waiters) \in Nat /\ sent \in Nat /\ MaxSent \in Nat
  BY WaitersFinite, LimitAssumption DEF LimitInv, LimitTypes, RowsAreSent
<1>1. CASE UNCHANGED <<rows, req, sent, sweep, bounty>>
  BY <1>1 DEF RowsAreSent, Waiters, WaitsFor
<1>2. ASSUME NEW r \in Requests, Limit!CreateSubmission(r) PROVE RowsAreSent'
  <2>1. /\ sent < MaxSent /\ sent' = sent + 1 /\ UNCHANGED <<bounty, rows, sweep>>
        /\ req' = [req EXCEPT ![r] = [pc |-> "waiting", now |-> today]]
    BY <1>2 DEF Limit!CreateSubmission, Limit!Waiting
  <2>2. Cardinality(Waiters)' <= Cardinality(Waiters) + 1 /\ Cardinality(Waiters)' \in Nat
    <3> PICK q : q = [pc |-> "waiting", now |-> today]
      OBVIOUS
    <3>q. DOMAIN req = Requests /\ req' = [req EXCEPT ![r] = q] /\ q.pc = "waiting"
      BY <1>t, <2>1
    <3>1. Waiters' = Waiters \cup {r}
      BY <3>q, WaitersMove, Zenon
    <3>2. IsFiniteSet(Waiters \cup {r})
      BY WaitersFinite, FS_AddElement
    <3> QED
      BY <1>t, <2>1, <3>1, <3>2, WaitersMove, FS_CardinalityType
  <2>3. \A d \in LimitDays : rows'[d] + Cardinality(Waiters)' <= sent'
    BY <1>t, <2>1, <2>2
  <2>4. req' \in [Requests -> {[pc |-> "none"]} \cup WaitsFor]
    BY <1>t, <2>1 DEF RowsAreSent, WaitsFor
  <2> QED
    BY <1>t, <2>1, <2>3, <2>4 DEF RowsAreSent, WaitsFor
<1>3. ASSUME NEW r \in Requests, Limit!Submit(r) \/ Limit!SubmitFails(r) PROVE RowsAreSent'
  <2>1. /\ r \in Waiters /\ UNCHANGED <<bounty, sent, sweep>>
        /\ req' = [req EXCEPT ![r] = [pc |-> "none"]]
        /\ rows' = rows \/ rows' = [rows EXCEPT ![req[r].now] = @ + 1]
    BY <1>3 DEF Limit!Submit, Limit!SubmitFails, Limit!NoRequest, Waiters
  <2>2. Cardinality(Waiters)' = Cardinality(Waiters) - 1
    <3> PICK q : q = [pc |-> "none"]
      OBVIOUS
    <3>q. DOMAIN req = Requests /\ req' = [req EXCEPT ![r] = q] /\ q.pc # "waiting"
      BY <1>t, <2>1
    <3>1. Waiters' = Waiters \ {r}
      BY <3>q, WaitersMove, Zenon
    <3> QED
      BY <1>t, <2>1, <3>1, WaitersMove
  <2>3. \A d \in LimitDays : rows'[d] + Cardinality(Waiters)' <= sent'
    BY <1>t, <2>1, <2>2
  <2>4. req' \in [Requests -> {[pc |-> "none"]} \cup WaitsFor]
    BY <1>t, <2>1 DEF RowsAreSent
  <2> QED
    BY <1>t, <2>1, <2>3, <2>4 DEF RowsAreSent, WaitsFor
<1>4. CASE Limit!SweepStart
  BY <1>t, <1>4 DEF Limit!SweepStart, Limit!Waiting, RowsAreSent, WaitsFor, Waiters
<1>5. CASE Limit!ResetUser
  BY <1>t, <1>5 DEF Limit!ResetUser, Limit!Asleep, RowsAreSent, WaitsFor, Waiters
<1> QED
  BY <1>1, <1>2, <1>3, <1>4, <1>5 DEF Limit!Next, Limit!NextDay, ofLimit

(* Nothing is sent at first.                                                 *)
LEMMA RowsAreSentInit == Limit!Init => RowsAreSent
<1> SUFFICES ASSUME Limit!Init PROVE RowsAreSent
  OBVIOUS
<1>1. /\ bounty \in {"OPEN", "CLOSED", "PAUSED"} /\ sent = 0 /\ sweep = [pc |-> "idle"]
      /\ req = [r \in Requests |-> [pc |-> "none"]] /\ rows = [d \in LimitDays |-> 0]
  BY DEF Limit!Init, Limit!NoRequest, Limit!Asleep, Limit!Days, LimitDays
<1>2. Waiters = {} /\ Cardinality({}) = 0
  BY <1>1, FS_EmptySet DEF Waiters
<1> QED
  BY <1>1, <1>2, LimitAssumption DEF RowsAreSent

(* The types of the limit.                                                   *)
LEMMA LimitTyped == LimitInv /\ RowsAreSent => Limit!TypeOK
<1> SUFFICES ASSUME LimitInv, RowsAreSent PROVE Limit!TypeOK
  OBVIOUS
<1>1. /\ today \in LimitDays /\ count \in 0 .. DailyLimit /\ late \subseteq LimitDays
      /\ resetDay \in LimitDays \cup {NoDay} /\ rows \in [LimitDays -> Nat]
      /\ DOMAIN req = Requests
  BY DEF LimitInv, LimitTypes
<1>2. rows \in [LimitDays -> 0 .. MaxSent]
  <2>1. ASSUME NEW d \in LimitDays PROVE rows[d] \in 0 .. MaxSent
    BY <1>1, WaitersFinite, LimitAssumption DEF RowsAreSent
  <2> QED
    BY <1>1, <2>1
<1>3. WaitsFor = {Limit!Waiting(d) : d \in LimitDays}
  BY DEF WaitsFor, Limit!Waiting
<1> QED
  BY <1>1, <1>2, <1>3
  DEF Limit!TypeOK, RowsAreSent, Limit!Days, LimitDays, Limit!NoRequest, Limit!Asleep

(* The types of the reviews.                                                 *)
LEMMA ReviewTyped == ReviewInv => Reviews!TypeOK
<1> SUFFICES ASSUME ReviewInv PROVE Reviews!TypeOK
  OBVIOUS
<1>1. \A c \in Requests : call[c].pc \in {"none", "loaded", "committed"}
  BY DEF ReviewInv, ReviewTypes
<1> QED
  BY <1>1 DEF ReviewInv, ReviewTypes, Reviews!TypeOK

(* The types of the pool.                                                    *)
LEMMA PoolTyped == PoolInv => Pools!TypeOK
  BY DEF PoolInv, PoolTypes, SlotIds, Pools!TypeOK

(* The rows of a brick's bounties are within their bound.                    *)
RowsInBound == published \in BOOLEAN /\ Len(inst) <= MaxInstances

(* A row that is written is not a new one, and a new one fits the bound.     *)
LEMMA RowsInBoundStep ==
    BountyInv /\ RowsInBound /\ [Bounties!Next]_ofBounties => RowsInBound'
<1> SUFFICES ASSUME BountyInv, RowsInBound, [Bounties!Next]_ofBounties PROVE RowsInBound'
  OBVIOUS
<1>1. inst \in Seq(Row)
  BY DEF BountyInv, BountyTypes
<1>2. ASSUME NEW i, NEW q, inst' = [inst EXCEPT ![i] = q] PROVE Len(inst') = Len(inst)
  <2>1. DOMAIN inst' = 1 .. Len(inst) /\ Len(inst) \in Nat
    BY <1>1, <1>2
  <2>2. inst' = [j \in 1 .. Len(inst) |-> inst'[j]]
    BY <1>1, <1>2, <2>1
  <2>3. inst' \in Seq({inst'[j] : j \in 1 .. Len(inst)})
    BY <2>1, <2>2
  <2> QED
    BY <2>1, <2>3
<1>3. CASE UNCHANGED <<published, inst>>
  BY <1>3 DEF RowsInBound
<1>4. ASSUME NEW t, inst' = Bounties!InsertOpenInstance(t), UNCHANGED published,
             Len(Bounties!InsertOpenInstance(t)) <= MaxInstances
      PROVE  RowsInBound'
  BY <1>4 DEF RowsInBound
<1>5. ASSUME NEW i, UNCHANGED published,
             inst' = IF inst[i].status = "OPEN" THEN Bounties!Close(i) ELSE inst
      PROVE  RowsInBound'
  <2>1. Bounties!Close(i) =
            [inst EXCEPT ![i] = [[[inst[i] EXCEPT !.status = "CLOSED"]
                                    EXCEPT !.closedAt = TRUE] EXCEPT !.raced = FALSE]]
    BY <1>1 DEF Bounties!Close
  <2> QED
    BY <1>2, <1>5, <2>1 DEF RowsInBound
<1>6. CASE Bounties!Generator
  BY <1>3, <1>4, <1>5, <1>6
  DEF Bounties!Generator, Bounties!TickStart, Bounties!ReadDefinitions, Bounties!ReadOpen,
      Bounties!TickDone, Bounties!TickFails, Bounties!GenerateOne, Bounties!CloseOne
<1>7. ASSUME NEW a \in Requests, Bounties!Admin(a) PROVE RowsInBound'
  <2>1. CASE Bounties!Transition(a)
    BY <1>2, <1>3, <2>1 DEF Bounties!Transition, RowsInBound
  <2> QED
    BY <1>3, <1>4, <1>7, <2>1
    DEF Bounties!Admin, Bounties!ReadDefinition, Bounties!ReadInstance, Bounties!CreateBounty
<1>8. ASSUME NEW i, Bounties!ApplyToBrick(i) PROVE RowsInBound'
  BY <1>5, <1>8 DEF Bounties!ApplyToBrick
<1>9. CASE Bounties!UpdateBrick
  BY <1>9 DEF Bounties!UpdateBrick, RowsInBound
<1> QED
  BY <1>3, <1>6, <1>7, <1>8, <1>9 DEF Bounties!Next, Bounties!UpdateDefinition, ofBounties

(* A new brick has no bounties.                                              *)
LEMMA RowsInBoundInit == Bounties!Init => RowsInBound
<1>1. Bounties!Init => published \in BOOLEAN
  BY Zenon DEF Bounties!Init
<1>2. Bounties!Init => inst = <<>>
  BY DEF Bounties!Init
<1>3. inst = <<>> => Len(inst) <= MaxInstances
  BY BoundsAssumption
<1> QED
  BY <1>1, <1>2, <1>3 DEF RowsInBound

(* The types of the bounties.                                                *)
LEMMA BountyTyped == BountyInv /\ RowsInBound => Bounties!TypeOK
<1> SUFFICES ASSUME BountyInv, RowsInBound PROVE Bounties!TypeOK
  OBVIOUS
<1>1. \A i \in DOMAIN inst : inst[i] \in Row
  BY DEF BountyInv, BountyTypes
<1>2. gen.pc \in {"idle", "defs", "insert", "close", "done"}
  BY DEF BountyInv, BountyTypes, Tick
<1>3. filled \subseteq Types /\ active \subseteq Types
      /\ \A a \in Requests : desk[a].pc \in {"idle", "create", "move"}
  BY DEF BountyInv, BountyTypes
<1> QED
  BY <1>1, <1>2, <1>3 DEF RowsInBound, Row, Bounties!TypeOK, Bounties!Ids

(* A stream has events of its kinds, and a worker without a batch none left. *)
StreamsKnown ==
    /\ log["session"] \in Seq([day : LocalDays, kind : {"MORNING", "EVENING"}])
    /\ log["challenge"] \in Seq([day : LocalDays, kind : {"DAILY"}])
    /\ worker.step = "fetch" => worker.last = 0

(* The other workers append events of their stream.                          *)
LEMMA StreamsKnownStep ==
    PerfectInv /\ StreamsKnown /\ [Perfect!Next]_ofPerfectDays => StreamsKnown'
<1> SUFFICES ASSUME PerfectInv, StreamsKnown, [Perfect!Next]_ofPerfectDays
             PROVE  StreamsKnown'
  OBVIOUS
<1>1. DOMAIN log = {"session", "challenge"}
  BY DEF PerfectInv, PerfectTypes, EventStreams
<1>2. ASSUME UNCHANGED log, worker'.step = "fetch" => worker'.last = 0 PROVE StreamsKnown'
  BY <1>2 DEF StreamsKnown
<1>3. ASSUME NEW d \in LocalDays, NEW kind \in {"MORNING", "EVENING"},
             Perfect!CompleteSession(d, kind)
      PROVE  StreamsKnown'
  <2>1. /\ log'["session"] = Append(log["session"], [day |-> d, kind |-> kind])
        /\ log'["challenge"] = log["challenge"] /\ worker' = worker
    BY <1>1, <1>3 DEF Perfect!CompleteSession
  <2> QED
    BY <2>1 DEF StreamsKnown
<1>4. ASSUME NEW d \in LocalDays, Perfect!CompleteDaily(d) PROVE StreamsKnown'
  <2>1. /\ log'["challenge"] = Append(log["challenge"], [day |-> d, kind |-> "DAILY"])
        /\ log'["session"] = log["session"] /\ worker' = worker
    BY <1>1, <1>4 DEF Perfect!CompleteDaily
  <2> QED
    BY <2>1 DEF StreamsKnown
<1>5. CASE UNCHANGED ofPerfectDays
  BY <1>5 DEF ofPerfectDays, StreamsKnown
<1>6. CASE Perfect!Fetch
  BY <1>2, <1>6 DEF Perfect!Fetch, Perfect!Asleep
<1>7. CASE Perfect!MaybeAward
  <2>1. worker'.step = "cursor"
    BY <1>7 DEF Perfect!MaybeAward, PerfectInv, PerfectTypes
  <2> QED
    BY <1>2, <1>7, <2>1 DEF Perfect!MaybeAward
<1>8. CASE Perfect!MoveCursor
  <2>1. worker'.step = "fetch" => worker'.last = 0
    BY <1>8 DEF Perfect!MoveCursor, Perfect!Asleep, PerfectInv, PerfectTypes
  <2> QED
    BY <1>2, <1>8, <2>1 DEF Perfect!MoveCursor
<1>9. CASE Perfect!Die
  BY <1>2, <1>9 DEF Perfect!Die, Perfect!Asleep
<1> QED
  BY <1>3, <1>4, <1>5, <1>6, <1>7, <1>8, <1>9 DEF Perfect!Next

(* There are no events at first.                                             *)
LEMMA StreamsKnownInit == Perfect!Init => StreamsKnown
<1>1. Perfect!Init => log["session"] = <<>> /\ log["challenge"] = <<>>
  BY DEF Perfect!Init, Perfect!Streams
<1>2. \A S : <<>> \in Seq(S)
  OBVIOUS
<1>3. Perfect!Init => worker.last = 0
  BY DEF Perfect!Init, Perfect!Asleep
<1> QED
  BY <1>1, <1>2, <1>3, Zenon DEF StreamsKnown

(* The types of the perfect days.                                            *)
LEMMA PerfectTyped == PerfectInv /\ StreamsKnown => Perfect!TypeOK
<1> SUFFICES ASSUME PerfectInv, StreamsKnown PROVE Perfect!TypeOK
  OBVIOUS
<1>1. log["session"] \in Seq(Perfect!SessionEvents)
      /\ log["challenge"] \in Seq(Perfect!ChallengeEvents)
  BY Zenon DEF StreamsKnown, Perfect!SessionEvents, Perfect!ChallengeEvents
<1>2. awards \in [LocalDays -> Nat]
  BY DEF PerfectInv, PerfectTypes
<1>3. \A s \in EventStreams : log[s] \in Seq(Events) /\ cursor[s] \in 0 .. Len(log[s])
  BY DEF PerfectInv, PerfectTypes
<1>4. /\ worker.step \in {"fetch", "award", "cursor"} /\ worker.stream \in EventStreams
      /\ worker.full \in BOOLEAN
  BY DEF PerfectInv, PerfectTypes
<1>5. worker.last <= Len(log[worker.stream])
  BY <1>3, <1>4 DEF PerfectInv, PerfectTypes, StreamsKnown
<1> QED
  BY <1>1, <1>2, <1>3, <1>4, <1>5 DEF Perfect!TypeOK, Perfect!Streams, EventStreams

(* What a builder holds is kept as a function of the builders.               *)
BuildersAre == builder = [b \in Requests |-> builder[b]]

(* A step writes what a builder holds, and nothing else.                     *)
LEMMA BuildersAreStep == SetsInv /\ BuildersAre /\ [Sets!Next]_ofSets => BuildersAre'
<1> SUFFICES ASSUME SetsInv, BuildersAre, [Sets!Next]_ofSets PROVE BuildersAre'
  OBVIOUS
<1>1. DOMAIN builder = Requests
  BY DEF SetsInv, BuildersFit
<1>2. ASSUME NEW b, NEW q, builder' = [builder EXCEPT ![b] = q] PROVE BuildersAre'
  BY <1>1, <1>2 DEF BuildersAre
<1>3. CASE UNCHANGED builder
  BY <1>3 DEF BuildersAre
<1>4. ASSUME NEW b \in Requests, NEW d, Sets!Ask(b, d) PROVE BuildersAre'
  BY <1>2, <1>4 DEF Sets!Ask
<1>5. ASSUME NEW b \in Requests, Sets!Die(b) PROVE BuildersAre'
  BY <1>2, <1>5 DEF Sets!Die
<1>6. ASSUME NEW b \in Requests, Sets!Step(b) PROVE BuildersAre'
  <2>1. \E q : builder' = [builder EXCEPT ![b] = q]
    BY <1>6
    DEF Sets!Step, Sets!Find, Sets!FindCycle, Sets!CreateCycle, Sets!NewCycle, Sets!ReadMorning,
        Sets!CountRemaining, Sets!CloseCycle, Sets!OpenNextCycle, Sets!Pick, Sets!InsertSet,
        Sets!InsertItem, Sets!SetBuilt, Sets!KindDone, Sets!Goto
  <2> QED
    BY <1>2, <2>1
<1> QED
  BY <1>3, <1>4, <1>5, <1>6 DEF Sets!Next, ofSets

(* Nobody builds at first.                                                   *)
LEMMA BuildersAreInit == Sets!Init => BuildersAre
  BY DEF Sets!Init, BuildersAre

(* The types of the sets.                                                    *)
LEMMA SetsTyped == SetsInv /\ BuildersAre => Sets!TypeOK
<1> SUFFICES ASSUME SetsInv, BuildersAre PROVE Sets!TypeOK
  OBVIOUS
<1>1. /\ ended \in Seq(BOOLEAN) /\ Len(ended) <= MaxRotations /\ setsOverlap \in BOOLEAN
      /\ cycleOf \in [AllSets -> Nat] /\ items \in [AllSets -> SUBSET Bricks]
      /\ \A x \in AllSets : cycleOf[x] # 0 => cycleOf[x] \in DOMAIN ended
      /\ MaxRotations \in Nat
  BY BricksAssumption DEF SetsInv, SetTables
<1>2. cycleOf \in [AllSets -> Sets!Cycles \cup {0}]
  <2>1. ASSUME NEW x \in AllSets PROVE cycleOf[x] \in Sets!Cycles \cup {0}
    BY <1>1 DEF Sets!Cycles
  <2> QED
    BY <1>1, <2>1
<1>3. builder \in [Requests -> [step : Sets!Steps, day : LocalDays \cup {NoDay},
                                kind : {"MORNING", "EVENING"}, cycle : Sets!Cycles \cup {0},
                                exclude : SUBSET Bricks, picked : SUBSET Bricks]]
  <2>1. 0 .. MaxRotations = Sets!Cycles \cup {0}
    BY <1>1 DEF Sets!Cycles
  <2>2. ASSUME NEW b \in Requests
        PROVE  builder[b] \in [step : Sets!Steps, day : LocalDays \cup {NoDay},
                               kind : {"MORNING", "EVENING"}, cycle : Sets!Cycles \cup {0},
                               exclude : SUBSET Bricks, picked : SUBSET Bricks]
    BY <2>1 DEF SetsInv, BuildersFit, BuilderFits, BuilderTypes
  <2> QED
    BY <2>2 DEF BuildersAre
<1> QED
  BY <1>1, <1>2, <1>3 DEF Sets!TypeOK, Sets!Sets, Sets!Kinds, AllSets

(* A key's transactions and a day's bonuses are of requests that are through, *)
(* and so are the days of a streak.                                           *)
UnderWay == {r \in Requests : dexReq[r].pc \notin {"none", "answer"}}
DexCounts ==
    /\ stored \subseteq Keys /\ holder \in Requests \cup {"nobody"}
    /\ dexSent \in 0 .. DexMaxSent
    /\ \A k \in Keys : done[k] + Cardinality(UnderWay) <= dexSent
    /\ \A d \in DexDays : bonuses[d] + Cardinality(UnderWay) <= dexSent
    /\ streak.days + Cardinality(UnderWay) <= dexSent
    /\ \A r \in Requests : dexReq[r].pc = "commit" =>
           dexReq[r].seen.days + Cardinality(UnderWay) <= dexSent

(* A request gets under way, goes on, or is through.                         *)
LEMMA UnderWayMoves ==
    ASSUME NEW r \in Requests, NEW q, dexReq' = [dexReq EXCEPT ![r] = q], DOMAIN dexReq = Requests
    PROVE  /\ Cardinality(UnderWay) \in Nat /\ Cardinality(UnderWay') \in Nat
           /\ Cardinality(UnderWay') <= Cardinality(UnderWay) + 1
           /\ r \in UnderWay \/ q.pc \in {"none", "answer"} =>
                  Cardinality(UnderWay') <= Cardinality(UnderWay)
           /\ r \in UnderWay /\ q.pc \in {"none", "answer"} =>
                  Cardinality(UnderWay') = Cardinality(UnderWay) - 1
<1>1. dexReq'[r] = q /\ \A o \in Requests \ {r} : dexReq'[o] = dexReq[o]
  OBVIOUS
<1>2. /\ q.pc \notin {"none", "answer"} => UnderWay' = UnderWay \cup {r}
      /\ q.pc \in {"none", "answer"} => UnderWay' = UnderWay \ {r}
  BY <1>1 DEF UnderWay
<1>3. UnderWay \subseteq Requests /\ IsFiniteSet(UnderWay)
  BY RequestsAssumption, FS_Subset DEF UnderWay
<1>4. /\ Cardinality(UnderWay \cup {r}) =
            IF r \in UnderWay THEN Cardinality(UnderWay) ELSE Cardinality(UnderWay) + 1
      /\ Cardinality(UnderWay \ {r}) =
            IF r \in UnderWay THEN Cardinality(UnderWay) - 1 ELSE Cardinality(UnderWay)
      /\ Cardinality(UnderWay) \in Nat
  BY <1>3, FS_AddElement, FS_RemoveElement, FS_CardinalityType
<1>5. IsFiniteSet(UnderWay \cup {r}) /\ IsFiniteSet(UnderWay \ {r})
  BY <1>3, FS_AddElement, FS_RemoveElement
<1>6. Cardinality(UnderWay \cup {r}) \in Nat /\ Cardinality(UnderWay \ {r}) \in Nat
  BY <1>5, FS_CardinalityType
<1>7. CASE q.pc \in {"none", "answer"}
  <2>1. Cardinality(UnderWay') = Cardinality(UnderWay \ {r})
    BY <1>2, <1>7, Zenon
  <2> QED
    BY <1>4, <1>6, <1>7, <2>1
<1>8. CASE q.pc \notin {"none", "answer"}
  <2>1. Cardinality(UnderWay') = Cardinality(UnderWay \cup {r})
    BY <1>2, <1>8, Zenon
  <2> QED
    BY <1>4, <1>6, <1>8, <2>1
<1> QED
  BY <1>7, <1>8

(* What a request does before it commits, or after, counts nothing.          *)
LEMMA CountsStay ==
    ASSUME DexInv, DexCounts, NEW r \in Requests, NEW q, dexReq' = [dexReq EXCEPT ![r] = q],
           r \in UnderWay \/ q.pc \in {"none", "answer"},
           q.pc = "commit" => q.seen = streak,
           UNCHANGED <<dexSent, done, bonuses, streak>>,
           stored' \subseteq Keys, holder' \in Requests \cup {"nobody"}
    PROVE  DexCounts'
<1>1. /\ DOMAIN dexReq = Requests /\ done \in [Keys -> Nat] /\ bonuses \in [DexDays -> Nat]
      /\ dexSent \in Nat /\ streak.days \in Nat
  BY DEF DexInv, DexTypes, DexCounts
<1>2. /\ Cardinality(UnderWay) \in Nat /\ Cardinality(UnderWay') \in Nat
      /\ Cardinality(UnderWay') <= Cardinality(UnderWay)
  BY <1>1, UnderWayMoves
<1>3. \A k \in Keys : done'[k] + Cardinality(UnderWay') <= dexSent'
  BY <1>1, <1>2 DEF DexCounts
<1>4. \A d \in DexDays : bonuses'[d] + Cardinality(UnderWay') <= dexSent'
  BY <1>1, <1>2 DEF DexCounts
<1>5. dexReq'[r] = q /\ \A o \in Requests \ {r} : dexReq'[o] = dexReq[o]
  BY <1>1
<1>6. streak'.days + Cardinality(UnderWay') <= dexSent' /\ dexSent' \in 0 .. DexMaxSent
  BY <1>1, <1>2 DEF DexCounts
<1>7. ASSUME NEW o \in Requests, dexReq'[o].pc = "commit"
      PROVE  dexReq'[o].seen.days + Cardinality(UnderWay') <= dexSent'
  <2>1. CASE o = r
    BY <1>5, <1>6, <1>7, <2>1
  <2>2. CASE o # r
    <3>1. /\ dexReq[o].pc = "commit" /\ dexReq'[o].seen = dexReq[o].seen
          /\ dexReq[o].seen.days \in Nat
      BY <1>5, <1>7, <2>2 DEF DexInv, RequestsFit, RequestFits, RequestTypes
    <3>2. dexReq[o].seen.days + Cardinality(UnderWay) <= dexSent
      BY <3>1 DEF DexCounts
    <3> QED
      BY <1>1, <1>2, <3>1, <3>2
  <2> QED
    BY <2>1, <2>2
<1> QED
  BY <1>3, <1>4, <1>6, <1>7 DEF DexCounts

(* An aborted request leaves no trace.                                       *)
LEMMA AbortCounts ==
    ASSUME DexInv, DexCounts, NEW r \in Requests, Dex!Abort(r) PROVE DexCounts'
<1> PICK q : q = [pc |-> "none"]
  OBVIOUS
<1>1. /\ dexReq' = [dexReq EXCEPT ![r] = q] /\ q.pc \in {"none", "answer"} /\ q.pc # "commit"
      /\ UNCHANGED <<dexSent, done, bonuses, streak>>
  BY DEF Dex!Abort, Dex!Gone, Dex!counts
<1>2. stored' \subseteq Keys /\ holder' \in Requests \cup {"nobody"}
  BY DEF Dex!Abort, Dex!Nobody, DexCounts
<1> QED
  BY <1>1, <1>2, CountsStay

(* A transaction goes on to its next statement.                              *)
LEMMA MoveCounts ==
    ASSUME DexInv, DexCounts, NEW r \in Requests, NEW q, Dex!Move(r, q), r \in UnderWay,
           q.pc = "commit" => q.seen = streak,
           holder' \in Requests \cup {"nobody"}
    PROVE  DexCounts'
<1>1. /\ dexReq' = [dexReq EXCEPT ![r] = q] /\ stored' = stored
      /\ UNCHANGED <<dexSent, done, bonuses, streak>>
  BY DEF Dex!Move, Dex!counts
<1> QED
  BY <1>1, CountsStay DEF DexCounts

(* What commits was under way, and is counted once.                          *)
LEMMA CommitCounts ==
    ASSUME DexInv, DexCounts, NEW r \in Requests, Dex!Commit(r) PROVE DexCounts'
<1> PICK q, a : q = dexReq[r] /\ a = [pc |-> "answer", key |-> q.key]
  OBVIOUS
<1>1. /\ q.pc = "commit" /\ RequestTypes(q) /\ r \in UnderWay
      /\ DOMAIN dexReq = Requests /\ done \in [Keys -> Nat] /\ bonuses \in [DexDays -> Nat]
      /\ dexSent \in Nat /\ streak.days \in Nat
      /\ q.seen.days + Cardinality(UnderWay) <= dexSent
      /\ streak.days + Cardinality(UnderWay) <= dexSent
  BY DEF Dex!Commit, DexInv, DexTypes, RequestsFit, RequestFits, DexCounts, UnderWay
<1>2. q.key \in Keys /\ q.today \in DexDays /\ q.seen \in [days : Nat, last : -2 .. LastDay]
  BY <1>1 DEF RequestTypes
<1>3. CASE Dex!Abort(r)
  BY <1>3, AbortCounts
<1>4. CASE ~Dex!Abort(r)
  <2>1. /\ done' = [done EXCEPT ![q.key] = @ + 1]
        /\ bonuses' = bonuses \/ bonuses' = [bonuses EXCEPT ![q.today] = @ + 1]
        /\ streak' = streak \/ streak' = Dex!NewStreak(q.seen, q.today)
        /\ dexReq' = [dexReq EXCEPT ![r] = a]
        /\ UNCHANGED <<stored, dexSent>> /\ holder' \in {holder, "nobody"}
    BY <1>4 DEF Dex!Commit, Dex!Nobody
  <2>2. /\ Cardinality(UnderWay) \in Nat /\ Cardinality(UnderWay') \in Nat
        /\ Cardinality(UnderWay') = Cardinality(UnderWay) - 1
    <3>1. a.pc \in {"none", "answer"}
      OBVIOUS
    <3> QED
      BY <1>1, <2>1, <3>1, UnderWayMoves
  <2>3. \A k \in Keys : done'[k] + Cardinality(UnderWay') <= dexSent'
    BY <1>1, <1>2, <2>1, <2>2 DEF DexCounts
  <2>4. \A d \in DexDays : bonuses'[d] + Cardinality(UnderWay') <= dexSent'
    BY <1>1, <1>2, <2>1, <2>2 DEF DexCounts
  <2>5. streak'.days + Cardinality(UnderWay') <= dexSent'
    <3>1. Dex!NewStreak(q.seen, q.today).days \in 1 .. q.seen.days + 1 /\ q.seen.days \in Nat
      BY <1>2, NewStreakIs
    <3> QED
      BY <1>1, <2>1, <2>2, <3>1
  <2>6. dexReq'[r].pc = "answer" /\ \A o \in Requests \ {r} : dexReq'[o] = dexReq[o]
    BY <1>1, <2>1
  <2>7. ASSUME NEW o \in Requests, dexReq'[o].pc = "commit"
        PROVE  dexReq'[o].seen.days + Cardinality(UnderWay') <= dexSent'
    <3>1. /\ dexReq[o].pc = "commit" /\ dexReq'[o].seen = dexReq[o].seen
          /\ dexReq[o].seen.days \in Nat
      BY <2>6, <2>7 DEF DexInv, RequestsFit, RequestFits, RequestTypes
    <3>2. dexReq[o].seen.days + Cardinality(UnderWay) <= dexSent
      BY <3>1 DEF DexCounts
    <3> QED
      BY <1>1, <2>1, <2>2, <3>1, <3>2
  <2> QED
    BY <2>1, <2>3, <2>4, <2>5, <2>7 DEF DexCounts
<1> QED
  BY <1>3, <1>4

(* Every step of the Dex keeps the counts.                                   *)
LEMMA DexCountsStep == DexInv /\ DexCounts /\ [Dex!Next]_ofDex => DexCounts'
<1> SUFFICES ASSUME DexInv, DexCounts, [Dex!Next]_ofDex PROVE DexCounts'
  OBVIOUS
<1>t. /\ DOMAIN dexReq = Requests /\ done \in [Keys -> Nat] /\ bonuses \in [DexDays -> Nat]
      /\ dexSent \in Nat /\ stored \subseteq Keys /\ holder \in Requests \cup {"nobody"}
      /\ streak.days \in Nat
  BY DEF DexInv, DexTypes, DexCounts
<1>1. CASE UNCHANGED <<dexReq, holder, dexSent, done, bonuses, streak>> /\ stored' \subseteq stored
  BY <1>t, <1>1 DEF DexCounts, UnderWay
<1>2. ASSUME NEW r \in Requests, NEW k \in Keys, Dex!Arrive(r, k) PROVE DexCounts'
  <2> PICK q : q = [pc |-> "begin", key |-> k]
    OBVIOUS
  <2>1. /\ dexSent < DexMaxSent /\ dexSent' = dexSent + 1
        /\ UNCHANGED <<streak, stored, holder, done, bonuses>>
        /\ dexReq' = dexReq \/ dexReq' = [dexReq EXCEPT ![r] = q]
    BY <1>2 DEF Dex!Arrive
  <2>2. /\ Cardinality(UnderWay) \in Nat /\ Cardinality(UnderWay') \in Nat
        /\ Cardinality(UnderWay') <= Cardinality(UnderWay) + 1
    <3>1. CASE dexReq' = dexReq
      <4>1. UnderWay' = UnderWay /\ UnderWay \subseteq Requests
        BY <3>1 DEF UnderWay
      <4>2. Cardinality(UnderWay) \in Nat
        BY <4>1, RequestsAssumption, FS_Subset, FS_CardinalityType
      <4> QED
        BY <4>1, <4>2
    <3>2. CASE dexReq' = [dexReq EXCEPT ![r] = q]
      BY <1>t, <3>2, UnderWayMoves
    <3> QED
      BY <2>1, <3>1, <3>2
  <2>3. \A x \in Keys : done'[x] + Cardinality(UnderWay') <= dexSent'
    BY <1>t, <2>1, <2>2 DEF DexCounts
  <2>4. \A d \in DexDays : bonuses'[d] + Cardinality(UnderWay') <= dexSent'
    BY <1>t, <2>1, <2>2 DEF DexCounts
  <2>5. streak'.days + Cardinality(UnderWay') <= dexSent'
    BY <1>t, <2>1, <2>2 DEF DexCounts
  <2>7. ASSUME NEW o \in Requests, dexReq'[o].pc = "commit"
        PROVE  dexReq'[o].seen.days + Cardinality(UnderWay') <= dexSent'
    <3>1. /\ dexReq[o].pc = "commit" /\ dexReq'[o].seen = dexReq[o].seen
          /\ dexReq[o].seen.days \in Nat
      BY <1>t, <2>1, <2>7 DEF DexInv, RequestsFit, RequestFits, RequestTypes
    <3>2. dexReq[o].seen.days + Cardinality(UnderWay) <= dexSent
      BY <3>1 DEF DexCounts
    <3> QED
      BY <1>t, <2>1, <2>2, <3>1, <3>2
  <2>6. dexSent' \in 0 .. DexMaxSent
    BY <1>t, <2>1, BoundsAssumption
  <2> QED
    BY <1>t, <2>1, <2>3, <2>4, <2>5, <2>6, <2>7 DEF DexCounts
<1>3. ASSUME NEW r \in Requests, Dex!ReadProgress(r) PROVE DexCounts'
  <2> PICK q : q = [pc |-> "again", key |-> dexReq[r].key, before |-> stage]
    OBVIOUS
  <2>1. r \in UnderWay /\ q.pc # "commit"
    BY <1>3 DEF Dex!ReadProgress, UnderWay
  <2>2. Dex!Abort(r) \/ (Dex!Move(r, q) /\ holder' = holder)
    BY <1>3 DEF Dex!ReadProgress
  <2> QED
    BY <1>t, <2>1, <2>2, AbortCounts, MoveCounts
<1>4. ASSUME NEW r \in Requests, Dex!ReadAgain(r) PROVE DexCounts'
  <2> PICK p, q : /\ p = CASE stage = Dex!NoRow -> "create"
                           [] stage # Dex!NoRow /\ Dex!Reached(Dex!Kind(r)) -> "streak"
                           [] OTHER -> "update"
                  /\ q = [pc |-> p, key |-> dexReq[r].key, before |-> dexReq[r].before,
                          write |-> Dex!NoRow]
    OBVIOUS
  <2>1. r \in UnderWay /\ Dex!Move(r, q) /\ holder' = holder
    BY <1>4 DEF Dex!ReadAgain, UnderWay
  <2>2. q.pc # "commit"
    OBVIOUS
  <2> QED
    BY <1>t, <2>1, <2>2, MoveCounts
<1>5. ASSUME NEW r \in Requests, Dex!CreateRow(r) \/ Dex!UpdateRow(r) PROVE DexCounts'
  <2> PICK q : q = [dexReq[r] EXCEPT !.pc = "streak", !.write = Dex!Target[Dex!Kind(r)]]
    OBVIOUS
  <2>1. r \in UnderWay /\ dexReq[r].pc \in {"create", "update"}
    BY <1>5 DEF Dex!CreateRow, Dex!UpdateRow, UnderWay
  <2>2. RequestTypes(dexReq[r])
    BY DEF DexInv, RequestsFit, RequestFits
  <2>3. q.pc # "commit"
    <3>1. dexReq[r] = [pc |-> dexReq[r].pc, key |-> dexReq[r].key,
                       before |-> dexReq[r].before, write |-> -1]
      BY <2>1, <2>2 DEF RequestTypes
    <3>2. PICK x, k, b : dexReq[r] = [pc |-> x, key |-> k, before |-> b, write |-> -1]
      BY <3>1
    <3>3. q.pc = "streak"
      BY <3>2
    <3> QED
      BY <3>3
  <2>4. Dex!Abort(r) \/ (Dex!Move(r, q) /\ holder' \in Requests \cup {"nobody"})
    BY <1>5 DEF Dex!CreateRow, Dex!UpdateRow
  <2> QED
    BY <1>t, <2>1, <2>3, <2>4, AbortCounts, MoveCounts
<1>6. ASSUME NEW r \in Requests, Dex!ReadStreak(r) PROVE DexCounts'
  <2> PICK q : q = [pc |-> "commit", key |-> dexReq[r].key, write |-> dexReq[r].write,
                    counts |-> Dex!CountsForStreak(r), seen |-> streak, today |-> day]
    OBVIOUS
  <2>1. r \in UnderWay /\ Dex!Move(r, q) /\ holder' = holder
    BY <1>6 DEF Dex!ReadStreak, UnderWay
  <2>2. q.seen = streak
    OBVIOUS
  <2> QED
    BY <1>t, <2>1, <2>2, MoveCounts
<1>7. ASSUME NEW r \in Requests, Dex!StoreKey(r) PROVE DexCounts'
  <2> PICK q : q = [pc |-> "none"]
    OBVIOUS
  <2>1. /\ dexReq' = [dexReq EXCEPT ![r] = q] /\ q.pc \in {"none", "answer"} /\ q.pc # "commit"
        /\ UNCHANGED <<dexSent, done, bonuses, streak, holder>>
    BY <1>7 DEF Dex!StoreKey, Dex!Gone, Dex!counts
  <2>2. dexReq[r].key \in Keys
    BY <1>7 DEF Dex!StoreKey, DexInv, RequestsFit, RequestFits, RequestTypes
  <2>3. stored' \subseteq Keys
    BY <1>t, <1>7, <2>2 DEF Dex!StoreKey
  <2> QED
    BY <1>t, <2>1, <2>3, CountsStay
<1>8. ASSUME NEW r \in Requests, Dex!RequestDies(r) PROVE DexCounts'
  BY <1>8, AbortCounts DEF Dex!RequestDies
<1>9. CASE UNCHANGED ofDex
  BY <1>1, <1>9 DEF ofDex
<1>10. CASE Dex!NextDay
  BY <1>1, <1>10 DEF Dex!NextDay, Dex!counts
<1>11. ASSUME NEW k \in Keys, Dex!ExpireKey(k) PROVE DexCounts'
  BY <1>1, <1>11 DEF Dex!ExpireKey, Dex!counts
<1> QED
  BY <1>2, <1>3, <1>4, <1>5, <1>6, <1>7, <1>8, <1>9, <1>10, <1>11, CommitCounts DEF Dex!Next

(* Nothing is counted at first.                                              *)
LEMMA DexCountsInit == Dex!Init => DexCounts
<1> SUFFICES ASSUME Dex!Init PROVE DexCounts
  OBVIOUS
<1>1. /\ stored = {} /\ holder = "nobody" /\ dexSent = 0 /\ done = [k \in Keys |-> 0]
      /\ bonuses = [d \in DexDays |-> 0] /\ streak.days = 0
      /\ dexReq = [r \in Requests |-> [pc |-> "none"]]
  BY DEF Dex!Init, Dex!Nobody, Dex!Gone, Dex!Days, DexDays
<1>2. UnderWay = {} /\ Cardinality({}) = 0
  BY <1>1, FS_EmptySet DEF UnderWay
<1> QED
  BY <1>1, <1>2, BoundsAssumption DEF DexCounts

(* The types of the Dex.                                                     *)
LEMMA DexTyped == DexInv /\ DexCounts => Dex!TypeOK
<1> SUFFICES ASSUME DexInv, DexCounts PROVE Dex!TypeOK
  OBVIOUS
<1>t. /\ day \in DexDays /\ stage \in -1 .. 3
      /\ streak \in [days : Nat, last : -2 .. LastDay]
      /\ sessions \subseteq Keys /\ stored \subseteq Keys /\ activeDays \subseteq DexDays
      /\ holder \in Requests \cup {"nobody"} /\ dexSent \in 0 .. DexMaxSent
      /\ overlapped \in BOOLEAN /\ straddled \in BOOLEAN
      /\ done \in [Keys -> Nat] /\ bonuses \in [DexDays -> Nat]
  BY DEF DexInv, DexTypes, DexCounts
<1>1. Cardinality(UnderWay) \in Nat
  BY RequestsAssumption, FS_Subset, FS_CardinalityType DEF UnderWay
<1>2. done \in [Keys -> 0 .. DexMaxSent]
  <2>1. ASSUME NEW k \in Keys PROVE done[k] \in 0 .. DexMaxSent
    BY <1>t, <1>1, BoundsAssumption DEF DexCounts
  <2> QED
    BY <1>t, <2>1
<1>3. bonuses \in [DexDays -> 0 .. DexMaxSent]
  <2>1. ASSUME NEW d \in DexDays PROVE bonuses[d] \in 0 .. DexMaxSent
    BY <1>t, <1>1, BoundsAssumption DEF DexCounts
  <2> QED
    BY <1>t, <2>1
<1>4. streak \in [days : 0 .. DexMaxSent, last : -2 .. LastDay]
  <2>1. streak.days \in 0 .. DexMaxSent
    BY <1>t, <1>1, BoundsAssumption DEF DexCounts
  <2> QED
    BY <1>t, <2>1
<1>5. \A r \in Requests : dexReq[r].pc \in {"none", "begin", "again", "create", "update",
                                            "streak", "commit", "answer"}
  BY DEF DexInv, RequestsFit, RequestFits, RequestTypes
<1> QED
  BY <1>t, <1>2, <1>3, <1>4, <1>5 DEF Dex!TypeOK, Dex!Days, Dex!Nobody, Dex!NoRow,
                                          Dex!NoIdentity, DexDays

(* A trust state has a tier, and its outcomes are those it counted.          *)
Adds(t) ==
    /\ t.tier \in Trust!Tiers
    /\ t.aligned + t.misaligned = Trust!Cardinality(t.counted)

StatesAdd ==
    /\ Adds(trust)
    /\ \A w \in Requests : trustWorker[w].pc = "write" => Adds(trustWorker[w].state)

(* What is scored is aligned or it is not, and of a cycle of its own.        *)
LEMMA ScoresAdd ==
    ASSUME TrustInv
    PROVE  /\ Trust!Count(scores, TRUE) \in Nat /\ Trust!Count(scores, FALSE) \in Nat
           /\ Trust!Count(scores, TRUE) + Trust!Count(scores, FALSE) = Len(scores)
           /\ Trust!Cardinality({scores[i].cycle : i \in DOMAIN scores}) = Len(scores)
<1>1. PICK n : n = Len(scores)
  OBVIOUS
<1>2. /\ scores \in Seq([cycle : Rounds, aligned : BOOLEAN]) /\ n \in Nat /\ DOMAIN scores = 1 .. n
      /\ \A i, k \in 1 .. n : scores[i].cycle = scores[k].cycle => i = k
  BY <1>1 DEF TrustInv, ScoresFit
<1>3. \A i \in 1 .. n : scores[i].aligned \in BOOLEAN
  <2> SUFFICES ASSUME NEW i \in 1 .. n PROVE scores[i].aligned \in BOOLEAN
    OBVIOUS
  <2>1. PICK S : S = [cycle : Rounds, aligned : BOOLEAN]
    OBVIOUS
  <2>2. scores \in Seq(S) /\ i \in DOMAIN scores
    BY <1>2, <2>1
  <2>3. scores[i] \in S
    BY <2>2
  <2> QED
    BY <2>1, <2>3
<1>4. PICK T, F : /\ T = {i \in DOMAIN scores : scores[i].aligned = TRUE}
                  /\ F = {i \in DOMAIN scores : scores[i].aligned = FALSE}
  OBVIOUS
<1>5. T \cap F = {} /\ T \cup F = 1 .. n
  <2>1. \A i \in 1 .. n : scores[i].aligned = TRUE \/ scores[i].aligned = FALSE
    BY <1>3, Zenon
  <2> QED
    BY <1>2, <1>4, <2>1
<1>6. IsFiniteSet(1 .. n) /\ Cardinality(1 .. n) = n
  BY <1>2, FS_Interval
<1>7. IsFiniteSet(T) /\ IsFiniteSet(F)
  BY <1>5, <1>6, FS_Subset
<1>8. Cardinality(T) \in Nat /\ Cardinality(F) \in Nat /\ Cardinality({}) = 0
  BY <1>7, FS_CardinalityType, FS_EmptySet
<1>9. Cardinality(T) + Cardinality(F) = n
  <2>1. Cardinality(T \cup F) = Cardinality(T) + Cardinality(F) - Cardinality(T \cap F)
    BY <1>7, FS_Union
  <2>2. Cardinality(T \cup F) = n
    BY <1>5, <1>6, Zenon
  <2>3. Cardinality(T \cap F) = 0
    BY <1>5, <1>8, Zenon
  <2> QED
    BY <1>8, <2>1, <2>2, <2>3
<1>10. Trust!Cardinality(T) = Cardinality(T) /\ Trust!Cardinality(F) = Cardinality(F)
  BY Zenon DEF Trust!Cardinality, Cardinality
<1>11. /\ Trust!Count(scores, TRUE) = Trust!Cardinality(T)
       /\ Trust!Count(scores, FALSE) = Trust!Cardinality(F)
  BY <1>4, Zenon DEF Trust!Count
<1>12. PICK C : C = {scores[i].cycle : i \in DOMAIN scores}
  OBVIOUS
<1>13. PICK f : f = [i \in 1 .. n |-> scores[i].cycle]
  OBVIOUS
<1>14. f \in Bijection(1 .. n, C)
  <2>1. f \in [1 .. n -> C] /\ \A i, k \in 1 .. n : f[i] = f[k] => i = k
    BY <1>2, <1>12, <1>13
  <2>2. \A c \in C : \E i \in 1 .. n : f[i] = c
    BY <1>2, <1>12, <1>13
  <2> QED
    BY <2>1, <2>2, Zenon DEF Bijection, Injection, IsInjective, Surjection
<1>15. Cardinality(C) = n
  <2>1. ExistsBijection(1 .. n, C)
    BY <1>14, Zenon DEF ExistsBijection
  <2> QED
    BY <1>6, <2>1, FS_Bijection, Zenon
<1>16. Trust!Cardinality(C) = Cardinality(C)
  BY Zenon DEF Trust!Cardinality, Cardinality
<1> QED
  BY <1>1, <1>8, <1>9, <1>10, <1>11, <1>12, <1>15, <1>16

(* Every score has a tier.                                                   *)
LEMMA TierIs ==
    ASSUME NEW a \in Nat, NEW m \in Nat, a + m # 0 PROVE Trust!Tier(a, m) \in Trust!Tiers
<1> DEFINE n == a + m
<1>1. PICK s : s = IF n < MinScored THEN 0 ELSE 100 * (a - m)
  OBVIOUS
<1>2. s \in Int /\ n \in Nat
  BY <1>1
<1>3. Trust!Tier(a, m) = CASE s < -25 * n -> "UNTRUSTED"
                           [] s >= -25 * n /\ s <= -5 * n -> "PROBATION"
                           [] s > -5 * n /\ s <= 20 * n -> "NEUTRAL"
                           [] s > 20 * n /\ s < 60 * n -> "RELIABLE"
                           [] s >= 60 * n -> "PROVEN"
  BY <1>1 DEF Trust!Tier
<1> HIDE DEF n
<1>4. \/ s < -25 * n
      \/ s >= -25 * n /\ s <= -5 * n
      \/ s > -5 * n /\ s <= 20 * n
      \/ s > 20 * n /\ s < 60 * n
      \/ s >= 60 * n
  BY <1>2
<1> QED
  BY <1>3, <1>4 DEF Trust!Tiers

(* A recomputation adds up.                                                  *)
LEMMA RecountedAdds ==
    ASSUME TrustInv, NEW c, Scored(c) PROVE Adds(Trust!Recounted)
<1>1. PICK a, m : a = Trust!Count(scores, TRUE) /\ m = Trust!Count(scores, FALSE)
  OBVIOUS
<1>2. /\ a \in Nat /\ m \in Nat /\ a + m = Len(scores)
      /\ Trust!Cardinality({scores[i].cycle : i \in DOMAIN scores}) = Len(scores)
  BY <1>1, ScoresAdd
<1>3. a + m # 0
  BY <1>2 DEF Scored, TrustInv, ScoresFit
<1>4. Trust!Tier(a, m) \in Trust!Tiers
  BY <1>2, <1>3, TierIs
<1>5. /\ Trust!Recounted.tier = IF Trust!InCooldown(scores) THEN "PROBATION" ELSE Trust!Tier(a, m)
      /\ Trust!Recounted.aligned = a /\ Trust!Recounted.misaligned = m
      /\ Trust!Recounted.counted = {scores[i].cycle : i \in DOMAIN scores}
  BY <1>1 DEF Trust!Recounted
<1>6. Trust!Recounted.tier \in Trust!Tiers
  BY <1>4, <1>5 DEF Trust!Tiers
<1> QED
  BY <1>2, <1>5, <1>6 DEF Adds

(* A worker that does not read the scores holds what it held, or nothing.    *)
LEMMA StatesStay ==
    ASSUME StatesAdd, UNCHANGED trust,
           \A w \in Requests : trustWorker'[w].pc = "write" => trustWorker'[w] = trustWorker[w]
    PROVE  StatesAdd'
<1>1. Adds(trust)'
  BY DEF StatesAdd, Adds
<1>2. ASSUME NEW w \in Requests, trustWorker'[w].pc = "write" PROVE Adds(trustWorker[w].state)'
  <2>1. trustWorker'[w] = trustWorker[w]
    BY <1>2
  <2>2. PICK t : t = trustWorker[w].state
    OBVIOUS
  <2>3. Adds(t)
    BY <1>2, <2>1, <2>2 DEF StatesAdd
  <2>4. trustWorker'[w].state = t
    BY <2>1, <2>2
  <2> QED
    BY <2>3, <2>4 DEF Adds
<1> QED
  BY <1>1, <1>2 DEF StatesAdd

(* Every step keeps the states adding up.                                    *)
LEMMA StatesAddStep == TrustInv /\ StatesAdd /\ [Trust!Next]_ofTrust => StatesAdd'
<1> SUFFICES ASSUME TrustInv, StatesAdd, [Trust!Next]_ofTrust PROVE StatesAdd'
  OBVIOUS
<1>t. DOMAIN trustWorker = Requests
  BY DEF TrustInv, WorkersFit
<1>1. CASE UNCHANGED <<trust, trustWorker>>
  BY <1>1, StatesStay
<1>2. ASSUME NEW w \in Requests, NEW q, q.pc # "write", UNCHANGED trust,
             trustWorker' = [trustWorker EXCEPT ![w] = q]
      PROVE  StatesAdd'
  <2>1. trustWorker'[w] = q /\ \A v \in Requests \ {w} : trustWorker'[v] = trustWorker[v]
    BY <1>t, <1>2
  <2> QED
    BY <1>2, <2>1, StatesStay
<1>3. CASE UNCHANGED ofTrust
  BY <1>1, <1>3 DEF ofTrust
<1>4. CASE \/ \E vote \in TrustVotes[Trust!Now] : Trust!CastVote(vote)
           \/ Trust!EnterFreeze \/ Trust!OpenCycle
           \/ \E outcome \in Trust!Outcomes : Trust!CloseCycle(outcome)
  BY <1>1, <1>4
  DEF Trust!CastVote, Trust!EnterFreeze, Trust!OpenCycle, Trust!CloseCycle, Trust!ChangeCycle
<1>5. ASSUME NEW w \in Requests, Trust!EnsureJobsExist(w) PROVE StatesAdd'
  BY <1>1, <1>5 DEF Trust!EnsureJobsExist
<1>6. ASSUME NEW w \in Requests, Trust!FindJob(w) PROVE StatesAdd'
  <2> PICK q : q = [pc |-> "claim", job |-> Trust!Min(Trust!Pending)]
    OBVIOUS
  <2> QED
    BY <1>2, <1>6 DEF Trust!FindJob
<1>7. ASSUME NEW w \in Requests, Trust!ClaimJob(w) \/ Trust!ScoreVote(w) PROVE StatesAdd'
  <2>1. PICK c \in Rounds, pc \in {"claim", "score", "recount", "done"} :
             trustWorker[w] = [pc |-> pc, job |-> c]
    BY <1>7 DEF TrustInv, WorkersFit, WorkerFits, Trust!ClaimJob, Trust!ScoreVote
  <2>2. PICK next \in {"score", "recount", "done"} :
             UNCHANGED trust /\ trustWorker' = [trustWorker EXCEPT ![w].pc = next]
    BY <1>7 DEF Trust!ClaimJob, Trust!ScoreVote, Trust!Goto
  <2>3. trustWorker'[w].pc = next /\ \A v \in Requests \ {w} : trustWorker'[v] = trustWorker[v]
    BY <1>t, <2>1, <2>2
  <2> QED
    BY <2>2, <2>3, StatesStay
<1>8. ASSUME NEW w \in Requests, Trust!ReadScores(w) PROVE StatesAdd'
  <2>1. PICK t : t = Trust!Recounted
    OBVIOUS
  <2>2. Scored(trustWorker[w].job)
    BY <1>8 DEF Trust!ReadScores, TrustInv, WorkersFit, WorkerFits
  <2>3. Adds(t)
    BY <2>1, <2>2, RecountedAdds
  <2>4. PICK q : q = [pc |-> "write", job |-> trustWorker[w].job, state |-> t]
    OBVIOUS
  <2>5. UNCHANGED trust /\ trustWorker' = [trustWorker EXCEPT ![w] = q]
    BY <1>8, <2>1, <2>4 DEF Trust!ReadScores
  <2>6. trustWorker'[w] = q /\ \A v \in Requests \ {w} : trustWorker'[v] = trustWorker[v]
    BY <1>t, <2>5
  <2>7. trustWorker'[w].state = t
    BY <2>4, <2>6
  <2>8. \A v \in Requests : trustWorker'[v].pc = "write" => Adds(trustWorker'[v].state)
    BY <2>3, <2>6, <2>7 DEF StatesAdd
  <2> QED
    BY <2>5, <2>8 DEF StatesAdd, Adds
<1>9. ASSUME NEW w \in Requests, Trust!WriteTrust(w) PROVE StatesAdd'
  <2>1. PICK t : t = trustWorker[w].state
    OBVIOUS
  <2>2. Adds(t)
    BY <1>9, <2>1 DEF StatesAdd, Trust!WriteTrust
  <2>3. PICK q : q = [pc |-> "done", job |-> trustWorker[w].job]
    OBVIOUS
  <2>4. trust' = t /\ trustWorker' = [trustWorker EXCEPT ![w] = q]
    BY <1>9, <2>1, <2>3 DEF Trust!WriteTrust
  <2>5. trustWorker'[w].pc = "done" /\ \A v \in Requests \ {w} : trustWorker'[v] = trustWorker[v]
    BY <1>t, <2>3, <2>4
  <2>6. \A v \in Requests : trustWorker'[v].pc = "write" => Adds(trustWorker'[v].state)
    BY <2>5 DEF StatesAdd
  <2> QED
    BY <2>2, <2>4, <2>6 DEF StatesAdd, Adds
<1>10. ASSUME NEW w \in Requests,
              Trust!MarkJobDone(w) \/ Trust!MarkJobFailed(w) \/ Trust!WorkerDies(w)
       PROVE  StatesAdd'
  <2> PICK q : q = [pc |-> "idle"]
    OBVIOUS
  <2> QED
    BY <1>2, <1>10 DEF Trust!MarkJobDone, Trust!MarkJobFailed, Trust!WorkerDies, Trust!Free
<1> QED
  BY <1>3, <1>4, <1>5, <1>6, <1>7, <1>8, <1>9, <1>10 DEF Trust!Next

(* Nothing is counted at first.                                              *)
LEMMA StatesAddInit == Trust!Init => StatesAdd
<1> SUFFICES ASSUME Trust!Init PROVE StatesAdd
  OBVIOUS
<1>1. /\ trust = [tier |-> "UNTRUSTED", aligned |-> 0, misaligned |-> 0, counted |-> {}]
      /\ \A w \in Requests : trustWorker[w].pc = "idle"
  BY DEF Trust!Init, Trust!Free
<1>2. Trust!Cardinality({}) = Cardinality({})
  BY Zenon DEF Trust!Cardinality, Cardinality
<1>3. Trust!Cardinality({}) = 0
  BY <1>2, FS_EmptySet
<1> QED
  BY <1>1, <1>3 DEF StatesAdd, Adds, Trust!Tiers

(* The types of the trust jobs.                                              *)
LEMMA TrustTyped == TrustInv /\ StatesAdd => Trust!TypeOK
<1> SUFFICES ASSUME TrustInv, StatesAdd PROVE Trust!TypeOK
  OBVIOUS
<1>1. Len(cycles) <= Trust!MaxCycles
  BY TrustAssumption DEF TrustInv, JobsFit, Rounds, Trust!MaxCycles
<1>2. ASSUME NEW c \in Trust!Ids PROVE cycles[c].outcome \in Trust!Outcomes \cup {"open"}
  <2>1. cycles \in Seq(AnyCycle) /\ c \in DOMAIN cycles
    BY DEF TrustInv, JobsFit, Trust!Ids
  <2>2. cycles[c] \in AnyCycle
    BY <2>1
  <2> QED
    BY <2>2 DEF AnyCycle, Trust!Outcomes
<1>3. job \in [1 .. Trust!MaxCycles -> {Trust!NoJob, "PENDING", "PROCESSING", "DONE", "FAILED"}]
  BY DEF TrustInv, JobsFit, Rounds, Statuses, Trust!MaxCycles, Trust!NoJob
<1>4. \A w \in Requests :
          trustWorker[w].pc \in {"idle", "claim", "score", "recount", "write", "done"}
  BY DEF TrustInv, WorkersFit, WorkerFits
<1> QED
  BY <1>1, <1>2, <1>3, <1>4 DEF StatesAdd, Adds, Trust!TypeOK

-----------------------------------------------------------------------------
(* A behaviour starts with one part.                                         *)
LEMMA PartsStart ==
    Init => /\ part = "sets" => Sets!Init
            /\ part = "pool" => Pools!Init
            /\ part = "bounties" => Bounties!Init
            /\ part = "reviews" => Reviews!Init
            /\ part = "limit" => Limit!Init
            /\ part = "dex" => Dex!Init
            /\ part = "perfect days" => Perfect!Init
            /\ part = "trust" => Trust!Init
<1>1. Init => (part = "sets" => Sets!Init) /\ (part = "pool" => Pools!Init)
  BY Zenon DEF Init
<1>2. Init => (part = "bounties" => Bounties!Init) /\ (part = "reviews" => Reviews!Init)
  BY Zenon DEF Init
<1>3. Init => (part = "limit" => Limit!Init) /\ (part = "dex" => Dex!Init)
  BY Zenon DEF Init
<1>4. Init => (part = "perfect days" => Perfect!Init) /\ (part = "trust" => Trust!Init)
  BY Zenon DEF Init
<1> QED
  BY <1>1, <1>2, <1>3, <1>4

(* A step is a step of that part: only its own variables move.               *)
LEMMA PartsStep ==
    [Next]_vars => /\ part' = part
                   /\ part = "sets" => [Sets!Next]_ofSets
                   /\ part = "pool" => [Pools!Next]_ofPool
                   /\ part = "bounties" => [Bounties!Next]_ofBounties
                   /\ part = "reviews" => [Reviews!Next]_ofReviews
                   /\ part = "limit" => [Limit!Next]_ofLimit
                   /\ part = "dex" => [Dex!Next]_ofDex
                   /\ part = "perfect days" => [Perfect!Next]_ofPerfectDays
                   /\ part = "trust" => [Trust!Next]_ofTrust
  BY DEF Next, vars, ofSets, ofPool, ofBounties, ofReviews, ofLimit, ofDex, ofPerfectDays, ofTrust,
         SetStep, PoolStep, BountyStep, ReviewStep, LimitStep, DexStep, PerfectDayStep, TrustStep,
         TimeIsUp

(* Builders that do not overlap, wherever they died, keep a brick to one set *)
(* of a day, rotate only an exhausted cycle and fill what the code can fill; *)
(* of any builders, no set outgrows its target, no cycle uses a brick twice. *)
THEOREM SetsSound == Spec => []SetsAreSound
<1> DEFINE I == part = "sets" => SetsInv
<1>1. Init => I
  BY PartsStart, SetsInvInit
<1>2. I /\ [Next]_vars => I'
  BY PartsStep, SetsInvStep
<1>3. I => SetsAreSound
  BY SetsInvMeans DEF SetsAreSound
<1> QED
  BY <1>1, <1>2, <1>3, PTL DEF Spec

(* No day takes more submissions than its limit, unless a later day's counter *)
(* was overwritten by a writer of an earlier day, and none is denied what it  *)
(* has room for.                                                              *)
THEOREM LimitExact == Spec => []LimitIsExact
<1> DEFINE I == part = "limit" => LimitInv
<1>1. Init => I
  BY PartsStart, LimitInvInit
<1>2. I /\ [Next]_vars => I'
  BY PartsStep, LimitInvStep
<1>3. I => LimitIsExact
  BY DEF LimitIsExact, LimitInv
<1> QED
  BY <1>1, <1>2, <1>3, PTL DEF Spec

(* A review that is clicked twice, or again after a lost answer, rewards once, *)
(* and of two approvals for one field one answer at least tells of the other.  *)
THEOREM ReviewsSound == Spec => []ReviewCallsAreSound
<1> DEFINE I == part = "reviews" => ReviewInv
<1>1. Init => I
  BY PartsStart, ReviewInvInit
<1>2. I /\ [Next]_vars => I'
  BY PartsStep, ReviewInvStep
<1>3. I => ReviewCallsAreSound
  BY DEF ReviewCallsAreSound, ReviewInv, Reviews!ReviewCallsAreSound
<1> QED
  BY <1>1, <1>2, <1>3, PTL DEF Spec

(* A tick of the generator leaves nothing open on a field it found filled and *)
(* offers every active type whose field was empty, beside admins who create,  *)
(* pause, close and reopen; closed_at tells a closed bounty from the others.  *)
THEOREM OffersSound == Spec => []OffersFollowFields
<1> DEFINE I == part = "bounties" => BountyInv
<1>1. Init => I
  BY PartsStart, BountyInvInit
<1>2. I /\ [Next]_vars => I'
  BY PartsStep, BountyInvStep
<1>3. I => OffersFollowFields
  BY BountyInvMeans DEF OffersFollowFields
<1> QED
  BY <1>1, <1>2, <1>3, PTL DEF Spec

(* The Dex keeps its invariant.                                              *)
LEMMA DexInvariance == Spec => [](part = "dex" => DexInv)
<1> DEFINE I == part = "dex" => DexInv
<1>1. Init => I
  BY PartsStart, DexInvInit
<1>2. I /\ [Next]_vars => I'
  BY PartsStep, DexInvStep
<1> QED
  BY <1>1, <1>2, PTL DEF Spec

(* A brick is voted on and classified once, after lost answers and expired   *)
(* keys, and its stage never falls, unless transactions on it overlapped; a  *)
(* finished context earns its XP once per key, also in overlap.              *)
THEOREM ActionsOnce == Spec => ActionsCountOnce
<1> DEFINE I == part = "dex" => DexInv
           C == part = "dex" => Dex!ActionsCountOnce
           A == part = "dex" => Dex!StageFallsInOverlap
<1>1. I => C
  BY DEF DexInv
<1>2. I /\ [Next]_vars => [A]_ofDex
  BY PartsStep, StageStays
<1>3. Spec => []I
  BY DexInvariance
<1>4. Spec => [][Next]_vars
  BY PTL DEF Spec
<1>5. []I /\ [][Next]_vars => []C /\ [][A]_ofDex
  <2> HIDE DEF I, C, A
  <2> QED
    BY <1>1, <1>2, PTL
<1> QED
  BY <1>3, <1>4, <1>5, PTL DEF ActionsCountOnce

(* Whatever stages were completed, on a server in UTC the streak is the run   *)
(* of active days, unless completions of two days overlapped, and a day earns *)
(* at most one bonus, unless transactions overlapped.                         *)
THEOREM StreakExact == Spec => []StreakFollowsDays
<1>1. (part = "dex" => DexInv) => StreakFollowsDays
  BY DEF DexInv, StreakFollowsDays
<1> QED
  BY <1>1, DexInvariance, PTL

(* The pool keeps its invariant.                                             *)
LEMMA PoolInvariance == Spec => [](part = "pool" => PoolInv)
<1> DEFINE I == part = "pool" => PoolInv
<1>1. Init => I
  BY PartsStart, PoolInvInit
<1>2. I /\ [Next]_vars => I'
  BY PartsStep, PoolInvStep
<1> QED
  BY <1>1, <1>2, PTL DEF Spec

(* No template fills two slots of a day's pool, whoever built which slot and *)
(* died over it, and a slot's template never changes once it may have been   *)
(* read, although the worker publishes its rows over the requests' rows.     *)
THEOREM PoolSound == Spec => PoolStands
<1> DEFINE I == part = "pool" => PoolInv
           C == part = "pool" => Pools!PoolIsDistinct
           A == part = "pool" => Pools!SlotsAreKept
<1>1. I => C
  BY PoolInvMeans
<1>2. I /\ [Next]_vars => [A]_ofPool
  BY PartsStep, PoolInvMeans
<1>3. Spec => []I
  BY PoolInvariance
<1>4. Spec => [][Next]_vars
  BY PTL DEF Spec
<1>5. []I /\ [][Next]_vars => []C /\ [][A]_ofPool
  <2> HIDE DEF I, C, A
  <2> QED
    BY <1>1, <1>2, PTL
<1> QED
  BY <1>3, <1>4, <1>5, PTL DEF PoolStands

(* A perfect day is awarded once, only when its three conditions hold, and   *)
(* no later than both cursors have passed the events, wherever the worker    *)
(* died and whichever of the streams it read first.                          *)
THEOREM PerfectDaysSound == Spec => []PerfectDaysFollowEvents
<1> DEFINE I == part = "perfect days" => PerfectInv
<1>1. Init => I
  BY PartsStart, PerfectInvInit
<1>2. I /\ [Next]_vars => I'
  BY PartsStep, PerfectInvStep
<1>3. I => PerfectDaysFollowEvents
  BY PerfectInvMeans DEF PerfectDaysFollowEvents
<1> QED
  BY <1>1, <1>2, <1>3, PTL DEF Spec

(* A cycle scores a user once, by the last vote that takes a side; what a    *)
(* DONE job scored is in the user's trust, and recent misses hold it back,   *)
(* unless recomputations overlapped; a job is claimed once, unless two       *)
(* workers had found it; wherever any number of workers failed or died.      *)
THEOREM TrustSound == Spec => []TrustFollowsScores
<1> DEFINE I == part = "trust" => TrustInv
<1>1. Init => I
  BY PartsStart, TrustInvInit
<1>2. I /\ [Next]_vars => I'
  BY PartsStep, TrustInvStep
<1>3. I => TrustFollowsScores
  BY TrustInvMeans DEF TrustFollowsScores
<1> QED
  BY <1>1, <1>2, <1>3, PTL DEF Spec
(* Every part keeps the types of its variables, and its counters stay within *)
(* the bounds: no more is waiting, under way or counted than was sent, and a *)
(* user's outcomes are as many as the cycles they were counted from.         *)
THEOREM TypeCorrect == Spec => []TypeOK
<1> DEFINE I == /\ part \in Parts
                /\ part = "sets" => SetsInv /\ BuildersAre
                /\ part = "pool" => PoolInv
                /\ part = "bounties" => BountyInv /\ RowsInBound
                /\ part = "reviews" => ReviewInv
                /\ part = "limit" => LimitInv /\ RowsAreSent
                /\ part = "dex" => DexInv /\ DexCounts
                /\ part = "perfect days" => PerfectInv /\ StreamsKnown
                /\ part = "trust" => TrustInv /\ StatesAdd
<1>1. Init => I
  <2> SUFFICES ASSUME Init PROVE I
    OBVIOUS
  <2>1. part \in Parts
    BY DEF Init
  <2>2. part = "sets" => SetsInv /\ BuildersAre
    BY PartsStart, SetsInvInit, BuildersAreInit
  <2>3. part = "pool" => PoolInv
    BY PartsStart, PoolInvInit
  <2>4. part = "bounties" => BountyInv /\ RowsInBound
    BY PartsStart, BountyInvInit, RowsInBoundInit
  <2>5. part = "reviews" => ReviewInv
    BY PartsStart, ReviewInvInit
  <2>6. part = "limit" => LimitInv /\ RowsAreSent
    BY PartsStart, LimitInvInit, RowsAreSentInit
  <2>7. part = "dex" => DexInv /\ DexCounts
    BY PartsStart, DexInvInit, DexCountsInit
  <2>8. part = "perfect days" => PerfectInv /\ StreamsKnown
    BY PartsStart, PerfectInvInit, StreamsKnownInit
  <2>9. part = "trust" => TrustInv /\ StatesAdd
    BY PartsStart, TrustInvInit, StatesAddInit
  <2> QED
    BY <2>1, <2>2, <2>3, <2>4, <2>5, <2>6, <2>7, <2>8, <2>9
<1>2. I /\ [Next]_vars => I'
  <2> SUFFICES ASSUME I, [Next]_vars PROVE I'
    OBVIOUS
  <2>1. part' = part
    BY PartsStep
  <2>2. part = "sets" => (SetsInv /\ BuildersAre)'
    BY PartsStep, SetsInvStep, BuildersAreStep
  <2>3. part = "pool" => PoolInv'
    BY PartsStep, PoolInvStep
  <2>4. part = "bounties" => (BountyInv /\ RowsInBound)'
    BY PartsStep, BountyInvStep, RowsInBoundStep
  <2>5. part = "reviews" => ReviewInv'
    BY PartsStep, ReviewInvStep
  <2>6. part = "limit" => (LimitInv /\ RowsAreSent)'
    BY PartsStep, LimitInvStep, RowsAreSentStep
  <2>7. part = "dex" => (DexInv /\ DexCounts)'
    BY PartsStep, DexInvStep, DexCountsStep
  <2>8. part = "perfect days" => (PerfectInv /\ StreamsKnown)'
    BY PartsStep, PerfectInvStep, StreamsKnownStep
  <2>9. part = "trust" => (TrustInv /\ StatesAdd)'
    BY PartsStep, TrustInvStep, StatesAddStep
  <2> QED
    BY <2>1, <2>2, <2>3, <2>4, <2>5, <2>6, <2>7, <2>8, <2>9
<1>3. I => TypeOK
  <2> SUFFICES ASSUME I PROVE TypeOK
    OBVIOUS
  <2>1. part \in {"sets", "pool", "bounties", "reviews", "limit", "dex", "perfect days", "trust"}
    BY PartsAssumption
  <2>2. /\ part = "sets" => Sets!TypeOK
        /\ part = "pool" => Pools!TypeOK
        /\ part = "bounties" => Bounties!TypeOK
        /\ part = "reviews" => Reviews!TypeOK
    BY SetsTyped, PoolTyped, BountyTyped, ReviewTyped
  <2>3. /\ part = "limit" => Limit!TypeOK
        /\ part = "dex" => Dex!TypeOK
        /\ part = "perfect days" => Perfect!TypeOK
        /\ part = "trust" => Trust!TypeOK
    BY LimitTyped, DexTyped, PerfectTyped, TrustTyped
  <2> QED
    BY <2>1, <2>2, <2>3 DEF TypeOK
<1> QED
  BY <1>1, <1>2, <1>3, PTL DEF Spec
=============================================================================
