-------------------------- MODULE LedService_proofs --------------------------
(***************************************************************************)
(* Proofs about the LED task and its callers, for any number of LEDs, any  *)
(* blink counts and any messages.                                          *)
(*                                                                         *)
(* What the task still has to do is the sequence plan.  The proofs speak   *)
(* of a plan by what follows what in it: Followed(p, A, b) says that every *)
(* operation of A in p has b after it.  That is kept when plans are joined *)
(* and when the first operation has been made.                             *)
(***************************************************************************)
EXTENDS LedService, SequenceTheorems, TLAPS

Frames == [Leds -> Colors]
Commits == {Commit(f) : f \in Frames}
Settings == {SetState(s, c) : s \in SystemStates, c \in BOOLEAN}
Ops == Commits \union {Check, Ready} \union {SetBeep(b) : b \in BOOLEAN}
         \union Settings

Has(p, b) == \E j \in 1 .. Len(p) : p[j] = b
Free(p, A) == \A i \in 1 .. Len(p) : p[i] \notin A
Followed(p, A, b) ==
  \A i \in 1 .. Len(p) : p[i] \in A => \E j \in i .. Len(p) : p[j] = b

(* Every commit is checked, every beep is ended.                           *)
Tidy(p) ==
  /\ p \in Seq(Ops)
  /\ Followed(p, Commits, Check)
  /\ Followed(p, {SetBeep(TRUE)}, SetBeep(FALSE))

(* What the LEDs and the reported state are to be once the plan is done.   *)
Target(c) ==
  IF remote_active THEN RemoteFrame(remote_cmd, remote_blink_on)
                   ELSE LocalFrame(c)
Settled(c) == SetState(IF c THEN "COLLECTING" ELSE "IDLE", c)

Phases(cmd) == {RemoteFrame(cmd, b) : b \in BOOLEAN}

(* The plan brings about what is asked for.                                *)
PlanInv ==
  /\ Tidy(plan)
  /\ beep => Has(plan, SetBeep(FALSE))
  /\ ~led_status => Has(plan, Check)
  /\ \E c \in BOOLEAN :
       /\ Followed(plan, Commits, Commit(Target(c)))
       /\ frame = Target(c) \/ ~led_status \/ Has(plan, Commit(Target(c)))
       /\ Followed(plan, Settings, Settled(c))
       /\ \/ collecting = c /\ s_system_state = Settled(c).state
          \/ Has(plan, Settled(c))
  /\ remote_active =>
       \A i \in 1 .. Len(plan) :
         plan[i] \in Commits => plan[i].frame \in Phases(remote_cmd)

MailboxInv ==
  /\ last \in Cmd \union {Release}
  /\ \/ s_led_cmd_queue = <<>>
     \/ \E cmd \in Cmd \union {Release} : s_led_cmd_queue = <<cmd>>
  /\ LatestCommandWins

ServiceInv ==
  /\ pc = "boot" => plan = <<>> /\ ~remote_active /\ ~beep /\ led_status
  /\ pc = "fault" => plan = <<>>
  /\ pc \notin {"boot", "fault"} => PlanInv

-----------------------------------------------------------------------------
(* What follows what, in joined plans and in what is left of one.          *)

LEMMA Joined ==
  ASSUME NEW S, NEW p \in Seq(S), NEW q \in Seq(S)
  PROVE  /\ p \o q \in Seq(S) /\ Len(p \o q) = Len(p) + Len(q)
         /\ Len(p) \in Nat /\ Len(q) \in Nat
         /\ \A i \in 1 .. Len(p) : (p \o q)[i] = p[i]
         /\ \A i \in 1 .. Len(q) : (p \o q)[Len(p) + i] = q[i]
BY ConcatProperties, LenProperties

LEMMA HasJoined ==
  ASSUME NEW S, NEW p \in Seq(S), NEW q \in Seq(S), NEW b,
         Has(p, b) \/ Has(q, b)
  PROVE  Has(p \o q, b)
<1> USE Joined DEF Has
<1>1. CASE Has(p, b)
  <2>1. PICK j \in 1 .. Len(p) : p[j] = b
    BY <1>1
  <2> QED
    BY <2>1
<1>2. CASE Has(q, b)
  <2>1. PICK j \in 1 .. Len(q) : q[j] = b
    BY <1>2
  <2>2. Len(p) + j \in 1 .. Len(p \o q) /\ (p \o q)[Len(p) + j] = b
    BY <2>1
  <2> QED
    BY <2>2
<1> QED
  BY <1>1, <1>2

(* An operation of a joined plan is one of the first or of the second.     *)
LEMMA PartOf ==
  ASSUME NEW S, NEW p \in Seq(S), NEW q \in Seq(S),
         NEW i \in 1 .. Len(p \o q)
  PROVE  \/ i \in 1 .. Len(p) /\ (p \o q)[i] = p[i]
         \/ \E k \in 1 .. Len(q) : i = Len(p) + k /\ (p \o q)[i] = q[k]
<1>1. CASE i <= Len(p)
  BY <1>1, Joined
<1>2. CASE i > Len(p)
  <2> DEFINE k == i - Len(p)
  <2>1. k \in 1 .. Len(q) /\ i = Len(p) + k
    BY <1>2, Joined
  <2> HIDE DEF k
  <2>2. (p \o q)[Len(p) + k] = q[k]
    BY <2>1, Joined
  <2> QED
    BY <2>1, <2>2
<1> QED
  BY <1>1, <1>2, Joined

LEMMA FreeJoined ==
  ASSUME NEW S, NEW p \in Seq(S), NEW q \in Seq(S), NEW A, Free(p, A), Free(q, A)
  PROVE  Free(p \o q, A)
BY PartOf DEF Free

LEMMA FreeFollowed == ASSUME NEW p, NEW A, NEW b, Free(p, A) PROVE Followed(p, A, b)
BY DEF Free, Followed

LEMMA FollowedJoined ==
  ASSUME NEW S, NEW p \in Seq(S), NEW q \in Seq(S), NEW A, NEW b,
         Followed(p, A, b) \/ Has(q, b), Followed(q, A, b)
  PROVE  Followed(p \o q, A, b)
<1> SUFFICES ASSUME NEW i \in 1 .. Len(p \o q), (p \o q)[i] \in A
             PROVE  \E j \in i .. Len(p \o q) : (p \o q)[j] = b
  BY DEF Followed
<1>1. ASSUME NEW k \in 1 .. Len(q), i <= Len(p) + k, q[k] = b
      PROVE  \E j \in i .. Len(p \o q) : (p \o q)[j] = b
  <2>1. Len(p) + k \in i .. Len(p \o q) /\ (p \o q)[Len(p) + k] = b
    BY <1>1, Joined
  <2> QED
    BY <2>1
<1>2. CASE i \in 1 .. Len(p) /\ (p \o q)[i] = p[i]
  <2>1. CASE Has(q, b)
    <3>1. PICK k \in 1 .. Len(q) : q[k] = b
      BY <2>1 DEF Has
    <3> QED
      BY <3>1, <1>1, <1>2, Joined
  <2>2. CASE Followed(p, A, b)
    <3>1. PICK j \in i .. Len(p) : p[j] = b
      BY <2>2, <1>2 DEF Followed
    <3>2. j \in 1 .. Len(p) /\ j \in i .. Len(p \o q)
      BY <3>1, Joined
    <3> QED
      BY <3>1, <3>2, Joined
  <2> QED
    BY <2>1, <2>2
<1>3. CASE \E k \in 1 .. Len(q) : i = Len(p) + k /\ (p \o q)[i] = q[k]
  <2>1. PICK k \in 1 .. Len(q) : i = Len(p) + k /\ (p \o q)[i] = q[k]
    BY <1>3
  <2>2. PICK j \in k .. Len(q) : q[j] = b
    BY <2>1 DEF Followed
  <2>3. j \in 1 .. Len(q) /\ i <= Len(p) + j
    BY <2>1, <2>2, Joined
  <2> QED
    BY <2>2, <2>3, <1>1
<1> QED
  BY <1>2, <1>3, PartOf

LEMMA TidyJoined ==
  ASSUME NEW p, NEW q, Tidy(p), Tidy(q) PROVE Tidy(p \o q)
<1>1. p \in Seq(Ops) /\ q \in Seq(Ops)
  BY DEF Tidy
<1>2. p \o q \in Seq(Ops)
  BY <1>1, Joined
<1>3. /\ Followed(p \o q, Commits, Check)
      /\ Followed(p \o q, {SetBeep(TRUE)}, SetBeep(FALSE))
  BY <1>1, FollowedJoined, Zenon DEF Tidy
<1> QED
  BY <1>2, <1>3 DEF Tidy

LEMMA Left ==
  ASSUME NEW S, NEW p \in Seq(S), p # <<>>
  PROVE  /\ Tail(p) \in Seq(S) /\ Len(p) \in Nat /\ Len(p) >= 1
         /\ Len(Tail(p)) = Len(p) - 1 /\ Head(p) = p[1] /\ Head(p) \in S
         /\ \A i \in 1 .. Len(Tail(p)) : Tail(p)[i] = p[i + 1]
BY HeadTailProperties, LenProperties, EmptySeq

LEMMA HasLeft ==
  ASSUME NEW S, NEW p \in Seq(S), p # <<>>, NEW b, Has(p, b), Head(p) # b
  PROVE  Has(Tail(p), b)
<1>1. PICK j \in 1 .. Len(p) : p[j] = b
  BY DEF Has
<1>2. j - 1 \in 1 .. Len(Tail(p)) /\ Tail(p)[j - 1] = b
  BY <1>1, Left
<1> QED
  BY <1>2 DEF Has

LEMMA FollowedLeft ==
  ASSUME NEW S, NEW p \in Seq(S), p # <<>>, NEW A, NEW b, Followed(p, A, b)
  PROVE  /\ Followed(Tail(p), A, b)
         /\ Head(p) \in A => Has(p, b)
<1>1. ASSUME NEW i \in 1 .. Len(Tail(p)), Tail(p)[i] \in A
      PROVE  \E j \in i .. Len(Tail(p)) : Tail(p)[j] = b
  <2>1. i + 1 \in 1 .. Len(p) /\ p[i + 1] \in A
    BY <1>1, Left
  <2>2. PICK j \in i + 1 .. Len(p) : p[j] = b
    BY <2>1 DEF Followed
  <2>3. j - 1 \in i .. Len(Tail(p)) /\ Tail(p)[j - 1] = b
    BY <2>2, Left
  <2> QED
    BY <2>3
<1>2. ASSUME Head(p) \in A PROVE Has(p, b)
  BY <1>2, Left DEF Followed, Has
<1> QED
  BY <1>1, <1>2 DEF Followed

LEMMA NothingLeft ==
  ASSUME NEW b PROVE ~ Has(<<>>, b) /\ \A A : Free(<<>>, A)
BY DEF Has, Free

-----------------------------------------------------------------------------
(* A repeated plan of two, four or six operations.                         *)

Widths == {2, 4, 6}

LEMMA Wrap ==
  ASSUME NEW n \in Nat, NEW w \in Widths, NEW k \in 1 .. n * w
  PROVE  /\ ((k - 1) % w) + 1 \in 1 .. w
         /\ \A j \in ((k - 1) % w) + 1 .. w :
              \E i \in k .. n * w : i \in 1 .. n * w /\ ((i - 1) % w) + 1 = j
<1> USE DEF Widths
<1>0. k \in Int /\ n * w \in Int
  OBVIOUS
<1> DEFINE r == ((k - 1) % w) + 1
<1>1. r \in 1 .. w
  BY <1>0
<1>2. ASSUME NEW j \in r .. w
      PROVE  k + (j - r) \in k .. n * w /\ ((k + (j - r) - 1) % w) + 1 = j
  <2>1. CASE w = 2
    BY <1>2, <2>1
  <2>2. CASE w = 4
    BY <1>2, <2>2
  <2>3. CASE w = 6
    BY <1>2, <2>3
  <2> QED
    BY <2>1, <2>2, <2>3
<1>3. ASSUME NEW j \in r .. w
      PROVE  \E i \in k .. n * w : i \in 1 .. n * w /\ ((i - 1) % w) + 1 = j
  <2> DEFINE i == k + (j - r)
  <2>1. i \in k .. n * w /\ ((i - 1) % w) + 1 = j
    BY <1>3, <1>2
  <2> HIDE DEF i
  <2>2. i \in 1 .. n * w
    BY <2>1, <1>0
  <2> QED
    BY <2>1, <2>2
<1> QED
  BY <1>1, <1>3

LEMMA Repeated ==
  ASSUME NEW n \in Nat, NEW S, NEW ops \in Seq(S), Len(ops) \in Widths
  PROVE  /\ Repeat(n, ops) \in Seq(S) /\ Len(Repeat(n, ops)) = n * Len(ops)
         /\ \A A : Free(ops, A) => Free(Repeat(n, ops), A)
         /\ \A A, b : Followed(ops, A, b) => Followed(Repeat(n, ops), A, b)
         /\ \A b : Has(ops, b) /\ n > 0 => Has(Repeat(n, ops), b)
<1> DEFINE w == Len(ops)
           R == Repeat(n, ops)
<1>1. w \in Widths /\ n * w \in Nat /\ \A i \in 1 .. w : ops[i] \in S
  BY ElementOfSeq DEF Widths
<1>2. \A k \in 1 .. n * w :
        /\ R[k] = ops[((k - 1) % w) + 1]
        /\ ((k - 1) % w) + 1 \in 1 .. w
  BY <1>1, Wrap DEF Repeat
<1>3. R \in [1 .. n * w -> S]
  <2>1. R = [k \in 1 .. n * w |-> ops[((k - 1) % w) + 1]]
    BY DEF Repeat
  <2> QED
    BY <2>1, <1>1, <1>2
<1>4. R \in Seq(S) /\ Len(R) = n * w
  BY <1>1, <1>3, SeqDef, LenProperties
<1> HIDE DEF R, w
<1>4a. \A k \in 1 .. n * w : \A j \in ((k - 1) % w) + 1 .. w :
        \E i \in k .. n * w : i \in 1 .. n * w /\ ((i - 1) % w) + 1 = j
  <2> TAKE k \in 1 .. n * w
  <2> QED
    BY <1>1, Wrap, Zenon
<1>5. ASSUME NEW A, Free(ops, A) PROVE Free(R, A)
  BY <1>2, <1>4, <1>5 DEF Free, w
<1>6. ASSUME NEW A, NEW b, Followed(ops, A, b) PROVE Followed(R, A, b)
  <2> SUFFICES ASSUME NEW k \in 1 .. n * w, R[k] \in A
               PROVE  \E i \in k .. n * w : R[i] = b
    BY <1>4 DEF Followed
  <2>1. PICK j \in ((k - 1) % w) + 1 .. w : ops[j] = b
    BY <1>2, <1>6 DEF Followed, w
  <2>2. PICK i \in k .. n * w : i \in 1 .. n * w /\ ((i - 1) % w) + 1 = j
    BY <1>4a
  <2>3. R[i] = ops[j]
    BY <1>2, <2>2
  <2> QED
    BY <2>1, <2>2, <2>3, Zenon
<1>7. ASSUME NEW b, Has(ops, b), n > 0 PROVE Has(R, b)
  <2>1. PICK j \in 1 .. w : ops[j] = b
    BY <1>7 DEF Has, w
  <2>2. 1 \in 1 .. n * w
    <3>1. CASE w = 2
      BY <3>1, <1>7
    <3>2. CASE w = 4
      BY <3>2, <1>7
    <3>3. CASE w = 6
      BY <3>3, <1>7
    <3> QED
      BY <3>1, <3>2, <3>3, <1>1 DEF Widths
  <2>3. ((1 - 1) % w) + 1 = 1
    BY <1>1 DEF Widths
  <2>4. j \in ((1 - 1) % w) + 1 .. w
    BY <2>1, <2>3
  <2>5. PICK i \in 1 .. n * w : ((i - 1) % w) + 1 = j
    BY <2>2, <2>4, <1>4a, Zenon
  <2>6. R[i] = b
    BY <1>2, <2>1, <2>5
  <2> QED
    BY <1>4, <2>6, Zenon DEF Has
<1> QED
  BY <1>4, <1>5, <1>6, <1>7 DEF R, w

-----------------------------------------------------------------------------
(* The operations and the short plans they are joined from.                *)

LEMMA FramesShown ==
  /\ \A c, s \in Colors : Show(c, s) \in Frames
  /\ \A c \in BOOLEAN : LocalFrame(c) \in Frames
  /\ \A cmd, b : RemoteFrame(cmd, b) \in Frames
<1>1. \A c, s \in Colors : Show(c, s) \in Frames
  BY DEF Show, Frames
<1>2. \A m, b : mode_to_color(m, b) \in Colors
  <2> SUFFICES ASSUME NEW m, NEW b PROVE mode_to_color(m, b) \in Colors
    OBVIOUS
  <2>1. CASE m \in 1 .. 5
    BY <2>1 DEF mode_to_color, Colors
  <2>2. CASE m \notin 1 .. 5
    BY <2>2 DEF mode_to_color, Colors
  <2> QED
    BY <2>1, <2>2
<1> QED
  BY <1>1, <1>2 DEF LocalFrame, RemoteFrame, Frames, Colors

LEMMA OpFields ==
  /\ \A f : Commit(f).op = "commit" /\ Commit(f).frame = f
  /\ Check.op = "check" /\ Ready.op = "ready"
  /\ \A b : SetBeep(b).op = "beep" /\ SetBeep(b).on = b
  /\ \A s, c : /\ SetState(s, c).op = "state" /\ SetState(s, c).state = s
               /\ SetState(s, c).collecting = c
BY DEF Commit, Check, Ready, SetBeep, SetState

LEMMA OpKinds ==
  ASSUME NEW step \in Ops
  PROVE  /\ step \in Commits <=> step.op = "commit"
         /\ step \in Settings <=> step.op = "state"
         /\ step.op = "commit" => step.frame \in Frames /\ step = Commit(step.frame)
         /\ step.op = "check" => step = Check
         /\ step.op = "ready" => step = Ready
         /\ step.op = "beep" => step.on \in BOOLEAN /\ step = SetBeep(step.on)
         /\ step.op = "state" => /\ step.state \in SystemStates
                                 /\ step.collecting \in BOOLEAN
                                 /\ step = SetState(step.state, step.collecting)
<1>1. CASE step \in Commits
  BY <1>1, OpFields DEF Commits, Settings
<1>2. CASE step \in {Check, Ready}
  BY <1>2, OpFields DEF Commits, Settings
<1>3. CASE \E b \in BOOLEAN : step = SetBeep(b)
  BY <1>3, OpFields DEF Commits, Settings
<1>4. CASE step \in Settings
  BY <1>4, OpFields DEF Commits, Settings
<1> QED
  BY <1>1, <1>2, <1>3, <1>4 DEF Ops

LEMMA One ==
  ASSUME NEW S, NEW o \in S, NEW p, p = <<o>>
  PROVE  /\ p \in Seq(S)
         /\ \A b : Has(p, b) <=> o = b
         /\ \A A : Free(p, A) <=> o \notin A
         /\ \A A, b : Followed(p, A, b) <=> (o \in A => o = b)
BY DEF Has, Free, Followed

LEMMA Two ==
  ASSUME NEW S, NEW o \in S, NEW q \in S, NEW p, p = <<o, q>>
  PROVE  /\ p \in Seq(S) /\ Len(p) = 2
         /\ \A b : Has(p, b) <=> o = b \/ q = b
         /\ \A A : Free(p, A) <=> o \notin A /\ q \notin A
         /\ \A A, b : Followed(p, A, b)
                        <=> (o \in A => o = b \/ q = b) /\ (q \in A => q = b)
<1>1. p \in Seq(S) /\ Len(p) = 2 /\ p[1] = o /\ p[2] = q
  OBVIOUS
<1>2. \A i \in 1 .. 2 : i = 1 \/ i = 2
  OBVIOUS
<1>3. \A b : Has(p, b) <=> o = b \/ q = b
  BY <1>1, <1>2 DEF Has
<1>4. \A A : Free(p, A) <=> o \notin A /\ q \notin A
  BY <1>1, <1>2 DEF Free
<1>5. \A A, b : Followed(p, A, b)
                  <=> (o \in A => o = b \/ q = b) /\ (q \in A => q = b)
  BY <1>1, <1>2 DEF Followed
<1> QED
  BY <1>1, <1>3, <1>4, <1>5, Zenon

LEMMA SettledFields == \A c : Settled(c).op = "state" /\ Settled(c).collecting = c
BY DEF Settled, SetState

LEMMA OpsDiffer ==
  ASSUME NEW step
  PROVE  /\ step.op # "commit" => \A t : step # Commit(t)
         /\ step.op # "check" => step # Check
         /\ step.op # "beep" => \A b : step # SetBeep(b)
         /\ step.op # "state" => \A c : step # Settled(c)
<1>1. ASSUME NEW t, step = Commit(t) PROVE step.op = "commit"
  BY <1>1, OpFields
<1>2. ASSUME step = Check PROVE step.op = "check"
  BY <1>2, OpFields
<1>3. ASSUME NEW b, step = SetBeep(b) PROVE step.op = "beep"
  BY <1>3, OpFields, Zenon
<1>4. ASSUME NEW c, step = Settled(c) PROVE step.op = "state"
  BY <1>4, SettledFields, Zenon
<1> QED
  BY <1>1, <1>2, <1>3, <1>4, Zenon

LEMMA Members ==
  /\ \A f \in Frames : /\ Commit(f) \in Ops /\ Commit(f) \in Commits
                       /\ Commit(f) \notin Settings
                       /\ \A b : Commit(f) # SetBeep(b)
  /\ Check \in Ops /\ Check \notin Commits /\ Check \notin Settings
  /\ Ready \in Ops /\ Ready \notin Commits /\ Ready \notin Settings
  /\ \A b \in BOOLEAN : /\ SetBeep(b) \in Ops /\ SetBeep(b) \notin Commits
                        /\ SetBeep(b) \notin Settings
                        /\ SetBeep(b) # Check /\ SetBeep(b) # Ready
  /\ \A s \in SystemStates, c \in BOOLEAN :
       /\ SetState(s, c) \in Ops /\ SetState(s, c) \in Settings
       /\ SetState(s, c) \notin Commits
       /\ \A b : SetState(s, c) # SetBeep(b)
<1>1. \A f \in Frames : Commit(f) \in Commits
  BY DEF Commits
<1>2. \A s \in SystemStates, c \in BOOLEAN : SetState(s, c) \in Settings
  BY DEF Settings
<1>3. \A step \in Commits : step.op = "commit"
  BY OpFields DEF Commits
<1>4. \A step \in Settings : step.op = "state"
  BY OpFields DEF Settings
<1> QED
  BY <1>1, <1>2, <1>3, <1>4, OpFields DEF Ops

LEMMA EmptyPlan ==
  /\ Tidy(<<>>) /\ <<>> \in Seq(Ops)
  /\ \A A : Free(<<>>, A)
  /\ \A A, b : Followed(<<>>, A, b)
BY NothingLeft, FreeFollowed, EmptySeq DEF Tidy

LEMMA ShownPlan ==
  ASSUME NEW f \in Frames
  PROVE  /\ Tidy(Shown(f)) /\ Len(Shown(f)) = 2
         /\ Free(Shown(f), Settings)
         /\ Has(Shown(f), Commit(f)) /\ Followed(Shown(f), Commits, Commit(f))
<1>1. /\ Commit(f) \in Ops /\ Check \in Ops
      /\ Commit(f) \in Commits /\ Check \notin Commits
      /\ Commit(f) \notin Settings /\ Check \notin Settings
      /\ Commit(f) \notin {SetBeep(TRUE)} /\ Check \notin {SetBeep(TRUE)}
  BY Members, Zenon
<1>2. /\ Shown(f) \in Seq(Ops) /\ Len(Shown(f)) = 2
      /\ \A b : Has(Shown(f), b) <=> Commit(f) = b \/ Check = b
      /\ \A A : Free(Shown(f), A) <=> Commit(f) \notin A /\ Check \notin A
      /\ \A A, b : Followed(Shown(f), A, b)
                     <=> /\ Commit(f) \in A => Commit(f) = b \/ Check = b
                         /\ Check \in A => Check = b
  <2>1. Shown(f) = <<Commit(f), Check>>
    BY DEF Shown
  <2> QED
    BY <1>1, <2>1, Two
<1>3. Followed(Shown(f), Commits, Check) /\ Followed(Shown(f), Commits, Commit(f))
  BY <1>1, <1>2, Zenon
<1>4. Followed(Shown(f), {SetBeep(TRUE)}, SetBeep(FALSE))
  BY <1>1, <1>2, Zenon
<1>5. Free(Shown(f), Settings) /\ Has(Shown(f), Commit(f))
  BY <1>1, <1>2, Zenon
<1> QED
  BY <1>2, <1>3, <1>4, <1>5, Zenon DEF Tidy

LEMMA BeepedPlan ==
  /\ Tidy(Beeped) /\ Len(Beeped) = 2
  /\ Free(Beeped, Settings) /\ Free(Beeped, Commits)
  /\ Has(Beeped, SetBeep(FALSE))
<1> DEFINE on == SetBeep(TRUE)
           off == SetBeep(FALSE)
<1>1. /\ on \in Ops /\ off \in Ops
      /\ on \notin Commits /\ off \notin Commits
      /\ on \notin Settings /\ off \notin Settings
  BY Members
<1>2. Beeped = <<on, off>>
  BY DEF Beeped
<1> HIDE DEF on, off
<1>3. /\ Beeped \in Seq(Ops) /\ Len(Beeped) = 2
      /\ \A b : Has(Beeped, b) <=> on = b \/ off = b
      /\ \A A : Free(Beeped, A) <=> on \notin A /\ off \notin A
      /\ \A A, b : Followed(Beeped, A, b) <=> /\ on \in A => on = b \/ off = b
                                              /\ off \in A => off = b
  BY <1>1, <1>2, Two
<1>4. Free(Beeped, Settings) /\ Free(Beeped, Commits) /\ Has(Beeped, off)
  BY <1>1, <1>3, Zenon
<1>5. Followed(Beeped, {on}, off) /\ Followed(Beeped, Commits, Check)
  BY <1>1, <1>3, Zenon
<1>7. Beeped \in Seq(Ops) /\ Len(Beeped) = 2
  BY <1>3
<1>8. Tidy(Beeped)
  BY <1>5, <1>7, Zenon DEF Tidy, on, off
<1> QED
  BY <1>4, <1>7, <1>8 DEF off

LEMMA TidyIsPlan == ASSUME NEW p, Tidy(p) PROVE p \in Seq(Ops)
BY DEF Tidy

LEMMA TidyRepeated ==
  ASSUME NEW n \in Nat, NEW p, Tidy(p), Len(p) \in Widths
  PROVE  Tidy(Repeat(n, p))
BY Repeated, TidyIsPlan, Zenon DEF Tidy

(* Two frames shown in turn, any number of times.                          *)
LEMMA FlashPlan ==
  ASSUME NEW n \in Nat, NEW f \in Frames, NEW g \in Frames
  PROVE  /\ Tidy(Repeat(n, Shown(f) \o Shown(g)))
         /\ Free(Repeat(n, Shown(f) \o Shown(g)), Settings)
<1>1. Tidy(Shown(f) \o Shown(g))
  BY ShownPlan, TidyJoined
<1>2. Shown(f) \in Seq(Ops) /\ Shown(g) \in Seq(Ops)
  BY ShownPlan, TidyIsPlan
<1>3. Len(Shown(f) \o Shown(g)) \in Widths
  <2>1. Len(Shown(f) \o Shown(g)) = Len(Shown(f)) + Len(Shown(g))
    BY <1>2, Joined, Zenon
  <2>2. Len(Shown(f)) = 2 /\ Len(Shown(g)) = 2
    BY ShownPlan, Zenon
  <2> QED
    BY <2>1, <2>2 DEF Widths
<1>4. Free(Shown(f) \o Shown(g), Settings)
  BY <1>2, ShownPlan, FreeJoined, Zenon
<1>5. Shown(f) \o Shown(g) \in Seq(Ops)
  BY <1>1, TidyIsPlan
<1> HIDE DEF Shown
<1>6. Tidy(Repeat(n, Shown(f) \o Shown(g)))
  BY <1>1, <1>3, TidyRepeated
<1> QED
  BY <1>3, <1>4, <1>5, <1>6, Repeated, Zenon

(* The plan of a long press, and of a double one.                          *)
LEMMA LongPlans ==
  ASSUME NEW c \in BOOLEAN, NEW r \in BOOLEAN
  PROVE  \A p \in {LongPlan(c, r), DoublePlan(c, r)} :
           /\ Tidy(p) /\ Free(p, Settings)
           /\ r => Free(p, Commits)
           /\ ~r => Followed(p, Commits, Commit(LocalFrame(c)))
<1> DEFINE p == LongPlan(c, r)
<1>1. /\ Tidy(p) /\ Free(p, Settings) /\ Len(p) \in Widths
      /\ r => Free(p, Commits)
      /\ ~r => Followed(p, Commits, Commit(LocalFrame(c)))
  <2>1. CASE r
    <3>1. p = Beeped
      BY <2>1, BeepedPlan, TidyIsPlan, ConcatEmptySeq DEF LongPlan, UnlessRemote
    <3> QED
      BY <2>1, <3>1, BeepedPlan DEF Widths
  <2>2. CASE ~r
    <3> DEFINE f == Show("GREEN", IF c THEN "OFF" ELSE "BLUE")
               g == LocalFrame(c)
               s == Shown(f) \o Shown(g)
    <3>1. p = s \o Beeped
      BY <2>2 DEF LongPlan, UnlessRemote, FeedbackPlan
    <3>2. f \in Frames /\ g \in Frames
      BY FramesShown DEF Colors
    <3> HIDE DEF f, g, p
    <3>3. /\ Shown(f) \in Seq(Ops) /\ Shown(g) \in Seq(Ops)
          /\ Beeped \in Seq(Ops) /\ s \in Seq(Ops)
      BY <3>2, ShownPlan, BeepedPlan, TidyIsPlan, Joined
    <3>4. Tidy(s \o Beeped)
      BY <3>2, ShownPlan, BeepedPlan, TidyJoined
    <3>5. Free(s, Settings) /\ Followed(s, Commits, Commit(g))
      <4>1. Free(s, Settings)
        BY <3>2, <3>3, ShownPlan, FreeJoined, Zenon
      <4>2. Followed(s, Commits, Commit(g))
        BY <3>2, <3>3, ShownPlan, FollowedJoined, Zenon
      <4> QED
        BY <4>1, <4>2
    <3>6. Len(s \o Beeped) = 6
      <4>1. /\ Len(s \o Beeped) = Len(s) + Len(Beeped)
            /\ Len(s) = Len(Shown(f)) + Len(Shown(g))
        BY <3>3, Joined, Zenon
      <4> QED
        BY <4>1, <3>2, ShownPlan, BeepedPlan
    <3> HIDE DEF s
    <3>7. Free(s \o Beeped, Settings)
      BY <3>3, <3>5, BeepedPlan, FreeJoined, Zenon
    <3>8. Followed(s \o Beeped, Commits, Commit(g))
      BY <3>3, <3>5, BeepedPlan, FreeFollowed, FollowedJoined, Zenon
    <3> QED
      BY <2>2, <3>1, <3>4, <3>6, <3>7, <3>8 DEF g, Widths
  <2> QED
    BY <2>1, <2>2
<1> HIDE DEF p
<1>2. p \in Seq(Ops)
  BY <1>1, TidyIsPlan
<1>3. /\ Tidy(Repeat(2, p)) /\ Free(Repeat(2, p), Settings)
      /\ r => Free(Repeat(2, p), Commits)
      /\ ~r => Followed(Repeat(2, p), Commits, Commit(LocalFrame(c)))
  <2>1. 2 \in Nat
    OBVIOUS
  <2>2. Tidy(Repeat(2, p))
    BY <1>1, <2>1, TidyRepeated
  <2> QED
    BY <1>1, <1>2, <2>1, <2>2, Repeated, Zenon
<1>4. DoublePlan(c, r) = Repeat(2, p)
  BY DEF DoublePlan, p
<1> QED
  BY <1>1, <1>3, <1>4 DEF p

LEMMA SoloPlan ==
  ASSUME NEW o \in Ops, NEW p, p = <<o>>, o # SetBeep(TRUE)
  PROVE  /\ p \in Seq(Ops)
         /\ Followed(p, {SetBeep(TRUE)}, SetBeep(FALSE))
         /\ \A b : Has(p, b) <=> o = b
         /\ \A A : Free(p, A) <=> o \notin A
         /\ \A A : Followed(p, A, o)
<1>1. /\ p \in Seq(Ops)
      /\ \A b : Has(p, b) <=> o = b
      /\ \A A : Free(p, A) <=> o \notin A
      /\ \A A, b : Followed(p, A, b) <=> (o \in A => o = b)
  BY One
<1> QED
  BY <1>1, Zenon

(* The plan of a short press.                                              *)
LEMMA ShortPlans ==
  ASSUME NEW c \in BOOLEAN, NEW r \in BOOLEAN
  PROVE  /\ Tidy(ShortPlan(c, r))
         /\ r => Free(ShortPlan(c, r), Commits)
         /\ ~r => /\ Has(ShortPlan(c, r), Commit(LocalFrame(~c)))
                  /\ Followed(ShortPlan(c, r), Commits, Commit(LocalFrame(~c)))
         /\ Has(ShortPlan(c, r), Settled(~c))
         /\ Followed(ShortPlan(c, r), Settings, Settled(~c))
<1> DEFINE on == SetBeep(TRUE)
           off == SetBeep(FALSE)
           f == LocalFrame(~c)
           s == SetState(IF c THEN "IDLE" ELSE "COLLECTING", ~c)
           A == IF c THEN <<>>
                ELSE <<SetState("PREPARING", c)>> \o UnlessRemote(r, PreparePlan)
           D == UnlessRemote(r, <<Commit(f)>>)
           E == <<s>>
           F == UnlessRemote(r, <<Check>>)
           AB == A \o Beeped
           ABD == AB \o D
           ABDE == ABD \o E
<1>1. ShortPlan(c, r) = ABDE \o F
  BY DEF ShortPlan
<1>2. f \in Frames
  BY FramesShown
<1>3. s = Settled(~c) /\ s \in Ops /\ s \in Settings /\ s \notin Commits /\ s # on
  <2>1. s = Settled(~c)
    BY Zenon DEF Settled
  <2>2. "IDLE" \in SystemStates /\ "COLLECTING" \in SystemStates
    BY DEF SystemStates
  <2>2a. (~c) \in BOOLEAN
    OBVIOUS
  <2> DEFINE n == IF c THEN "IDLE" ELSE "COLLECTING"
             d == ~c
  <2>3. n \in SystemStates /\ d \in BOOLEAN
    <3>1. CASE c
      BY <3>1, <2>2, <2>2a
    <3>2. CASE ~c
      BY <3>2, <2>2, <2>2a
    <3> QED
      BY <3>1, <3>2
  <2> HIDE DEF n, d
  <2>4. /\ SetState(n, d) \in Ops /\ SetState(n, d) \in Settings
        /\ SetState(n, d) \notin Commits /\ SetState(n, d) # on
    BY <2>3, Members, Zenon
  <2> QED
    BY <2>1, <2>4, Zenon DEF n, d
<1>4. Tidy(A) /\ (r => Free(A, Commits))
  <2> DEFINE P == <<SetState("PREPARING", c)>>
             Q == UnlessRemote(r, PreparePlan)
  <2>1. "PREPARING" \in SystemStates
    BY DEF SystemStates
  <2>2. Tidy(P) /\ Free(P, Commits) /\ P \in Seq(Ops)
    <3>1. /\ SetState("PREPARING", c) \in Ops
          /\ SetState("PREPARING", c) \notin Commits
          /\ SetState("PREPARING", c) # on
      BY <2>1, Members, Zenon
    <3>2. /\ P \in Seq(Ops) /\ Free(P, Commits) /\ Followed(P, {on}, off)
      BY <3>1, SoloPlan, Zenon
    <3> QED
      BY <3>2, FreeFollowed, Zenon DEF Tidy
  <2>3. Tidy(Q) /\ (r => Free(Q, Commits)) /\ Q \in Seq(Ops)
    <3>1. CASE r
      BY <3>1, EmptyPlan DEF UnlessRemote
    <3>2. CASE ~r
      <4>1. Show("GREEN", "BLUE") \in Frames /\ Show("GREEN", "OFF") \in Frames
        BY FramesShown DEF Colors
      <4>2. Tidy(PreparePlan)
        BY <4>1, FlashPlan, LedAssumption, Zenon DEF PreparePlan
      <4> QED
        BY <3>2, <4>2, TidyIsPlan DEF UnlessRemote
    <3> QED
      BY <3>1, <3>2
  <2> HIDE DEF P, Q
  <2>4. CASE c
    BY <2>4, EmptyPlan
  <2>5. CASE ~c
    <3>1. A = P \o Q
      BY <2>5 DEF P, Q
    <3>2. Tidy(P \o Q) /\ (r => Free(P \o Q, Commits))
      BY <2>2, <2>3, TidyJoined, FreeJoined, Zenon
    <3> HIDE DEF A
    <3> QED
      BY <3>1, <3>2
  <2> QED
    BY <2>4, <2>5
<1>5. /\ D \in Seq(Ops) /\ Followed(D, {on}, off)
      /\ Followed(D, Commits, Commit(f)) /\ Free(D, Settings)
      /\ r => Free(D, Commits)
      /\ ~r => Has(D, Commit(f))
  <2> HIDE DEF f
  <2>1. CASE r
    BY <2>1, EmptyPlan DEF UnlessRemote
  <2>2. CASE ~r
    <3>1. D = <<Commit(f)>>
      BY <2>2 DEF UnlessRemote
    <3> HIDE DEF D
    <3>2. Commit(f) \in Ops /\ Commit(f) # on /\ Commit(f) \notin Settings
      BY <1>2, Members, Zenon
    <3> QED
      BY <2>2, <3>1, <3>2, SoloPlan, Zenon
  <2> QED
    BY <2>1, <2>2
<1>6. /\ E \in Seq(Ops) /\ Followed(E, {on}, off) /\ Free(E, Commits)
      /\ Has(E, s) /\ Followed(E, Settings, s)
  <2> HIDE DEF s
  <2> QED
    BY <1>3, SoloPlan, Zenon
<1>7. /\ F \in Seq(Ops) /\ Followed(F, {on}, off)
      /\ Free(F, Commits) /\ Free(F, Settings)
      /\ ~r => Has(F, Check)
  <2>1. CASE r
    BY <2>1, EmptyPlan DEF UnlessRemote
  <2>2. CASE ~r
    <3>1. F = <<Check>>
      BY <2>2 DEF UnlessRemote
    <3> HIDE DEF F
    <3>2. /\ Check \in Ops /\ Check # on
          /\ Check \notin Settings /\ Check \notin Commits
      BY Members, Zenon
    <3> QED
      BY <3>1, <3>2, SoloPlan, Zenon
  <2> QED
    BY <2>1, <2>2
<1> HIDE DEF A, D, E, F, f, s
<1>8. Tidy(AB) /\ AB \in Seq(Ops) /\ (r => Free(AB, Commits))
  <2>1. Tidy(AB) /\ AB \in Seq(Ops)
    BY <1>4, BeepedPlan, TidyJoined, TidyIsPlan, Zenon
  <2>2. r => Free(AB, Commits)
    BY <1>4, BeepedPlan, TidyIsPlan, FreeJoined, Zenon
  <2> QED
    BY <2>1, <2>2
<1> HIDE DEF AB
<1>9. /\ ABD \in Seq(Ops) /\ Followed(ABD, {on}, off)
      /\ r => Free(ABD, Commits)
      /\ ~r => Has(ABD, Commit(f)) /\ Followed(ABD, Commits, Commit(f))
  <2>1. ABD \in Seq(Ops)
    BY <1>5, <1>8, Joined, Zenon
  <2>2. Followed(ABD, {on}, off)
    BY <1>5, <1>8, FollowedJoined, Zenon DEF Tidy
  <2>3. r => Free(ABD, Commits)
    BY <1>5, <1>8, FreeJoined, Zenon
  <2>4. ~r => Has(ABD, Commit(f)) /\ Followed(ABD, Commits, Commit(f))
    BY <1>5, <1>8, HasJoined, FollowedJoined, Zenon
  <2> QED
    BY <2>1, <2>2, <2>3, <2>4
<1> HIDE DEF ABD
<1>10. /\ ABDE \in Seq(Ops) /\ Followed(ABDE, {on}, off)
       /\ r => Free(ABDE, Commits)
       /\ ~r => Has(ABDE, Commit(f)) /\ Followed(ABDE, Commits, Commit(f))
       /\ Has(ABDE, s) /\ Followed(ABDE, Settings, s)
  <2>1. ABDE \in Seq(Ops)
    BY <1>6, <1>9, Joined, Zenon
  <2>2. Followed(ABDE, {on}, off)
    BY <1>6, <1>9, FollowedJoined, Zenon
  <2>3. r => Free(ABDE, Commits)
    BY <1>6, <1>9, FreeJoined, Zenon
  <2>4. ~r => Has(ABDE, Commit(f)) /\ Followed(ABDE, Commits, Commit(f))
    BY <1>6, <1>9, HasJoined, FreeFollowed, FollowedJoined, Zenon
  <2>5. Has(ABDE, s) /\ Followed(ABDE, Settings, s)
    BY <1>6, <1>9, HasJoined, FollowedJoined, Zenon
  <2> QED
    BY <2>1, <2>2, <2>3, <2>4, <2>5
<1> HIDE DEF ABDE
<1> DEFINE p == ABDE \o F
<1>11. /\ p \in Seq(Ops) /\ Followed(p, {on}, off)
       /\ r => Free(p, Commits)
       /\ ~r => Has(p, Commit(f)) /\ Followed(p, Commits, Commit(f))
       /\ Has(p, s) /\ Followed(p, Settings, s)
  <2>1. p \in Seq(Ops)
    BY <1>7, <1>10, Joined, Zenon
  <2>2. Followed(p, {on}, off)
    BY <1>7, <1>10, FollowedJoined, Zenon
  <2>3. r => Free(p, Commits)
    BY <1>7, <1>10, FreeJoined, Zenon
  <2>4. ~r => Has(p, Commit(f)) /\ Followed(p, Commits, Commit(f))
    BY <1>7, <1>10, HasJoined, FreeFollowed, FollowedJoined, Zenon
  <2>5. Has(p, s) /\ Followed(p, Settings, s)
    BY <1>7, <1>10, HasJoined, FreeFollowed, FollowedJoined, Zenon
  <2> QED
    BY <2>1, <2>2, <2>3, <2>4, <2>5
<1>12. Followed(p, Commits, Check)
  <2>1. CASE r
    BY <2>1, <1>11, FreeFollowed
  <2>2. CASE ~r
    BY <2>2, <1>7, <1>10, FreeFollowed, FollowedJoined, Zenon
  <2> QED
    BY <2>1, <2>2
<1>13. Tidy(p)
  BY <1>11, <1>12 DEF Tidy
<1> HIDE DEF p
<1>14. ShortPlan(c, r) = p /\ f = LocalFrame(~c) /\ s = Settled(~c)
  BY <1>1, <1>3 DEF p, f
<1> QED
  BY <1>11, <1>13, <1>14, Zenon

(* The plan of any set of presses ends in one local frame and one state.   *)
LEMMA ActionsPlans ==
  ASSUME NEW actions, NEW c \in BOOLEAN, NEW r \in BOOLEAN
  PROVE  /\ Tidy(ActionsPlan(actions, c, r))
         /\ r => Free(ActionsPlan(actions, c, r), Commits)
         /\ \E after \in BOOLEAN :
              /\ Followed(ActionsPlan(actions, c, r), Settings, Settled(after))
              /\ after # c => Has(ActionsPlan(actions, c, r), Settled(after))
              /\ ~r => /\ Followed(ActionsPlan(actions, c, r), Commits,
                                   Commit(LocalFrame(after)))
                       /\ after # c => Has(ActionsPlan(actions, c, r),
                                           Commit(LocalFrame(after)))
<1> DEFINE after == IF "SHORT" \in actions THEN ~c ELSE c
           F == IF "SHORT" \in actions THEN ShortPlan(c, r) ELSE <<>>
           L == IF "LONG" \in actions THEN LongPlan(after, r) ELSE <<>>
           D == IF "DOUBLE" \in actions THEN DoublePlan(after, r) ELSE <<>>
           s == Settled(after)
           k == Commit(LocalFrame(after))
           FL == F \o L
           p == FL \o D
<1>1. ActionsPlan(actions, c, r) = p
  BY Zenon DEF ActionsPlan
<1>2. after \in BOOLEAN
  <2>1. (~c) \in BOOLEAN
    OBVIOUS
  <2> QED
    BY <2>1, Zenon
<1>3. /\ Tidy(F) /\ (r => Free(F, Commits))
      /\ ~r => Followed(F, Commits, k)
      /\ Followed(F, Settings, s)
      /\ after # c => Has(F, s) /\ (~r => Has(F, k))
  <2>1. CASE "SHORT" \in actions
    <3>1. after = ~c /\ F = ShortPlan(c, r)
      BY <2>1, Zenon
    <3> HIDE DEF after, F
    <3> QED
      BY <3>1, ShortPlans, Zenon
  <2>2. CASE "SHORT" \notin actions
    <3>1. after = c /\ F = <<>>
      BY <2>2, Zenon
    <3> HIDE DEF after, F
    <3> QED
      BY <3>1, EmptyPlan, Zenon
  <2> QED
    BY <2>1, <2>2
<1> HIDE DEF after, F
<1>4. /\ Tidy(L) /\ Free(L, Settings) /\ (r => Free(L, Commits))
      /\ ~r => Followed(L, Commits, k)
  <2>1. CASE "LONG" \in actions
    <3>1. L = LongPlan(after, r)
      BY <2>1
    <3> HIDE DEF L
    <3> QED
      BY <3>1, <1>2, LongPlans, Zenon
  <2>2. CASE "LONG" \notin actions
    <3>1. L = <<>>
      BY <2>2
    <3> HIDE DEF L
    <3> QED
      BY <3>1, EmptyPlan, Zenon
  <2> QED
    BY <2>1, <2>2
<1>5. /\ Tidy(D) /\ Free(D, Settings) /\ (r => Free(D, Commits))
      /\ ~r => Followed(D, Commits, k)
  <2>1. CASE "DOUBLE" \in actions
    <3>1. D = DoublePlan(after, r)
      BY <2>1
    <3> HIDE DEF D
    <3> QED
      BY <3>1, <1>2, LongPlans, Zenon
  <2>2. CASE "DOUBLE" \notin actions
    <3>1. D = <<>>
      BY <2>2
    <3> HIDE DEF D
    <3> QED
      BY <3>1, EmptyPlan, Zenon
  <2> QED
    BY <2>1, <2>2
<1> HIDE DEF L, D, s, k
<1>6. F \in Seq(Ops) /\ L \in Seq(Ops) /\ D \in Seq(Ops)
  BY <1>3, <1>4, <1>5, TidyIsPlan
<1>7. /\ Tidy(FL) /\ FL \in Seq(Ops) /\ (r => Free(FL, Commits))
      /\ ~r => Followed(FL, Commits, k)
      /\ Followed(FL, Settings, s)
      /\ after # c => Has(FL, s) /\ (~r => Has(FL, k))
  <2>1. Tidy(FL) /\ FL \in Seq(Ops)
    BY <1>3, <1>4, TidyJoined, TidyIsPlan, Zenon
  <2>2. r => Free(FL, Commits)
    BY <1>3, <1>4, <1>6, FreeJoined, Zenon
  <2>3. ~r => Followed(FL, Commits, k)
    BY <1>3, <1>4, <1>6, FollowedJoined, Zenon
  <2>4. Followed(FL, Settings, s)
    BY <1>3, <1>4, <1>6, FreeFollowed, FollowedJoined, Zenon
  <2>5. after # c => Has(FL, s) /\ (~r => Has(FL, k))
    BY <1>3, <1>6, HasJoined, Zenon
  <2> QED
    BY <2>1, <2>2, <2>3, <2>4, <2>5
<1> HIDE DEF FL
<1>8. /\ Tidy(p) /\ (r => Free(p, Commits))
      /\ ~r => Followed(p, Commits, k)
      /\ Followed(p, Settings, s)
      /\ after # c => Has(p, s) /\ (~r => Has(p, k))
  <2>1. Tidy(p)
    BY <1>5, <1>7, TidyJoined, Zenon
  <2>2. r => Free(p, Commits)
    BY <1>5, <1>6, <1>7, FreeJoined, Zenon
  <2>3. ~r => Followed(p, Commits, k)
    BY <1>5, <1>6, <1>7, FollowedJoined, Zenon
  <2>4. Followed(p, Settings, s)
    BY <1>5, <1>6, <1>7, FreeFollowed, FollowedJoined, Zenon
  <2>5. after # c => Has(p, s) /\ (~r => Has(p, k))
    BY <1>6, <1>7, HasJoined, Zenon
  <2> QED
    BY <2>1, <2>2, <2>3, <2>4, <2>5
<1> HIDE DEF p
<1> QED
  BY <1>1, <1>2, <1>8, Zenon DEF s, k

LEMMA SelfTestPlans ==
  /\ Tidy(SelfTestPlan)
  /\ Has(SelfTestPlan, Commit(LocalFrame(FALSE)))
  /\ Followed(SelfTestPlan, Commits, Commit(LocalFrame(FALSE)))
  /\ Has(SelfTestPlan, Settled(FALSE))
  /\ Followed(SelfTestPlan, Settings, Settled(FALSE))
<1> DEFINE f == LocalFrame(FALSE)
           s == SetState("IDLE", FALSE)
           A == Repeat(SELF_TEST_BLINK_COUNT,
                       Shown(Show("GREEN", "OFF")) \o Shown(Show("OFF", "OFF")))
           B == Shown(f)
           E == <<s, Ready>>
           AB == A \o B
           p == AB \o E
<1>1. SelfTestPlan = p
  BY DEF SelfTestPlan
<1>2. f \in Frames /\ Show("GREEN", "OFF") \in Frames /\ Show("OFF", "OFF") \in Frames
  BY FramesShown DEF Colors
<1>3. Tidy(A) /\ Free(A, Settings) /\ A \in Seq(Ops)
  BY <1>2, FlashPlan, TidyIsPlan, LedAssumption, Zenon
<1>4. /\ s = Settled(FALSE) /\ s \in Ops /\ s \in Settings /\ s \notin Commits
      /\ s # SetBeep(TRUE)
  <2>1. "IDLE" \in SystemStates
    BY DEF SystemStates
  <2>2. s = Settled(FALSE)
    BY DEF Settled
  <2> QED
    BY <2>1, <2>2, Members, Zenon
<1> HIDE DEF A, f, s
<1>5. /\ Tidy(B) /\ B \in Seq(Ops) /\ Free(B, Settings)
      /\ Has(B, Commit(f)) /\ Followed(B, Commits, Commit(f))
  BY <1>2, ShownPlan, TidyIsPlan, Zenon
<1> HIDE DEF B
<1>6. /\ Tidy(AB) /\ AB \in Seq(Ops) /\ Free(AB, Settings)
      /\ Has(AB, Commit(f)) /\ Followed(AB, Commits, Commit(f))
  <2>1. Tidy(AB) /\ AB \in Seq(Ops)
    BY <1>3, <1>5, TidyJoined, TidyIsPlan, Zenon
  <2>2. Free(AB, Settings)
    BY <1>3, <1>5, FreeJoined, Zenon
  <2>3. Has(AB, Commit(f)) /\ Followed(AB, Commits, Commit(f))
    BY <1>3, <1>5, HasJoined, FollowedJoined, Zenon
  <2> QED
    BY <2>1, <2>2, <2>3
<1>7. /\ E \in Seq(Ops) /\ Free(E, Commits) /\ Free(E, {SetBeep(TRUE)})
      /\ Has(E, s) /\ Followed(E, Settings, s)
  <2>1. /\ Ready \in Ops /\ Ready \notin Commits /\ Ready \notin Settings
        /\ Ready # SetBeep(TRUE)
    BY Members, Zenon
  <2>2. E = <<s, Ready>>
    OBVIOUS
  <2> HIDE DEF E
  <2>3. /\ E \in Seq(Ops) /\ \A b : Has(E, b) <=> s = b \/ Ready = b
        /\ \A T : Free(E, T) <=> s \notin T /\ Ready \notin T
        /\ \A T, b : Followed(E, T, b) <=> /\ s \in T => s = b \/ Ready = b
                                           /\ Ready \in T => Ready = b
    <3>1. s \in Ops /\ Ready \in Ops
      BY <2>1, <1>4
    <3> QED
      BY <3>1, <2>2, Two
  <2> QED
    BY <2>1, <2>3, <1>4, Zenon
<1>8. Tidy(E)
  BY <1>7, FreeFollowed, Zenon DEF Tidy
<1> HIDE DEF E, AB
<1>9. Tidy(p)
  BY <1>6, <1>8, TidyJoined, Zenon
<1>10. Has(p, Commit(f)) /\ Followed(p, Commits, Commit(f))
  BY <1>6, <1>7, HasJoined, FreeFollowed, FollowedJoined, Zenon
<1>11. Has(p, s) /\ Followed(p, Settings, s)
  BY <1>6, <1>7, HasJoined, FollowedJoined, Zenon
<1> HIDE DEF p
<1> QED
  BY <1>1, <1>4, <1>9, <1>10, <1>11, Zenon DEF f

LEMMA SilentPlan == ASSUME NEW m, m = 0 PROVE RemoteBeepPlan(m) = <<SetBeep(FALSE)>>
<1> DEFINE o == SetBeep(FALSE)
<1>1. RemoteBeepPlan(m) = CASE m = 0 -> <<o>>
                            [] m \in {1, 2} -> Beeped
                            [] m = 3 -> Beeped \o Beeped
  BY Zenon DEF RemoteBeepPlan
<1> HIDE DEF o
<1>2. (CASE m = 0 -> <<o>> [] m \in {1, 2} -> Beeped [] m = 3 -> Beeped \o Beeped)
        = <<o>>
  OBVIOUS
<1> QED
  BY <1>1, <1>2, Zenon DEF o

(* The plan of a command commits one frame only, and checks it.            *)
LEMMA CommandPlans ==
  ASSUME NEW cmd \in Cmd \union {Release}, NEW c \in BOOLEAN,
         NEW f, f = IF cmd.enabled THEN RemoteFrame(cmd, TRUE) ELSE LocalFrame(c)
  PROVE  /\ Tidy(CommandPlan(cmd, c)) /\ Free(CommandPlan(cmd, c), Settings)
         /\ Has(CommandPlan(cmd, c), Commit(f))
         /\ Free(CommandPlan(cmd, c), Commits \ {Commit(f)})
         /\ Followed(CommandPlan(cmd, c), Commits, Commit(f))
<1> DEFINE C == <<Commit(f)>>
           on == SetBeep(TRUE)
           off == SetBeep(FALSE)
<1>1. f \in Frames
  BY FramesShown
<1>2. /\ Commit(f) \in Ops /\ Commit(f) # on /\ Commit(f) \in Commits
      /\ Commit(f) \notin Settings
      /\ Check \in Ops /\ Check # on /\ Check \notin Commits
      /\ Check \notin Settings
      /\ off \in Ops /\ off \notin Commits /\ off \notin Settings
  BY <1>1, Members, Zenon
<1>3. off # on
  BY DEF SetBeep
<1>4. \E B : /\ Tidy(B) /\ Free(B, Commits) /\ Free(B, Settings)
             /\ CommandPlan(cmd, c) = (C \o B) \o <<Check>>
  <2>1. Tidy(<<off>>) /\ Free(<<off>>, Commits) /\ Free(<<off>>, Settings)
    <3> DEFINE O == <<off>>
    <3> HIDE DEF on, off
    <3>1. O = <<off>>
      OBVIOUS
    <3> HIDE DEF O
    <3>2. /\ O \in Seq(Ops) /\ Free(O, Commits) /\ Free(O, Settings)
          /\ Free(O, {on})
      BY <1>2, <1>3, <3>1, One
    <3>3. Followed(O, Commits, Check) /\ Followed(O, {on}, off)
      BY <3>2, FreeFollowed
    <3> QED
      BY <3>1, <3>2, <3>3, Zenon DEF Tidy, on, off
  <2>2. CASE cmd \in Cmd
    <3>1. cmd.enabled /\ cmd.beep_mode \in 0 .. 3
      BY <2>2 DEF Cmd, BeepModes
    <3> DEFINE B == RemoteBeepPlan(cmd.beep_mode)
    <3>2. CommandPlan(cmd, c) = (C \o B) \o <<Check>>
      BY <3>1 DEF CommandPlan
    <3>3. Tidy(B) /\ Free(B, Commits) /\ Free(B, Settings)
      <4>1. CASE cmd.beep_mode = 0
        <5>1. B = <<off>>
          BY <4>1, SilentPlan, Zenon
        <5> HIDE DEF B, off
        <5> QED
          BY <5>1, <2>1
      <4>2. CASE cmd.beep_mode \in {1, 2}
        <5>1. B = Beeped
          BY <4>2 DEF RemoteBeepPlan
        <5> HIDE DEF B
        <5> QED
          BY <5>1, BeepedPlan
      <4>3. CASE cmd.beep_mode = 3
        <5>1. B = Beeped \o Beeped
          BY <4>3 DEF RemoteBeepPlan
        <5> HIDE DEF B
        <5>2. Beeped \in Seq(Ops)
          BY BeepedPlan, TidyIsPlan
        <5> QED
          BY <5>1, <5>2, BeepedPlan, TidyJoined, FreeJoined, Zenon
      <4> QED
        BY <3>1, <4>1, <4>2, <4>3
    <3> QED
      BY <3>2, <3>3, Zenon
  <2>3. CASE cmd = Release
    <3>1. ~cmd.enabled
      BY <2>3 DEF Release
    <3>2. CommandPlan(cmd, c) = <<Commit(f), off, Check>>
      BY <3>1 DEF CommandPlan
    <3>3. <<Commit(f), off, Check>> = (C \o <<off>>) \o <<Check>>
      <4> DEFINE o == Commit(f)
                 k == Check
      <4>1. o \in Ops /\ off \in Ops /\ k \in Ops
        BY <1>2
      <4> HIDE DEF o, off, k
      <4>2. <<o, off>> \in Seq(Ops) /\ <<o>> \in Seq(Ops)
        BY <4>1
      <4>3. <<o, off>> = <<o>> \o <<off>>
        <5>1. <<o, off>> = Append(<<o>>, off)
          OBVIOUS
        <5> QED
          BY <5>1, <4>1, <4>2, AppendIsConcat
      <4>4. <<o, off, k>> = <<o, off>> \o <<k>>
        <5>1. <<o, off, k>> = Append(<<o, off>>, k)
          OBVIOUS
        <5> QED
          BY <5>1, <4>1, <4>2, AppendIsConcat
      <4> QED
        BY <4>3, <4>4, Zenon DEF o, k
    <3> QED
      BY <3>2, <3>3, <2>1, Zenon
  <2> QED
    BY <2>2, <2>3
<1>5. PICK B : /\ Tidy(B) /\ Free(B, Commits) /\ Free(B, Settings)
               /\ CommandPlan(cmd, c) = (C \o B) \o <<Check>>
  BY <1>4
<1> DEFINE K == <<Check>>
           CB == C \o B
           p == CB \o K
<1>6. /\ C \in Seq(Ops) /\ Followed(C, {on}, off) /\ Free(C, Settings)
      /\ Has(C, Commit(f)) /\ Followed(C, Commits, Commit(f))
      /\ Free(C, Commits \ {Commit(f)})
  <2>1. C = <<Commit(f)>>
    OBVIOUS
  <2> HIDE DEF C
  <2>2. /\ C \in Seq(Ops) /\ Followed(C, {on}, off)
        /\ \A b : Has(C, b) <=> Commit(f) = b
        /\ \A A : Free(C, A) <=> Commit(f) \notin A
        /\ \A A : Followed(C, A, Commit(f))
    BY <1>2, <2>1, SoloPlan, Zenon
  <2>3. Commit(f) \notin Commits \ {Commit(f)}
    OBVIOUS
  <2> QED
    BY <1>2, <2>2, <2>3, Zenon
<1>7. /\ K \in Seq(Ops) /\ Followed(K, {on}, off) /\ Free(K, Settings)
      /\ Free(K, Commits) /\ Has(K, Check)
  BY <1>2, SoloPlan, Zenon
<1>8. B \in Seq(Ops) /\ Followed(B, {on}, off) /\ Free(B, Commits \ {Commit(f)})
  <2>1. Free(B, Commits \ {Commit(f)})
    BY <1>5 DEF Free
  <2> QED
    BY <2>1, <1>5 DEF Tidy
<1>9. Free(K, Commits \ {Commit(f)})
  BY <1>7 DEF Free
<1> HIDE DEF C, K
<1>10. /\ CB \in Seq(Ops) /\ Followed(CB, {on}, off) /\ Free(CB, Settings)
       /\ Has(CB, Commit(f)) /\ Followed(CB, Commits, Commit(f))
       /\ Free(CB, Commits \ {Commit(f)})
  <2>1. CB \in Seq(Ops)
    BY <1>6, <1>8, Joined, Zenon
  <2>2. Followed(CB, {on}, off)
    BY <1>6, <1>8, FollowedJoined, Zenon
  <2>3. Has(CB, Commit(f)) /\ Followed(CB, Commits, Commit(f))
    BY <1>5, <1>6, <1>8, HasJoined, FreeFollowed, FollowedJoined, Zenon
  <2>4. Free(CB, Settings) /\ Free(CB, Commits \ {Commit(f)})
    BY <1>5, <1>6, <1>8, FreeJoined, Zenon
  <2> QED
    BY <2>1, <2>2, <2>3, <2>4
<1> HIDE DEF CB
<1>11. p \in Seq(Ops) /\ Followed(p, {on}, off)
  BY <1>7, <1>10, Joined, FollowedJoined, Zenon
<1>12. /\ Has(p, Commit(f)) /\ Followed(p, Commits, Commit(f))
       /\ Followed(p, Commits, Check)
  BY <1>7, <1>10, HasJoined, FreeFollowed, FollowedJoined, Zenon
<1>13. Free(p, Settings) /\ Free(p, Commits \ {Commit(f)})
  BY <1>7, <1>9, <1>10, FreeJoined, Zenon
<1>14. Tidy(p)
  BY <1>11, <1>12 DEF Tidy
<1>15. CommandPlan(cmd, c) = p
  BY <1>5 DEF K, CB
<1> HIDE DEF p
<1> QED
  BY <1>12, <1>13, <1>14, <1>15, Zenon

-----------------------------------------------------------------------------
(* Every step keeps the plan's promises.                                   *)

Inv == TypeOK /\ MailboxInv /\ ServiceInv

LEMMA TailKeeps ==
  ASSUME PlanInv, plan # <<>>
  PROVE  /\ Head(plan) \in Ops /\ Tidy(Tail(plan))
         /\ \A b : Has(plan, b) /\ Head(plan) # b => Has(Tail(plan), b)
         /\ \A A, b : Followed(plan, A, b) =>
              /\ Followed(Tail(plan), A, b)
              /\ Head(plan) \in A => Has(plan, b)
         /\ remote_active =>
              /\ Head(plan) \in Commits => Head(plan).frame \in Phases(remote_cmd)
              /\ \A i \in 1 .. Len(Tail(plan)) :
                   Tail(plan)[i] \in Commits =>
                     Tail(plan)[i].frame \in Phases(remote_cmd)
<1>1. plan \in Seq(Ops)
  BY DEF PlanInv, Tidy
<1>2. \A b : Has(plan, b) /\ Head(plan) # b => Has(Tail(plan), b)
  BY <1>1, HasLeft, Zenon
<1>3. \A A, b : Followed(plan, A, b) =>
        Followed(Tail(plan), A, b) /\ (Head(plan) \in A => Has(plan, b))
  BY <1>1, FollowedLeft, Zenon
<1>4. Tidy(Tail(plan)) /\ Head(plan) \in Ops
  BY <1>1, <1>3, Left DEF PlanInv, Tidy
<1>5. ASSUME remote_active
      PROVE  /\ Head(plan) \in Commits => Head(plan).frame \in Phases(remote_cmd)
             /\ \A i \in 1 .. Len(Tail(plan)) :
                  Tail(plan)[i] \in Commits =>
                    Tail(plan)[i].frame \in Phases(remote_cmd)
  <2>1. \A i \in 1 .. Len(plan) :
          plan[i] \in Commits => plan[i].frame \in Phases(remote_cmd)
    BY <1>5 DEF PlanInv
  <2>2. 1 \in 1 .. Len(plan) /\ Head(plan) = plan[1]
    BY <1>1, Left
  <2>3. \A i \in 1 .. Len(Tail(plan)) :
          i + 1 \in 1 .. Len(plan) /\ Tail(plan)[i] = plan[i + 1]
    BY <1>1, Left
  <2> QED
    BY <2>1, <2>2, <2>3
<1> QED
  BY <1>2, <1>3, <1>4, <1>5

(* What an operation has to leave behind.                                  *)
LEMMA OperationKeeps ==
  ASSUME PlanInv, plan # <<>>, plan' = Tail(plan),
         remote_active' = remote_active, remote_cmd' = remote_cmd,
         remote_blink_on' = remote_blink_on,
         beep' => Has(plan', SetBeep(FALSE)),
         ~led_status' => Has(plan', Check),
         \A t : /\ Followed(plan, Commits, Commit(t))
                /\ frame = t \/ ~led_status \/ Has(plan, Commit(t))
                => frame' = t \/ ~led_status' \/ Has(plan', Commit(t)),
         \A c : /\ Followed(plan, Settings, Settled(c))
                /\ \/ collecting = c /\ s_system_state = Settled(c).state
                   \/ Has(plan, Settled(c))
                => \/ collecting' = c /\ s_system_state' = Settled(c).state
                   \/ Has(plan', Settled(c))
  PROVE  PlanInv'
<1>1. PICK c \in BOOLEAN :
        /\ Followed(plan, Commits, Commit(Target(c)))
        /\ frame = Target(c) \/ ~led_status \/ Has(plan, Commit(Target(c)))
        /\ Followed(plan, Settings, Settled(c))
        /\ \/ collecting = c /\ s_system_state = Settled(c).state
           \/ Has(plan, Settled(c))
  BY Zenon DEF PlanInv
<1>2. Target(c)' = Target(c)
  BY DEF Target
<1> DEFINE t == Target(c)
<1> HIDE DEF t
<1>3. /\ Followed(plan', Commits, Commit(t))
      /\ frame' = t \/ ~led_status' \/ Has(plan', Commit(t))
  BY <1>1, TailKeeps, Zenon DEF t
<1>4. /\ Followed(plan', Settings, Settled(c))
      /\ \/ collecting' = c /\ s_system_state' = Settled(c).state
         \/ Has(plan', Settled(c))
  BY <1>1, TailKeeps, Zenon
<1>5. Tidy(plan')
  BY TailKeeps
<1>6. remote_active' =>
        \A i \in 1 .. Len(plan') :
          plan'[i] \in Commits => plan'[i].frame \in Phases(remote_cmd')
  BY TailKeeps, Zenon
<1>7. t = Target(c)'
  BY <1>2 DEF t
<1> QED
  BY <1>3, <1>4, <1>5, <1>6, <1>7, Zenon DEF PlanInv

LEMMA OperateKeeps ==
  ASSUME TypeOK, PlanInv, pc \notin {"boot", "fault"}, Operate
  PROVE  ServiceInv'
<1> DEFINE step == Head(plan)
<1>1. /\ plan # <<>> /\ step \in Ops
      /\ \A b : Has(plan, b) /\ step # b => Has(Tail(plan), b)
      /\ \A A, b : Followed(plan, A, b) /\ step \in A => Has(plan, b)
  BY TailKeeps, Zenon DEF Operate
<1>2. /\ Followed(plan, Commits, Check)
      /\ Followed(plan, {SetBeep(TRUE)}, SetBeep(FALSE))
      /\ beep => Has(plan, SetBeep(FALSE))
      /\ ~led_status => Has(plan, Check)
  BY Zenon DEF PlanInv, Tidy
<1> HIDE DEF step
<1>3. ASSUME PlanInv', pc' = pc PROVE ServiceInv'
  BY <1>3 DEF ServiceInv
<1>3a. /\ step.op = "commit" => /\ step # Check /\ step # SetBeep(FALSE)
                                /\ \A c : step # Settled(c)
       /\ step.op = "check" => /\ step # SetBeep(FALSE)
                               /\ \A c : step # Settled(c)
                               /\ \A t : step # Commit(t)
       /\ step.op = "beep" => /\ step # Check
                              /\ \A c : step # Settled(c)
                              /\ \A t : step # Commit(t)
       /\ step.op = "state" => /\ step # Check /\ step # SetBeep(FALSE)
                               /\ \A t : step # Commit(t)
       /\ step.op = "ready" => /\ step # Check /\ step # SetBeep(FALSE)
                               /\ \A c : step # Settled(c)
                               /\ \A t : step # Commit(t)
  <2>1. /\ step.op = "commit" => step.op # "check" /\ step.op # "beep" /\ step.op # "state"
        /\ step.op = "check" => step.op # "commit" /\ step.op # "beep" /\ step.op # "state"
        /\ step.op = "beep" => step.op # "commit" /\ step.op # "check" /\ step.op # "state"
        /\ step.op = "state" => step.op # "commit" /\ step.op # "check" /\ step.op # "beep"
        /\ step.op = "ready" => /\ step.op # "commit" /\ step.op # "check"
                                /\ step.op # "beep" /\ step.op # "state"
    OBVIOUS
  <2> QED
    BY <2>1, OpsDiffer, Zenon
<1>4. CASE /\ step.op = "commit"
           /\ \/ frame' = step.frame /\ led_status' = TRUE
              \/ PartlyShown(step.frame) /\ led_status' = FALSE
           /\ plan' = Tail(plan)
           /\ UNCHANGED <<local, s_led_ready, s_system_state, pc, beep>>
  <2>1. step \in Commits /\ step = Commit(step.frame) /\ step.frame \in Frames
    BY <1>1, <1>4, OpKinds
  <2>2. step # Check /\ step # SetBeep(FALSE) /\ \A c : step # Settled(c)
    BY <1>4, <1>3a
  <2>3. beep' => Has(plan', SetBeep(FALSE))
    BY <1>1, <1>2, <1>4, <2>2, Zenon
  <2>4. ~led_status' => Has(plan', Check)
    BY <1>1, <1>2, <1>4, <2>1, <2>2, Zenon
  <2>5. ASSUME NEW t, Followed(plan, Commits, Commit(t))
        PROVE  frame' = t \/ ~led_status' \/ Has(plan', Commit(t))
    <3>1. Has(plan, Commit(t))
      BY <1>1, <2>1, <2>5, Zenon
    <3>2. CASE step = Commit(t)
      BY <3>2, <1>4, OpFields, Zenon
    <3>3. CASE step # Commit(t)
      BY <3>1, <3>3, <1>1, <1>4, Zenon
    <3> QED
      BY <3>2, <3>3
  <2>6. /\ remote_active' = remote_active /\ remote_cmd' = remote_cmd
        /\ remote_blink_on' = remote_blink_on
        /\ collecting' = collecting /\ pc' = pc /\ s_system_state' = s_system_state
    BY <1>4 DEF local
  <2>7. \A c : Has(plan, Settled(c)) => Has(plan', Settled(c))
    BY <1>1, <1>4, <2>2, Zenon
  <2>8. PlanInv'
    BY <1>1, <1>4, <2>3, <2>4, <2>5, <2>6, <2>7, OperationKeeps, Zenon
  <2> QED
    BY <1>3, <2>6, <2>8
<1>5. CASE /\ step.op = "check" /\ led_status
           /\ plan' = Tail(plan)
           /\ UNCHANGED <<local, s_led_ready, s_system_state, led_status, pc,
                          frame, beep>>
  <2>1. /\ step # SetBeep(FALSE) /\ \A c : step # Settled(c)
        /\ \A t : step # Commit(t)
    BY <1>5, <1>3a
  <2>2. /\ remote_active' = remote_active /\ remote_cmd' = remote_cmd
        /\ remote_blink_on' = remote_blink_on
        /\ collecting' = collecting /\ pc' = pc /\ s_system_state' = s_system_state
        /\ led_status' = led_status /\ frame' = frame /\ beep' = beep
    BY <1>5 DEF local
  <2>2a. (beep' <=> beep) /\ (led_status' <=> led_status)
    BY <2>2
  <2>3. beep' => Has(plan', SetBeep(FALSE))
    BY <1>1, <1>2, <1>5, <2>1, <2>2a, Zenon
  <2>4. \A c : Has(plan, Settled(c)) => Has(plan', Settled(c))
    BY <1>1, <1>5, <2>1, Zenon
  <2>5. \A t : Has(plan, Commit(t)) => Has(plan', Commit(t))
    BY <1>1, <1>5, <2>1, Zenon
  <2>6. PlanInv'
    BY <1>1, <1>5, <2>2, <2>2a, <2>3, <2>4, <2>5, OperationKeeps, Zenon
  <2> QED
    BY <1>3, <2>2, <2>6
<1>6. CASE step.op = "check" /\ ~led_status /\ Fault
  BY <1>6 DEF Fault, ServiceInv
<1>7. CASE /\ step.op = "beep"
           /\ beep' = step.on
           /\ plan' = Tail(plan)
           /\ UNCHANGED <<local, s_led_ready, s_system_state, led_status, pc,
                          frame>>
  <2>1. /\ step # Check /\ \A c : step # Settled(c)
        /\ \A t : step # Commit(t)
    BY <1>7, <1>3a
  <2>2. /\ remote_active' = remote_active /\ remote_cmd' = remote_cmd
        /\ remote_blink_on' = remote_blink_on
        /\ collecting' = collecting /\ pc' = pc /\ s_system_state' = s_system_state
        /\ led_status' = led_status /\ frame' = frame
    BY <1>7 DEF local
  <2>2a. (led_status' <=> led_status)
    BY <2>2
  <2>3. beep' => Has(plan', SetBeep(FALSE))
    <3>1. CASE step.on
      <4>1. step = SetBeep(TRUE)
        <5>1. step = SetBeep(step.on) /\ step.on = TRUE
          BY <1>1, <1>7, <3>1, OpKinds
        <5> QED
          BY <5>1, Zenon
      <4>2. SetBeep(TRUE) # SetBeep(FALSE)
        BY DEF SetBeep
      <4>3. Has(plan, SetBeep(FALSE))
        BY <1>1, <1>2, <4>1, Zenon
      <4> QED
        BY <1>1, <1>7, <4>1, <4>2, <4>3, Zenon
    <3>2. CASE ~step.on
      BY <1>7, <3>2, Zenon
    <3> QED
      BY <3>1, <3>2
  <2>4. ~led_status' => Has(plan', Check)
    BY <1>1, <1>2, <1>7, <2>1, <2>2a, Zenon
  <2>5. \A c : Has(plan, Settled(c)) => Has(plan', Settled(c))
    BY <1>1, <1>7, <2>1, Zenon
  <2>6. \A t : Has(plan, Commit(t)) => Has(plan', Commit(t))
    BY <1>1, <1>7, <2>1, Zenon
  <2>7. PlanInv'
    BY <1>1, <1>7, <2>2, <2>2a, <2>3, <2>4, <2>5, <2>6, OperationKeeps, Zenon
  <2> QED
    BY <1>3, <2>2, <2>7
<1>8. CASE /\ step.op = "state"
           /\ s_system_state' = step.state
           /\ collecting' = step.collecting
           /\ plan' = Tail(plan)
           /\ UNCHANGED <<remote_active, remote_cmd, remote_blink_on,
                          s_led_ready, led_status, pc, frame, beep>>
  <2>1. /\ step # Check /\ step # SetBeep(FALSE) /\ \A t : step # Commit(t)
    BY <1>8, <1>3a
  <2>2. step \in Settings
    BY <1>1, <1>8, OpKinds
  <2>3. beep' => Has(plan', SetBeep(FALSE))
    BY <1>1, <1>2, <1>8, <2>1, Zenon
  <2>4. ~led_status' => Has(plan', Check)
    BY <1>1, <1>2, <1>8, <2>1, Zenon
  <2>5. \A t : Has(plan, Commit(t)) => Has(plan', Commit(t))
    BY <1>1, <1>8, <2>1, Zenon
  <2>6. ASSUME NEW c, Followed(plan, Settings, Settled(c))
        PROVE  \/ collecting' = c /\ s_system_state' = Settled(c).state
               \/ Has(plan', Settled(c))
    <3>1. Has(plan, Settled(c))
      BY <1>1, <2>2, <2>6, Zenon
    <3>2. CASE step = Settled(c)
      <4>1. step.collecting = c /\ step.state = Settled(c).state
        BY <3>2, SettledFields, Zenon
      <4> QED
        BY <4>1, <1>8, Zenon
    <3>3. CASE step # Settled(c)
      BY <3>1, <3>3, <1>1, <1>8, Zenon
    <3> QED
      BY <3>2, <3>3
  <2>7. PlanInv'
    BY <1>1, <1>8, <2>3, <2>4, <2>5, <2>6, OperationKeeps, Zenon
  <2> QED
    BY <1>3, <1>8, <2>7
<1>9. CASE /\ step.op = "ready"
           /\ s_led_ready' = TRUE
           /\ plan' = Tail(plan)
           /\ UNCHANGED <<local, s_system_state, led_status, pc, frame, beep>>
  <2>1. /\ step # SetBeep(FALSE) /\ step # Check /\ \A c : step # Settled(c)
        /\ \A t : step # Commit(t)
    BY <1>9, <1>3a
  <2>2. /\ remote_active' = remote_active /\ remote_cmd' = remote_cmd
        /\ remote_blink_on' = remote_blink_on
        /\ collecting' = collecting /\ pc' = pc /\ s_system_state' = s_system_state
        /\ led_status' = led_status /\ frame' = frame /\ beep' = beep
    BY <1>9 DEF local
  <2>2a. (beep' <=> beep) /\ (led_status' <=> led_status)
    BY <2>2
  <2>3. beep' => Has(plan', SetBeep(FALSE))
    BY <1>1, <1>2, <1>9, <2>1, <2>2a, Zenon
  <2>4. ~led_status' => Has(plan', Check)
    BY <1>1, <1>2, <1>9, <2>1, <2>2a, Zenon
  <2>5. \A c : Has(plan, Settled(c)) => Has(plan', Settled(c))
    BY <1>1, <1>9, <2>1, Zenon
  <2>6. \A t : Has(plan, Commit(t)) => Has(plan', Commit(t))
    BY <1>1, <1>9, <2>1, Zenon
  <2>7. PlanInv'
    BY <1>1, <1>9, <2>2, <2>2a, <2>3, <2>4, <2>5, <2>6, OperationKeeps, Zenon
  <2> QED
    BY <1>3, <2>2, <2>7
<1> QED
  BY <1>4, <1>5, <1>6, <1>7, <1>8, <1>9 DEF Operate, step

(* With nothing left to do everything asked for has been done.             *)
LEMMA NothingDue ==
  ASSUME PlanInv, plan = <<>>
  PROVE  /\ ~beep /\ led_status
         /\ \E c \in BOOLEAN : /\ frame = Target(c)
                               /\ collecting = c
                               /\ s_system_state = Settled(c).state
<1>1. \A b : ~Has(plan, b)
  BY NothingLeft
<1>2. ~beep /\ led_status
  BY <1>1, Zenon DEF PlanInv
<1>3. PICK c \in BOOLEAN :
        /\ frame = Target(c) \/ ~led_status \/ Has(plan, Commit(Target(c)))
        /\ \/ collecting = c /\ s_system_state = Settled(c).state
           \/ Has(plan, Settled(c))
  BY Zenon DEF PlanInv
<1>4. /\ frame = Target(c) /\ collecting = c
      /\ s_system_state = Settled(c).state
  BY <1>1, <1>2, <1>3, Zenon
<1> QED
  BY <1>2, <1>4, Zenon

LEMMA AtRestHere ==
  ASSUME TypeOK, PlanInv, plan = <<>>
  PROVE  /\ ~beep /\ led_status
         /\ frame = Target(collecting)
         /\ s_system_state = Settled(collecting).state
BY NothingDue, Zenon

(* A new plan that ends in what is asked for then.                         *)
LEMMA NewPlan ==
  ASSUME NEW t, NEW c \in BOOLEAN,
         Tidy(plan'), ~beep', led_status', Target(c)' = t,
         Followed(plan', Commits, Commit(t)),
         frame' = t \/ Has(plan', Commit(t)),
         Followed(plan', Settings, Settled(c)),
         \/ collecting' = c /\ s_system_state' = Settled(c).state
         \/ Has(plan', Settled(c)),
         remote_active' =>
           \/ Free(plan', Commits)
           \/ t \in Phases(remote_cmd') /\ Free(plan', Commits \ {Commit(t)})
  PROVE  PlanInv'
<1>1. remote_active' =>
        \A i \in 1 .. Len(plan') :
          plan'[i] \in Commits => plan'[i].frame \in Phases(remote_cmd')
  <2> SUFFICES ASSUME remote_active', NEW i \in 1 .. Len(plan'),
                      plan'[i] \in Commits
               PROVE  plan'[i].frame \in Phases(remote_cmd')
    OBVIOUS
  <2>1. /\ t \in Phases(remote_cmd')
        /\ plan'[i] \notin Commits \ {Commit(t)}
    BY Zenon DEF Free
  <2>2. plan'[i] = Commit(t)
    BY <2>1
  <2>3. plan'[i].frame = t
    BY <2>2, OpFields, Zenon
  <2> QED
    BY <2>1, <2>3
<1>2. \E d \in BOOLEAN :
        /\ Followed(plan', Commits, Commit(Target(d)'))
        /\ frame' = Target(d)' \/ ~led_status' \/ Has(plan', Commit(Target(d)'))
        /\ Followed(plan', Settings, Settled(d))
        /\ \/ collecting' = d /\ s_system_state' = Settled(d).state
           \/ Has(plan', Settled(d))
  BY Zenon
<1> QED
  BY <1>1, <1>2, Zenon DEF PlanInv

LEMMA InitHardwareKeeps ==
  ASSUME TypeOK, ServiceInv, pc = "boot", InitHardware
  PROVE  ServiceInv'
<1>1. plan = <<>> /\ ~remote_active /\ ~beep /\ led_status
  BY DEF ServiceInv
<1>2. CASE Fault
  BY <1>2 DEF Fault, ServiceInv
<1>3. CASE /\ plan' = SelfTestPlan
           /\ pc' = "mailbox"
           /\ UNCHANGED <<local, s_led_ready, s_system_state, led_status,
                          frame, beep>>
  <2>1. /\ plan' = SelfTestPlan /\ remote_active' = remote_active
        /\ (led_status' <=> led_status) /\ (beep' <=> beep)
    BY <1>3 DEF local
  <2>2. Target(FALSE)' = LocalFrame(FALSE) /\ ~remote_active'
    BY <1>1, <2>1 DEF Target
  <2>3. FALSE \in BOOLEAN
    OBVIOUS
  <2>4. PlanInv'
    BY <1>1, <2>1, <2>2, <2>3, SelfTestPlans, NewPlan, Zenon
  <2> QED
    BY <1>3, <2>4 DEF ServiceInv
<1> QED
  BY <1>2, <1>3 DEF InitHardware

LEMMA ReceiveCmdKeeps ==
  ASSUME TypeOK, MailboxInv, PlanInv, ReceiveCmd
  PROVE  ServiceInv'
<1>1. /\ plan = <<>> /\ pc' = "actions"
      /\ s_system_state' = s_system_state /\ frame' = frame
      /\ (led_status' <=> led_status) /\ (beep' <=> beep)
  BY DEF ReceiveCmd
<1>2. /\ ~beep /\ led_status /\ frame = Target(collecting)
      /\ s_system_state = Settled(collecting).state
  BY <1>1, AtRestHere
<1>3. CASE UNCHANGED <<local, plan, s_led_cmd_queue>>
  <2>1. /\ UNCHANGED <<plan, remote_active, remote_cmd, remote_blink_on,
                       collecting, frame, s_system_state, led_status, beep>>
    BY <1>3 DEF local, ReceiveCmd
  <2>2. PlanInv'
    BY <2>1 DEF PlanInv, Target
  <2> QED
    BY <1>1, <2>2 DEF ServiceInv
<1>4. CASE s_led_cmd_queue # <<>>
  <2>1. PICK cmd \in Cmd \union {Release} : s_led_cmd_queue = <<cmd>>
    BY <1>4 DEF MailboxInv
  <2>2. /\ remote_active' = cmd.enabled
        /\ remote_cmd' = IF cmd.enabled THEN cmd ELSE remote_cmd
        /\ remote_blink_on' = IF cmd.enabled THEN TRUE ELSE remote_blink_on
        /\ plan' = CommandPlan(cmd, collecting)
        /\ collecting' = collecting
    <3> DEFINE h == Head(s_led_cmd_queue)
    <3>1. h = cmd
      BY <2>1
    <3>2. /\ remote_active' = h.enabled
          /\ remote_cmd' = IF h.enabled THEN h ELSE remote_cmd
          /\ remote_blink_on' = IF h.enabled THEN TRUE ELSE remote_blink_on
          /\ plan' = CommandPlan(h, collecting)
          /\ collecting' = collecting
      BY <1>4, Zenon DEF ReceiveCmd
    <3> HIDE DEF h
    <3> QED
      BY <3>1, <3>2, Zenon
  <2> DEFINE t == IF cmd.enabled THEN RemoteFrame(cmd, TRUE) ELSE LocalFrame(collecting)
  <2>3. collecting \in BOOLEAN
    BY DEF TypeOK
  <2>4. Target(collecting)' = t
    BY <2>2, Zenon DEF Target
  <2>5. remote_active' => t \in Phases(remote_cmd')
    BY <2>2, Zenon DEF Phases
  <2>6. PICK c \in BOOLEAN : c = collecting
    BY <2>3
  <2>7. Target(c)' = t
    BY <2>2, <2>4, <2>6, Zenon DEF Target
  <2>8. t = IF cmd.enabled THEN RemoteFrame(cmd, TRUE) ELSE LocalFrame(c)
    BY <2>6
  <2> HIDE DEF t
  <2>9. /\ Tidy(plan') /\ Free(plan', Settings) /\ Has(plan', Commit(t))
        /\ Free(plan', Commits \ {Commit(t)}) /\ Followed(plan', Commits, Commit(t))
    BY <2>2, <2>6, <2>8, CommandPlans, Zenon
  <2>10. collecting' = c /\ s_system_state' = Settled(c).state
    BY <1>1, <1>2, <2>2, <2>6, Zenon
  <2>11. Followed(plan', Settings, Settled(c))
    BY <2>9, FreeFollowed
  <2>12. PlanInv'
    BY <1>1, <1>2, <2>5, <2>7, <2>9, <2>10, <2>11, NewPlan, Zenon
  <2> QED
    BY <1>1, <2>12 DEF ServiceInv
<1> QED
  BY <1>3, <1>4 DEF ReceiveCmd

LEMMA TakeActionsKeeps ==
  ASSUME TypeOK, PlanInv, TakeActions
  PROVE  ServiceInv'
<1>1. /\ plan = <<>> /\ pc' = "blink"
      /\ plan' = ActionsPlan(notified, collecting, remote_active)
      /\ s_system_state' = s_system_state /\ frame' = frame
      /\ (led_status' <=> led_status) /\ (beep' <=> beep)
      /\ (remote_active' <=> remote_active) /\ remote_cmd' = remote_cmd
      /\ remote_blink_on' = remote_blink_on /\ collecting' = collecting
  BY DEF TakeActions, local
<1>2. /\ ~beep /\ led_status /\ frame = Target(collecting)
      /\ s_system_state = Settled(collecting).state
  BY <1>1, AtRestHere
<1>3. PICK c \in BOOLEAN, r \in BOOLEAN : c = collecting /\ r = remote_active
  BY DEF TypeOK
<1>4. /\ Tidy(plan') /\ (r => Free(plan', Commits))
      /\ \E after \in BOOLEAN :
           /\ Followed(plan', Settings, Settled(after))
           /\ after # c => Has(plan', Settled(after))
           /\ ~r => /\ Followed(plan', Commits, Commit(LocalFrame(after)))
                    /\ after # c => Has(plan', Commit(LocalFrame(after)))
  BY <1>1, <1>3, ActionsPlans, Zenon
<1>5. PICK after \in BOOLEAN :
        /\ Followed(plan', Settings, Settled(after))
        /\ after # c => Has(plan', Settled(after))
        /\ ~r => /\ Followed(plan', Commits, Commit(LocalFrame(after)))
                 /\ after # c => Has(plan', Commit(LocalFrame(after)))
  BY <1>4, Zenon
<1> DEFINE t == IF r THEN RemoteFrame(remote_cmd, remote_blink_on)
                     ELSE LocalFrame(after)
<1>6. Target(after)' = t
  BY <1>1, <1>3, Zenon DEF Target
<1>7. frame = IF r THEN RemoteFrame(remote_cmd, remote_blink_on) ELSE LocalFrame(c)
  BY <1>2, <1>3, Zenon DEF Target
<1>8. Followed(plan', Commits, Commit(t)) /\ (frame' = t \/ Has(plan', Commit(t)))
  <2>1. CASE r
    <3>1. t = frame
      BY <2>1, <1>7, Zenon
    <3> QED
      BY <1>1, <1>4, <2>1, <3>1, FreeFollowed, Zenon
  <2>2. CASE ~r
    <3>1. t = LocalFrame(after) /\ frame = LocalFrame(c)
      BY <2>2, <1>7, Zenon
    <3> HIDE DEF t
    <3> QED
      BY <1>1, <1>5, <2>2, <3>1, Zenon
  <2> QED
    BY <2>1, <2>2
<1>9. \/ collecting' = after /\ s_system_state' = Settled(after).state
      \/ Has(plan', Settled(after))
  BY <1>1, <1>2, <1>3, <1>5, Zenon
<1>10. remote_active' => Free(plan', Commits)
  BY <1>1, <1>3, <1>4, Zenon
<1> HIDE DEF t
<1>11. PlanInv'
  BY <1>1, <1>2, <1>4, <1>5, <1>6, <1>8, <1>9, <1>10, NewPlan, Zenon
<1> QED
  BY <1>1, <1>11 DEF ServiceInv

LEMMA BlinkKeeps ==
  ASSUME TypeOK, PlanInv, Blink
  PROVE  ServiceInv'
<1>1. /\ plan = <<>> /\ pc' = "mailbox"
      /\ s_system_state' = s_system_state /\ frame' = frame
      /\ (led_status' <=> led_status) /\ (beep' <=> beep)
      /\ (remote_active' <=> remote_active) /\ remote_cmd' = remote_cmd
      /\ collecting' = collecting
  BY DEF Blink
<1>2. /\ ~beep /\ led_status /\ frame = Target(collecting)
      /\ s_system_state = Settled(collecting).state
  BY <1>1, AtRestHere
<1>3. CASE UNCHANGED <<remote_blink_on, plan>>
  <2>1. UNCHANGED <<plan, remote_active, remote_cmd, remote_blink_on,
                    collecting, frame, s_system_state, led_status, beep>>
    BY <1>3 DEF Blink
  <2>2. PlanInv'
    BY <2>1 DEF PlanInv, Target
  <2> QED
    BY <1>1, <2>2 DEF ServiceInv
<1>4. CASE /\ remote_active /\ cmd_has_blink(remote_cmd)
           /\ remote_blink_on' = ~remote_blink_on
           /\ plan' = Shown(RemoteFrame(remote_cmd, ~remote_blink_on))
  <2> DEFINE t == RemoteFrame(remote_cmd, ~remote_blink_on)
  <2>1. PICK c \in BOOLEAN : c = collecting
    BY DEF TypeOK
  <2>2. Target(c)' = t
    BY <1>1, <1>4, Zenon DEF Target
  <2>3. t \in Frames
    BY FramesShown
  <2>4. t \in Phases(remote_cmd')
    <3>1. (~remote_blink_on) \in BOOLEAN
      OBVIOUS
    <3> QED
      BY <3>1, <1>1, Zenon DEF Phases
  <2>5. plan' = Shown(t)
    BY <1>4, Zenon
  <2> HIDE DEF t
  <2>6. /\ Tidy(plan') /\ Followed(plan', Commits, Commit(t)) /\ Has(plan', Commit(t))
        /\ Free(plan', Settings)
    BY <2>3, <2>5, ShownPlan, Zenon
  <2>7. Free(plan', Commits \ {Commit(t)})
    <3>1. Commit(t) \in Ops /\ Check \in Ops /\ Check \notin Commits
      BY <2>3, Members
    <3>2. plan' = <<Commit(t), Check>>
      BY <2>5 DEF Shown
    <3>3. Commit(t) \notin Commits \ {Commit(t)} /\ Check \notin Commits \ {Commit(t)}
      BY <3>1
    <3> QED
      BY <3>1, <3>2, <3>3, Two
  <2>8. Followed(plan', Settings, Settled(c))
    BY <2>6, FreeFollowed
  <2>9. collecting' = c /\ s_system_state' = Settled(c).state
    BY <1>1, <1>2, <2>1, Zenon
  <2>10. PlanInv'
    BY <1>1, <1>2, <2>2, <2>4, <2>6, <2>7, <2>8, <2>9, NewPlan, Zenon
  <2> QED
    BY <1>1, <2>10 DEF ServiceInv
<1> QED
  BY <1>3, <1>4 DEF Blink

-----------------------------------------------------------------------------
(* The invariant: types, the mailbox and the plan.                         *)

(* An operation leaves the pc or stops the task, and the callers touch     *)
(* nothing of the task.                                                    *)
LEMMA ServiceInvNext ==
  ASSUME Inv, [Next]_vars PROVE ServiceInv'
<1>1. TypeOK /\ MailboxInv /\ ServiceInv
  BY DEF Inv
<1>2. CASE InitHardware
  BY <1>1, <1>2, InitHardwareKeeps DEF InitHardware
<1>3. CASE Operate
  <2>1. plan # <<>>
    BY <1>3 DEF Operate
  <2>2. pc \notin {"boot", "fault"} /\ PlanInv
    BY <1>1, <2>1 DEF ServiceInv
  <2> QED
    BY <1>1, <1>3, <2>2, OperateKeeps
<1>4. CASE ReceiveCmd
  <2>1. PlanInv
    BY <1>1, <1>4 DEF ServiceInv, ReceiveCmd
  <2> QED
    BY <1>1, <1>4, <2>1, ReceiveCmdKeeps
<1>5. CASE TakeActions
  <2>1. PlanInv
    BY <1>1, <1>5 DEF ServiceInv, TakeActions
  <2> QED
    BY <1>1, <1>5, <2>1, TakeActionsKeeps
<1>6. CASE Blink
  <2>1. PlanInv
    BY <1>1, <1>6 DEF ServiceInv, Blink
  <2> QED
    BY <1>1, <1>6, <2>1, BlinkKeeps
<1>7. CASE UNCHANGED task
  <2>1. UNCHANGED <<plan, remote_active, remote_cmd, remote_blink_on, collecting,
                    frame, s_system_state, led_status, beep, pc>>
    BY <1>7 DEF task, local
  <2> QED
    BY <2>1, <1>1 DEF ServiceInv, PlanInv, Target
<1>8. CASE Submit \/ ReleaseControl \/ Notify \/ UNCHANGED vars
  <2>1. UNCHANGED task
    BY <1>8 DEF Submit, ReleaseControl, Notify, led_task_submit_cmd,
                led_task_release_remote_control, led_task_notify_action,
                vars, ledVars
  <2> QED
    BY <1>7, <2>1
<1> QED
  BY <1>2, <1>3, <1>4, <1>5, <1>6, <1>8 DEF Next, Task, TaskStep

LEMMA CommandLegal ==
  ASSUME NEW input \in CmdInputs, input.beep_mode \in BeepModes,
         \A l \in Leds : input.led_mode[l] \in Modes
  PROVE  [enabled |-> TRUE, led_mode |-> input.led_mode,
          beep_mode |-> input.beep_mode] \in Cmd
<1>1. input.led_mode \in [Leds -> Nat]
  BY LedAssumption
<1>2. input.led_mode \in [Leds -> Modes]
  BY <1>1
<1> QED
  BY <1>2 DEF Cmd

(* A command is accepted and remembered in one step, and leaves the        *)
(* mailbox only to take effect.                                            *)
LEMMA MailboxInvNext ==
  ASSUME Inv, [Next]_vars PROVE MailboxInv'
<1>1. TypeOK /\ MailboxInv /\ ServiceInv
  BY DEF Inv
<1>2. CASE UNCHANGED <<s_led_cmd_queue, last>>
           /\ (pc' = "fault" \/ (UNCHANGED <<remote_active, remote_cmd>>
                                 /\ (pc = "fault" => pc' = "fault")))
  BY <1>1, <1>2 DEF MailboxInv, LatestCommandWins
<1>3. CASE Task
  <2>1. last' = last
    BY <1>3 DEF Task
  <2>2. CASE InitHardware
    BY <2>1, <2>2, <1>2 DEF InitHardware, Fault, local
  <2>3. CASE Operate
    <3>1. s_led_cmd_queue' = s_led_cmd_queue /\ plan # <<>>
      BY <2>3 DEF Operate
    <3>2. pc # "fault"
      BY <3>1, <1>1 DEF ServiceInv
    <3>3. pc' = "fault" \/ UNCHANGED <<remote_active, remote_cmd>>
      BY <2>3 DEF Operate, Fault, local
    <3> QED
      BY <1>2, <2>1, <3>1, <3>2, <3>3
  <2>4. CASE ReceiveCmd
    <3>1. CASE s_led_cmd_queue = <<>>
      <4>1. UNCHANGED <<s_led_cmd_queue, remote_active, remote_cmd>>
            /\ pc # "fault"
        BY <2>4, <3>1 DEF ReceiveCmd, local
      <4> QED
        BY <1>2, <2>1, <4>1
    <3>2. CASE s_led_cmd_queue # <<>>
      <4>1. s_led_cmd_queue = <<last>> /\ last \in Cmd \union {Release}
        BY <1>1, <2>4, <3>2 DEF MailboxInv, LatestCommandWins, ReceiveCmd
      <4> DEFINE h == Head(s_led_cmd_queue)
      <4>2. h = last
        BY <4>1
      <4>3. /\ remote_active' = h.enabled
            /\ remote_cmd' = IF h.enabled THEN h ELSE remote_cmd
            /\ s_led_cmd_queue' = <<>>
        BY <2>4, <3>2, Zenon DEF ReceiveCmd
      <4> HIDE DEF h
      <4>4. /\ remote_active' = last'.enabled
            /\ last'.enabled => remote_cmd' = last'
        BY <4>2, <4>3, <2>1, Zenon
      <4> QED
        BY <4>1, <4>3, <4>4, <2>1, Zenon DEF MailboxInv, LatestCommandWins
    <3> QED
      BY <3>1, <3>2
  <2>5. CASE TakeActions
    BY <2>1, <2>5, <1>2 DEF TakeActions, local
  <2>6. CASE Blink
    BY <2>1, <2>6, <1>2 DEF Blink
  <2> QED
    BY <1>3, <2>2, <2>3, <2>4, <2>5, <2>6 DEF Task, TaskStep
<1>4. CASE Submit
  <2>1. PICK input \in CmdInputs :
          /\ led_task_submit_cmd(input)
          /\ last' = IF /\ input.beep_mode \in BeepModes
                        /\ \A l \in Leds : input.led_mode[l] \in Modes
                     THEN [enabled |-> TRUE, led_mode |-> input.led_mode,
                           beep_mode |-> input.beep_mode]
                     ELSE last
    BY <1>4 DEF Submit
  <2>2. UNCHANGED <<remote_active, remote_cmd, pc>>
    BY <2>1 DEF led_task_submit_cmd, task, local
  <2>3. CASE /\ input.beep_mode \in BeepModes
             /\ \A l \in Leds : input.led_mode[l] \in Modes
    <3>1. last' \in Cmd /\ s_led_cmd_queue' = <<last'>>
      BY <2>1, <2>3, CommandLegal DEF led_task_submit_cmd
    <3> QED
      BY <3>1 DEF MailboxInv, LatestCommandWins
  <2>4. CASE ~ (/\ input.beep_mode \in BeepModes
                /\ \A l \in Leds : input.led_mode[l] \in Modes)
    <3>1. UNCHANGED <<s_led_cmd_queue, last>>
      BY <2>1, <2>4 DEF led_task_submit_cmd
    <3> QED
      BY <1>2, <2>2, <3>1
  <2> QED
    BY <2>3, <2>4
<1>5. CASE ReleaseControl
  <2>1. last' = Release /\ s_led_cmd_queue' = <<last'>>
    BY <1>5 DEF ReleaseControl, led_task_release_remote_control
  <2> QED
    BY <2>1 DEF MailboxInv, LatestCommandWins
<1>6. CASE Notify
  BY <1>2, <1>6 DEF Notify, led_task_notify_action, task, local
<1>7. CASE UNCHANGED vars
  BY <1>2, <1>7 DEF vars, ledVars, task, local
<1> QED
  BY <1>3, <1>4, <1>5, <1>6, <1>7 DEF Next

LEMMA PartlyTyped ==
  ASSUME frame \in Frames, NEW f \in Frames, PartlyShown(f) PROVE frame' \in Frames
BY DEF PartlyShown, Frames

LEMMA FaultTyped == ASSUME TypeOK, Fault PROVE
  /\ frame' \in Frames /\ beep' \in BOOLEAN /\ s_system_state' \in SystemStates
  /\ pc' = "fault"
<1>1. Show("RED", "RED") \in Frames
  BY FramesShown DEF Colors
<1>2. frame' \in Frames
  BY <1>1, PartlyTyped DEF Fault, TypeOK, Frames
<1> QED
  BY <1>2 DEF Fault, SystemStates

(* The types of the task's own variables.                                  *)
LEMMA TaskTyped ==
  ASSUME Inv, TaskStep
  PROVE  /\ s_led_ready' \in BOOLEAN /\ s_system_state' \in SystemStates
         /\ collecting' \in BOOLEAN /\ remote_active' \in BOOLEAN
         /\ remote_cmd' \in Cmd \union {Release} /\ remote_blink_on' \in BOOLEAN
         /\ led_status' \in BOOLEAN /\ beep' \in BOOLEAN
         /\ pc' \in {"boot", "mailbox", "actions", "blink", "fault"}
         /\ frame' \in Frames /\ notified' \subseteq Actions
<1> USE DEF Inv
<1>1. CASE InitHardware
  BY <1>1, FaultTyped DEF InitHardware, TypeOK, Fault, local, Frames
<1>2. CASE Operate
  <2> DEFINE step == Head(plan)
  <2>1. plan # <<>> /\ PlanInv /\ notified' = notified
    BY <1>2 DEF Operate, ServiceInv
  <2>2. step \in Ops
    BY <2>1, TailKeeps
  <2> HIDE DEF step
  <2>3. CASE /\ step.op = "commit"
             /\ \/ frame' = step.frame /\ led_status' = TRUE
                \/ PartlyShown(step.frame) /\ led_status' = FALSE
             /\ plan' = Tail(plan)
             /\ UNCHANGED <<local, s_led_ready, s_system_state, pc, beep>>
    <3>1. step.frame \in Frames
      BY <2>2, <2>3, OpKinds
    <3>2. frame' \in Frames /\ led_status' \in BOOLEAN
      BY <2>3, <3>1, PartlyTyped DEF TypeOK, Frames
    <3> QED
      BY <2>1, <2>3, <3>2 DEF TypeOK, local
  <2>4. CASE /\ step.op = "check" /\ led_status
             /\ plan' = Tail(plan)
             /\ UNCHANGED <<local, s_led_ready, s_system_state, led_status, pc,
                            frame, beep>>
    BY <2>1, <2>4 DEF TypeOK, local, Frames
  <2>5. CASE step.op = "check" /\ ~led_status /\ Fault
    BY <2>1, <2>5, FaultTyped DEF TypeOK, Fault, local
  <2>6. CASE /\ step.op = "beep"
             /\ beep' = step.on
             /\ plan' = Tail(plan)
             /\ UNCHANGED <<local, s_led_ready, s_system_state, led_status, pc,
                            frame>>
    <3>1. step.on \in BOOLEAN
      BY <2>2, <2>6, OpKinds
    <3> QED
      BY <2>1, <2>6, <3>1 DEF TypeOK, local, Frames
  <2>7. CASE /\ step.op = "state"
             /\ s_system_state' = step.state
             /\ collecting' = step.collecting
             /\ plan' = Tail(plan)
             /\ UNCHANGED <<remote_active, remote_cmd, remote_blink_on,
                            s_led_ready, led_status, pc, frame, beep>>
    <3>1. step.state \in SystemStates /\ step.collecting \in BOOLEAN
      BY <2>2, <2>7, OpKinds
    <3> QED
      BY <2>1, <2>7, <3>1 DEF TypeOK, Frames
  <2>8. CASE /\ step.op = "ready"
             /\ s_led_ready' = TRUE
             /\ plan' = Tail(plan)
             /\ UNCHANGED <<local, s_system_state, led_status, pc, frame, beep>>
    BY <2>1, <2>8 DEF TypeOK, local, Frames
  <2> QED
    BY <1>2, <2>3, <2>4, <2>5, <2>6, <2>7, <2>8 DEF Operate, step
<1>3. CASE ReceiveCmd
  <2>1. CASE s_led_cmd_queue = <<>>
    BY <1>3, <2>1 DEF ReceiveCmd, TypeOK, local, Frames
  <2>2. CASE s_led_cmd_queue # <<>>
    <3> DEFINE h == Head(s_led_cmd_queue)
    <3>1. h \in Cmd \union {Release}
      <4>1. PICK cmd \in Cmd \union {Release} : s_led_cmd_queue = <<cmd>>
        BY <2>2 DEF MailboxInv
      <4> QED
        BY <4>1
    <3> HIDE DEF h
    <3>2. h.enabled \in BOOLEAN
      <4>1. CASE h \in Cmd
        <5>1. h.enabled \in {TRUE}
          BY <4>1 DEF Cmd
        <5> QED
          BY <5>1
      <4>2. CASE h = Release
        <5>1. h.enabled = FALSE
          BY <4>2 DEF Release
        <5> QED
          BY <5>1
      <4> QED
        BY <3>1, <4>1, <4>2
    <3> USE DEF h
    <3>3. /\ remote_active' = h.enabled
          /\ remote_cmd' = IF h.enabled THEN h ELSE remote_cmd
          /\ remote_blink_on' = IF h.enabled THEN TRUE ELSE remote_blink_on
      BY <1>3, <2>2, Zenon DEF ReceiveCmd
    <3> HIDE DEF h
    <3>4. /\ remote_active' \in BOOLEAN
          /\ remote_cmd' \in Cmd \union {Release} /\ remote_blink_on' \in BOOLEAN
      BY <3>1, <3>2, <3>3, Zenon DEF TypeOK
    <3> QED
      BY <1>3, <2>2, <3>4 DEF ReceiveCmd, TypeOK, Frames
  <2> QED
    BY <2>1, <2>2
<1>4. CASE TakeActions
  BY <1>4 DEF TakeActions, TypeOK, local, Frames
<1>5. CASE Blink
  BY <1>5 DEF Blink, TypeOK, Frames
<1> QED
  BY <1>1, <1>2, <1>3, <1>4, <1>5 DEF TaskStep

LEMMA MailboxTyped ==
  ASSUME MailboxInv
  PROVE  \/ s_led_cmd_queue = <<>>
         \/ /\ Len(s_led_cmd_queue) = 1
            /\ s_led_cmd_queue[1] \in Cmd \union {Release}
BY DEF MailboxInv

LEMMA TypeNext ==
  ASSUME Inv, [Next]_vars, MailboxInv' PROVE TypeOK'
<1>1. (\/ s_led_cmd_queue = <<>>
       \/ /\ Len(s_led_cmd_queue) = 1
          /\ s_led_cmd_queue[1] \in Cmd \union {Release})'
  BY MailboxTyped, PTL
<1>2. CASE TaskStep
  BY <1>1, <1>2, TaskTyped DEF TypeOK, Frames
<1>3. CASE UNCHANGED task /\ notified' \subseteq Actions
  BY <1>1, <1>3 DEF TypeOK, Inv, task, local
<1>4. CASE Submit \/ ReleaseControl \/ UNCHANGED vars
  BY <1>3, <1>4 DEF Submit, ReleaseControl, led_task_submit_cmd, vars, ledVars,
                    led_task_release_remote_control, TypeOK, Inv
<1>5. CASE Notify
  BY <1>3, <1>5 DEF Notify, led_task_notify_action, TypeOK, Inv
<1> QED
  BY <1>2, <1>4, <1>5 DEF Next, Task

LEMMA InvInit == Init => Inv
<1> SUFFICES ASSUME Init PROVE Inv
  OBVIOUS
<1> USE DEF Init, LedInit
<1>1. TypeOK
  <2>1. frame \in [Leds -> Colors]
    BY FramesShown DEF Frames, Colors
  <2> QED
    BY <2>1 DEF TypeOK, SystemStates, Actions
<1>2. MailboxInv
  BY DEF MailboxInv, LatestCommandWins, Release
<1>3. ServiceInv
  BY DEF ServiceInv
<1> QED
  BY <1>1, <1>2, <1>3 DEF Inv

LEMMA InvAlways == Spec => []Inv
<1>1. Inv /\ [Next]_vars => Inv'
  BY ServiceInvNext, MailboxInvNext, TypeNext DEF Inv
<1> QED
  BY InvInit, <1>1, PTL DEF Spec

-----------------------------------------------------------------------------
(* The types of the task's state, whatever is asked of it.                 *)
THEOREM TypeCorrect == Spec => []TypeOK
<1>1. Inv => TypeOK
  BY DEF Inv
<1> QED
  BY InvAlways, <1>1, PTL

(* Between two inputs the LEDs, the reported state and the beeper agree    *)
(* with the mode the task is in: no sequence is left half done, for any    *)
(* commands, presses and commit results in any order.                      *)
THEOREM RestCorrect == Spec => []RestAgrees
<1>1. ASSUME Inv, AtRest
      PROVE  /\ frame = IF remote_active
                        THEN RemoteFrame(remote_cmd, remote_blink_on)
                        ELSE LocalFrame(collecting)
             /\ s_system_state = IF collecting THEN "COLLECTING" ELSE "IDLE"
             /\ ~beep
  <2>1. PlanInv /\ plan = <<>> /\ TypeOK
    BY <1>1 DEF Inv, AtRest, ServiceInv
  <2>2. ~beep /\ frame = Target(collecting) /\ s_system_state = Settled(collecting).state
    BY <2>1, AtRestHere
  <2>3. Settled(collecting).state = IF collecting THEN "COLLECTING" ELSE "IDLE"
    BY OpFields, Zenon DEF Settled
  <2> QED
    BY <2>2, <2>3, Zenon DEF Target
<1>2. Inv => RestAgrees
  BY <1>1, Zenon DEF RestAgrees
<1> QED
  BY InvAlways, <1>2, PTL

(* The task does not come back to its loop with the result of a failed     *)
(* commit in hand, although two results are looked at late.                *)
THEOREM FailuresSeen == Spec => []FailureNotIgnored
<1>1. ASSUME Inv, AtRest PROVE led_status
  <2>1. PlanInv /\ plan = <<>> /\ TypeOK
    BY <1>1 DEF Inv, AtRest, ServiceInv
  <2> QED
    BY <2>1, AtRestHere
<1>2. Inv => FailureNotIgnored
  BY <1>1 DEF FailureNotIgnored
<1> QED
  BY InvAlways, <1>2, PTL

(* The waiting command is the last one accepted; with none waiting, the    *)
(* task is in the mode that one asked for.                                 *)
THEOREM LatestCorrect == Spec => []LatestCommandWins
<1>1. Inv => LatestCommandWins
  BY DEF Inv, MailboxInv
<1> QED
  BY InvAlways, <1>1, PTL

(* A working task shows nothing but the remote command's two phases while  *)
(* the PC owns the LEDs, whatever presses it serves meanwhile.             *)
THEOREM RemoteOwns == Spec => RemoteOwnsLeds
<1>1. ASSUME Inv, [Next]_vars, frame' # frame, led_status', remote_active,
             s_system_state' # "ERROR"
      PROVE  frame' \in Phases(remote_cmd)
  <2>1. CASE Operate
    <3> DEFINE step == Head(plan)
    <3>1. plan # <<>> /\ PlanInv
      BY <1>1, <2>1 DEF Operate, Inv, ServiceInv
    <3>2. step \in Ops /\ (step \in Commits => step.frame \in Phases(remote_cmd))
      BY <1>1, <3>1, TailKeeps
    <3>3. step.op = "commit" /\ frame' = step.frame
      BY <1>1, <2>1 DEF Operate, Fault
    <3> HIDE DEF step
    <3> QED
      BY <3>2, <3>3, OpKinds
  <2>2. CASE InitHardware
    BY <1>1, <2>2 DEF InitHardware, Fault
  <2>3. CASE ReceiveCmd \/ TakeActions \/ Blink
    BY <1>1, <2>3 DEF ReceiveCmd, TakeActions, Blink
  <2>4. CASE Submit \/ ReleaseControl \/ Notify \/ UNCHANGED vars
    BY <1>1, <2>4 DEF Submit, ReleaseControl, Notify, led_task_submit_cmd,
                      led_task_release_remote_control, led_task_notify_action,
                      vars, ledVars, task
  <2> QED
    BY <1>1, <2>1, <2>2, <2>3, <2>4 DEF Next, Task, TaskStep
<1>2. Inv /\ [Next]_vars =>
        [ (frame' # frame /\ led_status' /\ remote_active /\ s_system_state' # "ERROR")
            => frame' \in {RemoteFrame(remote_cmd, b) : b \in BOOLEAN} ]_vars
  BY <1>1, Zenon DEF Phases
<1> QED
  BY InvAlways, <1>2, PTL DEF Spec, RemoteOwnsLeds
=============================================================================
