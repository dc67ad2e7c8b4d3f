--------------------------- MODULE KdSessionProofs ---------------------------
(***************************************************************************)
(* Proofs about the kernel debugger session, for any number of commands,   *)
(* breaks of the target and bad events.                                    *)
(***************************************************************************)
EXTENDS KdSession, SequenceTheorems, WellFoundedInduction, TLAPS

-----------------------------------------------------------------------------
(***************************************************************************)
(* The inductive invariant.                                                *)
(***************************************************************************)

\* kd.exe as the session sees it: what counts as disconnected while kd.exe
\* lives was marked so.
LifeInv ==
    /\ state = "idle" => /\ ~proc /\ ~kd.alive /\ kd.exit = "no"
                         /\ kd.stdin = <<>> /\ kd.cur = NoInput
                         /\ stdout = <<>> /\ end = "no"
    /\ ~proc \/ kd.exit # "no" => ~kd.alive
    /\ end = "no" => state # "detaching"
    /\ InUse /\ state = "disconnected" /\ kd.alive => marked

\* One command at a time, and a tool block waits for its own.
WaitInv ==
    /\ \A c \in Cmds : settled[c] = "open" <=> pending.id = c
    /\ pending.id # None =>
         tool.id = pending.id /\ tool.pc \in {"command", "bp", "capture"}
    /\ tool.pc # "idle" => tool.id \in Cmds /\ settled[tool.id] # "unused"
    /\ tool.pc = "wait" => settled[tool.id] = "ok"

\* What is in the pipes to and from kd.exe: a command is in one place, and
\* nothing of it follows its sentinel.
PipeShape ==
    /\ \A i \in 1..Len(kd.stdin) :
         /\ kd.stdin[i].kind # "none"
         /\ kd.stdin[i].kind \in Kinds <=> kd.stdin[i].id # None
    /\ kd.cur = NoInput \/ (kd.cur.kind \in Kinds /\ kd.cur.id # None)
    /\ \A i \in 1..Len(stdout) :
         stdout[i].kind = "sentinel" => stdout[i].from # None

PipeOnce ==
    /\ \A i, j \in 1..Len(kd.stdin) :
         kd.stdin[i].id = kd.stdin[j].id /\ kd.stdin[i].id # None => i = j
    /\ \A i \in 1..Len(kd.stdin) :
         kd.stdin[i].id # None => kd.cur.id # kd.stdin[i].id
    /\ \A i \in 1..Len(kd.stdin), j \in 1..Len(stdout) :
         kd.stdin[i].id # None => stdout[j].from # kd.stdin[i].id

PipeClosed ==
    /\ \A i \in 1..Len(stdout) :
         stdout[i].kind = "sentinel" => kd.cur.id # stdout[i].from
    /\ \A i, j \in 1..Len(stdout) :
         stdout[i].kind = "sentinel" /\ i < j => stdout[j].from # stdout[i].from

PipeInv == PipeShape /\ PipeOnce /\ PipeClosed

\* Something of the command is still on its way.
Abroad(c) ==
    \/ \E i \in 1..Len(kd.stdin) : kd.stdin[i].id = c
    \/ kd.cur.id = c
    \/ \E i \in 1..Len(stdout) : stdout[i].from = c

\* Nothing is on its way before a command is issued, or once it resolved; and
\* the entries of the log are of the past.
UsedInv ==
    /\ \A c \in Cmds : settled[c] \in {"unused", "ok"} => ~Abroad(c)
    /\ \A c \in Cmds : settled[c] = "unused" =>
         c \notin pending.out /\ \A i \in 1..Len(log) : log[i].from # c
    /\ \A i \in 1..Len(log) : log[i].at <= now

GivenUp == {c \in Cmds : settled[c] \in {"timeout", "error"}}

\* The output collected for the pending command, and what will still come
\* before its sentinel.
BracketInv ==
    pending.id # None =>
      /\ pending.out \ {pending.id, Target} \subseteq GivenUp
      /\ pending.id \notin pending.out =>
           /\ kd.cur.id = pending.id =>
                \E j \in 1..Len(stdout) : stdout[j] = Says("text", pending.id)
           /\ \A i \in 1..Len(stdout) :
                stdout[i] = Says("sentinel", pending.id) =>
                  \E j \in 1..Len(stdout) :
                    j < i /\ stdout[j] = Says("text", pending.id)

\* kernel_break_on issues no command that echoes a break, and what the log has
\* got since it began is the target's or of a command that was given up; what
\* it had before is not later than the begin.
EchoInv ==
    tool.pc \in {"bp", "wait", "capture"} =>
      /\ \A i \in 1..Len(kd.stdin) :
           kd.stdin[i].id = tool.id => kd.stdin[i].kind # "analyze"
      /\ kd.cur.id = tool.id => kd.cur.kind # "analyze"
      /\ \A i \in 1..Len(stdout) :
           stdout[i].from = tool.id => stdout[i].kind # "break"
      /\ tool.since.pos <= Len(log)
      /\ \A i \in 1..Len(log) :
           /\ i > tool.since.pos => log[i].from = Target \/ log[i].from \in GivenUp
           /\ i <= tool.since.pos => log[i].at <= tool.since.ms

IInv == /\ TypeOK /\ LifeInv /\ WaitInv /\ PipeInv /\ UsedInv
        /\ BracketInv /\ EchoInv /\ NoOrphanKd

-----------------------------------------------------------------------------
(***************************************************************************)
(* The records the session and the debugger are kept in, and the pipes.    *)
(***************************************************************************)

KdType == [alive : BOOLEAN, exit : {"no", "exit", "error"},
           target : {"running", "broken", "gone"},
           stdin : Seq(Input), cur : Input]

\* The fields that TypeOK gives a range.
LEMMA Fields ==
    ASSUME TypeOK
    PROVE  /\ kd \in KdType
           /\ kd.alive \in BOOLEAN /\ kd.exit \in {"no", "exit", "error"}
           /\ kd.target \in {"running", "broken", "gone"}
           /\ kd.stdin \in Seq(Input) /\ kd.cur \in Input
           /\ kd.cur.id \in 0..MaxCmds /\ kd.cur.kind \in Kinds \cup {"setup", "g", "qd", "none"}
           /\ pending.id \in 0..MaxCmds /\ pending.out \subseteq 0..MaxCmds
           /\ tool.pc \in {"idle", "command", "bp", "wait", "capture"}
           /\ tool.id \in 0..MaxCmds /\ tool.since \in Moment
           /\ tool.since.ms \in Nat /\ tool.since.pos \in Nat
           /\ MaxCmds \in Nat /\ now \in Nat
<1>1. kd \in KdType /\ pending \in [id : 0 .. MaxCmds, out : SUBSET (0 .. MaxCmds)]
      /\ tool \in [pc : {"idle", "command", "bp", "wait", "capture"},
                   id : 0 .. MaxCmds, since : Moment]
  BY DEF TypeOK, KdType
<1>2. kd.cur \in Input
  BY <1>1 DEF KdType
<1>3. kd.cur.id \in 0..MaxCmds /\ kd.cur.kind \in Kinds \cup {"setup", "g", "qd", "none"}
  BY <1>2 DEF Input
<1>4. tool.since \in Moment /\ tool.since.ms \in Nat /\ tool.since.pos \in Nat
  BY <1>1 DEF Moment
<1>5. now \in Nat
  BY BoundsAssumption DEF TypeOK
<1> QED
  BY <1>1, <1>2, <1>3, <1>4, <1>5, BoundsAssumption DEF KdType

\* The entries of the two pipes.
LEMMA Entries ==
    ASSUME TypeOK
    PROVE  /\ Len(kd.stdin) \in Nat /\ Len(stdout) \in Nat /\ Len(log) \in Nat
           /\ \A i \in 1..Len(kd.stdin) :
                /\ kd.stdin[i] \in Input /\ kd.stdin[i].id \in 0..MaxCmds
                /\ kd.stdin[i].kind \in Kinds \cup {"setup", "g", "qd", "none"}
           /\ \A i \in 1..Len(stdout) :
                /\ stdout[i] \in Line /\ stdout[i].from \in 0..MaxCmds
                /\ stdout[i].kind \in {"text", "sentinel", "break", "disconnect"}
           /\ \A i \in 1..Len(log) : /\ log[i].from \in 0..MaxCmds /\ log[i].at \in Nat
                                      /\ log[i] \in LogEntry
<1>1. kd.stdin \in Seq(Input) /\ stdout \in Seq(Line) /\ log \in Seq(LogEntry)
  BY Fields DEF TypeOK
<1>2. \A i \in 1..Len(kd.stdin) : kd.stdin[i] \in Input
  BY <1>1
<1>3. \A i \in 1..Len(stdout) : stdout[i] \in Line
  BY <1>1
<1>4. \A x \in Input : x.id \in 0..MaxCmds /\ x.kind \in Kinds \cup {"setup", "g", "qd", "none"}
  BY DEF Input
<1>5. \A x \in Line : /\ x.from \in 0..MaxCmds
                      /\ x.kind \in {"text", "sentinel", "break", "disconnect"}
  BY DEF Line
<1>6. \A i \in 1..Len(log) : log[i] \in LogEntry
  BY <1>1
<1>7. \A x \in LogEntry : x.from \in 0..MaxCmds /\ x.at \in Nat
  BY DEF LogEntry
<1> QED
  BY <1>1, <1>2, <1>3, <1>4, <1>5, <1>6, <1>7

\* What a kill leaves of kd.exe.
LEMMA KilledFields ==
    ASSUME TypeOK
    PROVE  /\ Killed \in KdType /\ Killed.alive = FALSE /\ Killed.cur = NoInput
           /\ Killed.stdin = <<>> /\ Killed.target = kd.target
           /\ Killed.exit = IF kd.alive THEN "exit" ELSE kd.exit
           /\ Killed.cur.id = None
<1>0. kd \in KdType
  BY Fields
<1>1. NoInput \in Input /\ NoInput.id = None /\ <<>> \in Seq(Input)
  BY BoundsAssumption DEF NoInput, Input, None
<1> QED
  BY <1>0, <1>1 DEF Killed, KdType

\* Taking the first of a sequence, and adding one at its end.
LEMMA TailPoints ==
    ASSUME NEW S, NEW s \in Seq(S), s # <<>>
    PROVE  /\ Head(s) = s[1] /\ Head(s) \in S /\ Tail(s) \in Seq(S)
           /\ Len(s) \in Nat \ {0} /\ Len(Tail(s)) = Len(s) - 1
           /\ \A i \in 1..Len(Tail(s)) : Tail(s)[i] = s[i + 1]
  OBVIOUS

\* And adding one at the end.
LEMMA AppendPoints ==
    ASSUME NEW S, NEW s \in Seq(S), NEW x \in S
    PROVE  /\ Append(s, x) \in Seq(S) /\ Len(s) \in Nat
           /\ Len(Append(s, x)) = Len(s) + 1
           /\ \A i \in 1..Len(s) : Append(s, x)[i] = s[i]
           /\ Append(s, x)[Len(s) + 1] = x
  OBVIOUS

\* The output handled by a step is none or the first line, and nothing is added
\* but what the target makes kd.exe say.
Takes(k) ==
    /\ \A i \in 1..Len(stdout') :
         \/ i + k \in 1..Len(stdout) /\ stdout'[i] = stdout[i + k]
         \/ stdout'[i].from = Target /\ stdout'[i].kind \in {"text", "break", "disconnect"}
    /\ \A j \in 1..Len(stdout) :
         j > k => j - k \in 1..Len(stdout') /\ stdout'[j - k] = stdout[j]

Taken == \E k \in {0, 1} : Takes(k)

\* kd.exe is given no command: it keeps what it has, takes a line that is none,
\* or gets one.
InputKept ==
    /\ kd.cur' \in {kd.cur, NoInput}
    /\ \E k \in {0, 1} :
         \A i \in 1..Len(kd.stdin') :
           \/ i + k \in 1..Len(kd.stdin) /\ kd.stdin'[i] = kd.stdin[i + k]
           \/ kd.stdin'[i].id = None /\ kd.stdin'[i].kind \in {"setup", "g", "qd"}

\* Nothing of a command is added to the pipes: PipeInv stays.
LEMMA PipeShrinks ==
    ASSUME TypeOK, PipeInv, InputKept, Taken
    PROVE  PipeInv'
<1>1. PICK k \in {0, 1} :
        \A i \in 1..Len(stdout') :
          \/ i + k \in 1..Len(stdout) /\ stdout'[i] = stdout[i + k]
          \/ stdout'[i].from = Target /\ stdout'[i].kind \in {"text", "break", "disconnect"}
  BY DEF Taken, Takes
<1>2. PICK h \in {0, 1} :
        \A i \in 1..Len(kd.stdin') :
          \/ i + h \in 1..Len(kd.stdin) /\ kd.stdin'[i] = kd.stdin[i + h]
          \/ kd.stdin'[i].id = None /\ kd.stdin'[i].kind \in {"setup", "g", "qd"}
  BY DEF InputKept
<1>3. kd.cur' = kd.cur \/ kd.cur' = NoInput
  BY DEF InputKept
<1>4. PipeShape'
  <2>1. \A i \in 1..Len(kd.stdin') :
          /\ kd.stdin'[i].kind # "none"
          /\ kd.stdin'[i].kind \in Kinds <=> kd.stdin'[i].id # None
    BY <1>2 DEF PipeInv, PipeShape, Kinds
  <2>2. kd.cur' = NoInput \/ (kd.cur'.kind \in Kinds /\ kd.cur'.id # None)
    BY <1>3 DEF PipeInv, PipeShape
  <2>3. \A i \in 1..Len(stdout') :
          stdout'[i].kind = "sentinel" => stdout'[i].from # None
    BY <1>1 DEF PipeInv, PipeShape
  <2> QED
    BY <2>1, <2>2, <2>3 DEF PipeShape
<1>5. PipeOnce'
  <2>1. ASSUME NEW i \in 1..Len(kd.stdin'), NEW j \in 1..Len(kd.stdin'),
               kd.stdin'[i].id = kd.stdin'[j].id, kd.stdin'[i].id # None
        PROVE  i = j
    <3>1. /\ i + h \in 1..Len(kd.stdin) /\ kd.stdin'[i] = kd.stdin[i + h]
          /\ j + h \in 1..Len(kd.stdin) /\ kd.stdin'[j] = kd.stdin[j + h]
      BY <1>2, <2>1
    <3>2. i + h = j + h
      BY <2>1, <3>1 DEF PipeInv, PipeOnce
    <3>3. i \in Int /\ j \in Int /\ h \in Int
      OBVIOUS
    <3> QED
      BY <3>2, <3>3
  <2>2. ASSUME NEW i \in 1..Len(kd.stdin'), kd.stdin'[i].id # None
        PROVE  kd.cur'.id # kd.stdin'[i].id
    BY <1>2, <1>3, <2>2 DEF PipeInv, PipeOnce, NoInput
  <2>3. ASSUME NEW i \in 1..Len(kd.stdin'), NEW j \in 1..Len(stdout'),
               kd.stdin'[i].id # None
        PROVE  stdout'[j].from # kd.stdin'[i].id
    <3>1. i + h \in 1..Len(kd.stdin) /\ kd.stdin'[i] = kd.stdin[i + h]
      BY <1>2, <2>3
    <3>2. CASE stdout'[j].from = Target
      BY <2>3, <3>2 DEF Target, None
    <3>3. CASE j + k \in 1..Len(stdout) /\ stdout'[j] = stdout[j + k]
      BY <2>3, <3>1, <3>3 DEF PipeInv, PipeOnce
    <3> QED
      BY <1>1, <3>2, <3>3
  <2> QED
    BY <2>1, <2>2, <2>3 DEF PipeOnce
<1>6. PipeClosed'
  <2>1. ASSUME NEW i \in 1..Len(stdout'), stdout'[i].kind = "sentinel"
        PROVE  /\ i + k \in 1..Len(stdout) /\ stdout'[i] = stdout[i + k]
               /\ stdout'[i].from # None
    BY <1>1, <2>1 DEF PipeInv, PipeShape
  <2>2. ASSUME NEW i \in 1..Len(stdout'), stdout'[i].kind = "sentinel"
        PROVE  kd.cur'.id # stdout'[i].from
    BY <1>3, <2>1, <2>2 DEF PipeInv, PipeClosed, NoInput
  <2>3. ASSUME NEW i \in 1..Len(stdout'), NEW j \in 1..Len(stdout'),
               stdout'[i].kind = "sentinel", i < j
        PROVE  stdout'[j].from # stdout'[i].from
    <3>1. CASE stdout'[j].from = Target
      BY <2>1, <2>3, <3>1 DEF Target, None
    <3>2. CASE j + k \in 1..Len(stdout) /\ stdout'[j] = stdout[j + k]
      <4>1. i + k < j + k
        BY <2>3
      <4>2. stdout[i + k].kind = "sentinel" /\ i + k \in 1..Len(stdout)
        BY <2>1, <2>3
      <4>3. stdout[j + k].from # stdout[i + k].from
        BY <3>2, <4>1, <4>2 DEF PipeInv, PipeClosed
      <4> QED
        BY <2>1, <2>3, <3>2, <4>3
    <3> QED
      BY <1>1, <3>1, <3>2
  <2> QED
    BY <2>2, <2>3 DEF PipeClosed
<1> QED
  BY <1>4, <1>5, <1>6 DEF PipeInv

\* Nor is anything of a command on its way that was not before.
LEMMA AbroadShrinks ==
    ASSUME TypeOK, InputKept, Taken, NEW c \in Cmds, Abroad(c)'
    PROVE  Abroad(c)
<1>0. c # None /\ c # Target
  BY DEF Cmds, None, Target
<1>1. CASE \E i \in 1..Len(kd.stdin') : kd.stdin'[i].id = c
  BY <1>0, <1>1 DEF Abroad, InputKept
<1>2. CASE kd.cur'.id = c
  BY <1>0, <1>2 DEF Abroad, InputKept, NoInput
<1>3. CASE \E i \in 1..Len(stdout') : stdout'[i].from = c
  BY <1>0, <1>3 DEF Abroad, Taken, Takes
<1> QED
  BY <1>1, <1>2, <1>3 DEF Abroad

\* A promise is settled by a timeout or an error, or none is.
Settles ==
    \/ UNCHANGED <<pending, settled>>
    \/ /\ pending' = NoPending
       /\ \E v \in {"timeout", "error"} :
            \A c \in Cmds : settled'[c] = IF c = pending.id THEN v ELSE settled[c]

Outcomes == {"unused", "open", "ok", "timeout", "error"}

\* The pending command is given up.
LEMMA GivingUp ==
    ASSUME TypeOK, NEW v \in {"timeout", "error"}, pending' = NoPending,
           settled' = IF pending.id = None THEN settled
                      ELSE [settled EXCEPT ![pending.id] = v]
    PROVE  /\ Settles
           /\ pending' \in [id : 0 .. MaxCmds, out : SUBSET (0 .. MaxCmds)]
           /\ settled' \in [Cmds -> Outcomes]
<1>1. settled \in [Cmds -> Outcomes]
  BY DEF TypeOK, Outcomes
<1>2. pending' \in [id : 0 .. MaxCmds, out : SUBSET (0 .. MaxCmds)]
  BY BoundsAssumption DEF NoPending, None
<1>3. CASE pending.id = None
  <2>1. \A c \in Cmds : c # pending.id
    BY <1>3 DEF Cmds, None
  <2>2. settled' = settled
    BY <1>3
  <2> QED
    BY <1>1, <1>2, <2>1, <2>2 DEF Settles
<1>4. CASE pending.id # None
  <2>1. pending.id \in Cmds
    BY <1>4, Fields DEF Cmds, None
  <2>2. settled' = [settled EXCEPT ![pending.id] = v]
    BY <1>4
  <2>3. settled' \in [Cmds -> Outcomes]
    BY <1>1, <2>1, <2>2 DEF Outcomes
  <2>4. \A c \in Cmds : settled'[c] = IF c = pending.id THEN v ELSE settled[c]
    BY <1>1, <2>1, <2>2
  <2> QED
    BY <1>2, <2>3, <2>4 DEF Settles
<1> QED
  BY <1>3, <1>4

\* What a step that at most settles a promise leaves of the commands.
LEMMA SettlesPoints ==
    ASSUME TypeOK, WaitInv, Settles
    PROVE  /\ GivenUp \subseteq GivenUp'
           /\ \A c \in Cmds : settled'[c] \in {"unused", "ok"} => settled'[c] = settled[c]
           /\ \A c \in Cmds : settled[c] # "open" => settled'[c] = settled[c]
           /\ \A c \in Cmds : settled'[c] = "open" <=> pending'.id = c
           /\ pending'.id # None => pending' = pending
           /\ pending'.out \subseteq pending.out
<1>1. CASE UNCHANGED <<pending, settled>>
  BY <1>1 DEF GivenUp, WaitInv
<1>2. CASE /\ pending' = NoPending
           /\ \E v \in {"timeout", "error"} :
                \A c \in Cmds : settled'[c] = IF c = pending.id THEN v ELSE settled[c]
  <2>1. PICK v \in {"timeout", "error"} :
                \A c \in Cmds : settled'[c] = IF c = pending.id THEN v ELSE settled[c]
    BY <1>2
  <2>2. pending'.id = None /\ pending'.out = {} /\ \A c \in Cmds : c # None
    BY <1>2 DEF NoPending, Cmds, None
  <2>3. \A c \in Cmds : settled[c] = "open" <=> pending.id = c
    BY DEF WaitInv
  <2> QED
    BY <2>1, <2>2, <2>3 DEF GivenUp
<1> QED
  BY <1>1, <1>2 DEF Settles

\* The tool block stays where it is, or ends, or waits for a break: of its
\* command, the promise is settled.
ToolStays ==
    \/ tool' = tool
    \/ /\ tool' = NoTool /\ (pending.id # None => settled[tool.id] # "open")
    \/ /\ tool.pc = "bp" /\ tool'.pc = "wait" /\ settled[tool.id] = "ok"
       /\ tool'.id = tool.id /\ tool'.since = tool.since

\* One command at a time: kept while no promise is opened.
LEMMA WaitKept ==
    ASSUME TypeOK, WaitInv, Settles, ToolStays
    PROVE  WaitInv'
<1> USE SettlesPoints
<1>1. \A c \in Cmds : settled'[c] = "open" <=> pending'.id = c
  OBVIOUS
<1>2. CASE tool' = tool
  <2>1. pending'.id # None =>
          tool'.id = pending'.id /\ tool'.pc \in {"command", "bp", "capture"}
    BY <1>2 DEF WaitInv
  <2>2. ASSUME tool'.pc # "idle"
        PROVE  tool'.id \in Cmds /\ settled'[tool'.id] # "unused"
    BY <1>2, <2>2 DEF WaitInv
  <2>3. ASSUME tool'.pc = "wait" PROVE settled'[tool'.id] = "ok"
    BY <1>2, <2>2, <2>3 DEF WaitInv
  <2> QED
    BY <1>1, <2>1, <2>2, <2>3 DEF WaitInv
<1>3. CASE tool' = NoTool /\ (pending.id # None => settled[tool.id] # "open")
  <2>1. tool'.pc = "idle"
    BY <1>3 DEF NoTool
  <2>2. pending.id = None
    BY <1>3, Fields DEF WaitInv, Cmds, None
  <2>3. pending'.id = None
    BY <2>2
  <2> QED
    BY <1>1, <2>1, <2>3 DEF WaitInv
<1>4. CASE /\ tool.pc = "bp" /\ tool'.pc = "wait" /\ settled[tool.id] = "ok"
           /\ tool'.id = tool.id /\ tool'.since = tool.since
  <2>1. pending.id = None
    BY <1>4, Fields DEF WaitInv, Cmds, None
  <2>2. pending'.id = None
    BY <2>1
  <2>3. tool'.id \in Cmds /\ settled'[tool'.id] = "ok"
    BY <1>4 DEF WaitInv
  <2> QED
    BY <1>1, <1>4, <2>2, <2>3 DEF WaitInv
<1> QED
  BY <1>2, <1>3, <1>4 DEF ToolStays

\* Nothing comes of a command before it is issued or after it resolved.
LEMMA UsedKept ==
    ASSUME TypeOK, WaitInv, UsedInv, InputKept, Taken, Settles, log' = log,
           now' \in {now, now + 1}
    PROVE  UsedInv'
<1> USE SettlesPoints
<1>1. \A c \in Cmds : settled'[c] \in {"unused", "ok"} => ~Abroad(c)'
  BY AbroadShrinks DEF UsedInv
<1>2. ASSUME NEW c \in Cmds, settled'[c] = "unused"
      PROVE  c \notin pending'.out /\ \A i \in 1..Len(log') : log'[i].from # c
  BY <1>2 DEF UsedInv
<1>3. \A i \in 1..Len(log') : log'[i].at <= now'
  BY Entries, Fields DEF UsedInv
<1> QED
  BY <1>1, <1>2, <1>3 DEF UsedInv

\* The log since the tool block began: kept while the log is not extended.
LEMMA EchoKept ==
    ASSUME TypeOK, WaitInv, EchoInv, InputKept, Taken, ToolStays, log' = log,
           GivenUp \subseteq GivenUp'
    PROVE  EchoInv'
<1>0. SUFFICES ASSUME tool'.pc \in {"bp", "wait", "capture"}
               PROVE  EchoInv'
  BY DEF EchoInv
<1>1. tool.pc \in {"bp", "wait", "capture"} /\ tool'.id = tool.id /\ tool'.since = tool.since
  BY <1>0 DEF NoTool, ToolStays
<1>2. tool.id # None /\ tool.id # Target
  BY <1>1 DEF WaitInv, Cmds, None, Target
<1>4. \A i \in 1..Len(stdout') : stdout'[i].from = tool'.id => stdout'[i].kind # "break"
  BY <1>1, <1>2 DEF EchoInv, Taken, Takes
<1>5. /\ tool'.since.pos <= Len(log')
      /\ \A i \in 1..Len(log') :
           /\ i > tool'.since.pos =>
                log'[i].from = Target \/ log'[i].from \in GivenUp'
           /\ i <= tool'.since.pos => log'[i].at <= tool'.since.ms
  BY <1>1 DEF EchoInv
<1>6. \A i \in 1..Len(kd.stdin') :
           kd.stdin'[i].id = tool'.id => kd.stdin'[i].kind # "analyze"
  BY <1>1, <1>2 DEF EchoInv, InputKept
<1>7. kd.cur'.id = tool'.id => kd.cur'.kind # "analyze"
  BY <1>1, <1>2 DEF EchoInv, InputKept, NoInput
<1> QED
  BY <1>4, <1>5, <1>6, <1>7 DEF EchoInv

\* The brackets of the pending command: kept while its first text is not taken.
LEMMA BracketKept ==
    ASSUME TypeOK, WaitInv, PipeInv, BracketInv, InputKept, Settles,
           NEW k \in {0, 1}, Takes(k),
           \/ k = 0 \/ pending' = NoPending
           \/ stdout[1].kind # "text" \/ stdout[1].from # pending.id
    PROVE  BracketInv'
<1> USE SettlesPoints
<1>0. SUFFICES ASSUME pending'.id # None
               PROVE  BracketInv'
  BY DEF BracketInv
<1>1. pending' = pending /\ pending.id # None /\ pending' # NoPending
  BY <1>0 DEF NoPending
<1>4. pending'.out \ {pending'.id, Target} \subseteq GivenUp'
  BY <1>1 DEF BracketInv
<1>5. SUFFICES ASSUME pending.id \notin pending.out
               PROVE  /\ kd.cur'.id = pending'.id =>
                           \E j \in 1..Len(stdout') : stdout'[j] = Says("text", pending'.id)
                      /\ \A i \in 1..Len(stdout') :
                           stdout'[i] = Says("sentinel", pending'.id) =>
                             \E j \in 1..Len(stdout') :
                               j < i /\ stdout'[j] = Says("text", pending'.id)
  BY <1>1, <1>4 DEF BracketInv, Says
<1>6. ASSUME NEW j \in 1..Len(stdout), stdout[j] = Says("text", pending.id)
      PROVE  j - k \in 1..Len(stdout') /\ stdout'[j - k] = Says("text", pending'.id)
  <2>1. stdout[j].kind = "text" /\ stdout[j].from = pending.id
    BY <1>6 DEF Says
  <2>2. j > k
    BY <1>1, <2>1
  <2> QED
    BY <1>1, <1>6, <2>2 DEF Takes
<1>7. ASSUME kd.cur'.id = pending'.id
      PROVE  \E j \in 1..Len(stdout') : stdout'[j] = Says("text", pending'.id)
  <2>1. kd.cur'.id = kd.cur.id
    BY <1>1, <1>7 DEF InputKept, NoInput
  <2>2. PICK j \in 1..Len(stdout) : stdout[j] = Says("text", pending.id)
    BY <1>1, <1>5, <1>7, <2>1 DEF BracketInv
  <2> QED
    BY <1>6, <2>2
<1>8. ASSUME NEW i \in 1..Len(stdout'), stdout'[i] = Says("sentinel", pending'.id)
      PROVE  \E j \in 1..Len(stdout') :
               j < i /\ stdout'[j] = Says("text", pending'.id)
  <2>0. stdout'[i].kind = "sentinel"
    BY <1>8 DEF Says
  <2>1. i + k \in 1..Len(stdout) /\ stdout[i + k] = Says("sentinel", pending.id)
    BY <1>1, <1>8, <2>0 DEF Takes
  <2>2. PICK j \in 1..Len(stdout) : j < i + k /\ stdout[j] = Says("text", pending.id)
    BY <1>1, <1>5, <2>1 DEF BracketInv
  <2>3. j - k < i
    BY <2>2
  <2> QED
    BY <1>6, <2>2, <2>3
<1> QED
  BY <1>7, <1>8

\* A step that gives kd.exe no command and has no output for the pending one.
LEMMA KeptStep ==
    ASSUME IInv, InputKept, Settles, ToolStays, log' = log, now' \in {now, now + 1},
           NEW k \in {0, 1}, Takes(k),
           \/ k = 0 \/ pending' = NoPending
           \/ stdout[1].kind # "text" \/ stdout[1].from # pending.id
    PROVE  WaitInv' /\ PipeInv' /\ UsedInv' /\ BracketInv' /\ EchoInv'
<1>0. TypeOK /\ WaitInv /\ PipeInv /\ UsedInv /\ BracketInv /\ EchoInv
  BY DEF IInv
<1>1. Taken
  BY DEF Taken
<1>2. WaitInv'
  BY <1>0, WaitKept
<1>3. PipeInv'
  BY <1>0, <1>1, PipeShrinks
<1>4. UsedInv'
  BY <1>0, <1>1, UsedKept
<1>5. BracketInv'
  BY <1>0, BracketKept
<1>6. EchoInv'
  BY <1>0, <1>1, EchoKept, SettlesPoints
<1> QED
  BY <1>2, <1>3, <1>4, <1>5, <1>6

\* The same for a step that handles no output at all.
LEMMA QuietStep ==
    ASSUME IInv, InputKept, Settles, ToolStays, Takes(0), log' = log,
           now' \in {now, now + 1}
    PROVE  WaitInv' /\ PipeInv' /\ UsedInv' /\ BracketInv' /\ EchoInv'
<1>1. 0 \in {0, 1}
  OBVIOUS
<1> QED
  BY <1>1, KeptStep

\* What leaves the output alone, and what leaves kd.exe's input alone or takes
\* all of it.
LEMMA OutputSame ==
    ASSUME TypeOK, stdout' = stdout
    PROVE  Takes(0)
  BY Entries DEF Takes

\* What leaves kd.exe's input alone.
LEMMA InputSame ==
    ASSUME TypeOK, kd.stdin' = kd.stdin, kd.cur' \in {kd.cur, NoInput}
    PROVE  InputKept
<1>1. \A i \in 1..Len(kd.stdin') :
        i + 0 \in 1..Len(kd.stdin) /\ kd.stdin'[i] = kd.stdin[i + 0]
  BY Entries
<1> QED
  BY <1>1 DEF InputKept

\* What takes all of it.
LEMMA InputKilled ==
    ASSUME TypeOK, kd' = Killed
    PROVE  InputKept
<1>1. kd.stdin' = <<>> /\ kd.cur' = NoInput
  BY KilledFields
<1>2. 1..Len(kd.stdin') = {}
  BY <1>1
<1> QED
  BY <1>1, <1>2 DEF InputKept

-----------------------------------------------------------------------------
(***************************************************************************)
(* The steps, one lemma per action.                                        *)
(***************************************************************************)

\* The timer of run gives the pending command up.
LEMMA CommandTimeoutStep ==
    ASSUME IInv, CommandTimeout
    PROVE  IInv'
<1>0. TypeOK /\ LifeInv /\ NoOrphanKd
  BY DEF IInv
<1>1. /\ UNCHANGED <<state, proc, log, now, tool, end, kd, stdout, breaks, events,
                     marked>>
      /\ pending' = NoPending /\ stuck' = FALSE
      /\ settled' = IF pending.id = None THEN settled
                    ELSE [settled EXCEPT ![pending.id] = "timeout"]
  BY DEF CommandTimeout
<1>2. /\ Settles /\ pending' \in [id : 0 .. MaxCmds, out : SUBSET (0 .. MaxCmds)]
      /\ settled' \in [Cmds -> Outcomes]
  BY <1>0, <1>1, GivingUp
<1>3. TypeOK'
  BY <1>0, <1>1, <1>2 DEF TypeOK, Outcomes
<1>4. LifeInv' /\ NoOrphanKd'
  BY <1>0, <1>1 DEF LifeInv, NoOrphanKd, InUse
<1>5. InputKept /\ ToolStays
  BY <1>0, <1>1, InputSame DEF ToolStays
<1>6. WaitInv' /\ PipeInv' /\ UsedInv' /\ BracketInv' /\ EchoInv'
  BY <1>0, <1>1, <1>2, <1>5, OutputSame, QuietStep
<1> QED
  BY <1>3, <1>4, <1>6 DEF IInv

\* The five seconds of detach: whatever kd.exe was doing, it is dead.
LEMMA DetachTimerStep ==
    ASSUME IInv, DetachTimer
    PROVE  IInv'
<1>0. TypeOK /\ LifeInv
  BY DEF IInv
<1>1. /\ UNCHANGED <<state, proc, pending, stuck, settled, log, now, tool, stdout,
                     breaks, events, marked>>
      /\ kd' = Killed /\ end = "detaching" /\ end' = "torn"
  BY DEF DetachTimer
<1>2. /\ kd' \in KdType /\ kd'.alive = FALSE /\ kd.stdin' = <<>> /\ kd.cur' = NoInput
  BY <1>0, <1>1, KilledFields
<1>3. TypeOK'
  BY <1>0, <1>1, <1>2 DEF TypeOK, KdType
<1>4. LifeInv' /\ NoOrphanKd'
  BY <1>0, <1>1, <1>2 DEF LifeInv, NoOrphanKd
<1>5. InputKept /\ Settles /\ ToolStays
  BY <1>0, <1>1, InputKilled DEF Settles, ToolStays
<1>6. WaitInv' /\ PipeInv' /\ UsedInv' /\ BracketInv' /\ EchoInv'
  BY <1>0, <1>1, <1>5, OutputSame, QuietStep
<1> QED
  BY <1>3, <1>4, <1>6 DEF IInv

\* kd.exe dies by itself; its exit event is due.
LEMMA KdDiesStep ==
    ASSUME IInv, KdDies
    PROVE  IInv'
<1>0. TypeOK /\ LifeInv
  BY DEF IInv
<1>1. /\ UNCHANGED <<state, proc, pending, stuck, settled, log, now, tool, end,
                     stdout, breaks, marked>>
      /\ kd' = Killed /\ kd.alive /\ events < MaxEvents /\ events' = events + 1
  BY DEF KdDies, Event
<1>2. /\ kd' \in KdType /\ kd'.alive = FALSE /\ kd.stdin' = <<>> /\ kd.cur' = NoInput
  BY <1>0, <1>1, KilledFields
<1>3. TypeOK'
  <2>1. events' \in 0..MaxEvents
    BY <1>0, <1>1, BoundsAssumption DEF TypeOK
  <2> QED
    BY <1>0, <1>1, <1>2, <2>1 DEF TypeOK, KdType
<1>4. LifeInv' /\ NoOrphanKd'
  BY <1>0, <1>1, <1>2 DEF LifeInv, NoOrphanKd
<1>5. InputKept /\ Settles /\ ToolStays
  BY <1>0, <1>1, InputKilled DEF Settles, ToolStays
<1>6. WaitInv' /\ PipeInv' /\ UsedInv' /\ BracketInv' /\ EchoInv'
  BY <1>0, <1>1, <1>5, OutputSame, QuietStep
<1> QED
  BY <1>3, <1>4, <1>6 DEF IInv

\* The exit hook: what counts as disconnected and lives was marked so.
LEMMA ForceTerminateStep ==
    ASSUME IInv, ForceTerminate
    PROVE  IInv'
<1>0. TypeOK /\ LifeInv /\ NoOrphanKd
  BY DEF IInv
<1>1. /\ UNCHANGED <<proc, pending, stuck, settled, log, now, tool, stdout, breaks,
                     events, marked>>
      /\ InUse /\ state # "idle" /\ end' = "exited"
  BY DEF ForceTerminate
<1>2. Settles /\ ToolStays
  BY <1>1 DEF Settles, ToolStays
<1>3. CASE state = "disconnected" \/ ~proc
  <2>1. state' = "disconnected" /\ kd' = kd
    BY <1>3 DEF ForceTerminate
  <2>2. TypeOK'
    BY <1>0, <1>1, <2>1 DEF TypeOK, States
  <2>3. LifeInv' /\ NoOrphanKd'
    BY <1>0, <1>1, <1>3, <2>1 DEF LifeInv, NoOrphanKd, InUse
  <2>4. InputKept
    BY <1>0, <2>1, InputSame
  <2>5. WaitInv' /\ PipeInv' /\ UsedInv' /\ BracketInv' /\ EchoInv'
    BY <1>0, <1>1, <1>2, <2>4, OutputSame, QuietStep
  <2> QED
    BY <2>2, <2>3, <2>5 DEF IInv
<1>4. CASE ~(state = "disconnected" \/ ~proc)
  <2>1. state' = "detaching" /\ kd' = Killed
    BY <1>4 DEF ForceTerminate
  <2>2. /\ kd' \in KdType /\ kd'.alive = FALSE /\ kd.stdin' = <<>> /\ kd.cur' = NoInput
    BY <1>0, <2>1, KilledFields
  <2>3. TypeOK'
    BY <1>0, <1>1, <2>1, <2>2 DEF TypeOK, States, KdType
  <2>4. LifeInv' /\ NoOrphanKd'
    BY <1>1, <2>1, <2>2 DEF LifeInv, NoOrphanKd
  <2>5. InputKept
    BY <1>0, <2>1, InputKilled
  <2>6. WaitInv' /\ PipeInv' /\ UsedInv' /\ BracketInv' /\ EchoInv'
    BY <1>0, <1>1, <1>2, <2>5, OutputSame, QuietStep
  <2> QED
    BY <2>3, <2>4, <2>6 DEF IInv
<1> QED
  BY <1>3, <1>4

\* An exit event is only due when kd.exe is dead.
LEMMA HandleExitStep ==
    ASSUME IInv, HandleExit
    PROVE  IInv'
<1>0. TypeOK /\ LifeInv /\ NoOrphanKd
  BY DEF IInv
<1>1. /\ UNCHANGED <<log, now, tool, stdout, breaks, events, marked>>
      /\ kd.exit = "exit" /\ kd' = [kd EXCEPT !.exit = "no"]
      /\ state' = "disconnected" /\ proc' = FALSE
      /\ end' = IF end = "detaching" THEN "torn" ELSE end
  BY DEF HandleExit
<1>2. /\ kd' \in KdType /\ kd'.alive = kd.alive /\ kd'.exit = "no"
      /\ kd.stdin' = kd.stdin /\ kd.cur' = kd.cur
  BY <1>0, <1>1, Fields DEF KdType
<1>3. /\ pending' = NoPending /\ stuck' = FALSE
      /\ settled' = IF pending.id = None THEN settled
                    ELSE [settled EXCEPT ![pending.id] = "error"]
  BY DEF HandleExit, RejectPending
<1>4. /\ Settles /\ pending' \in [id : 0 .. MaxCmds, out : SUBSET (0 .. MaxCmds)]
      /\ settled' \in [Cmds -> Outcomes]
  BY <1>0, <1>3, GivingUp
<1>5. TypeOK'
  BY <1>0, <1>1, <1>2, <1>3, <1>4 DEF TypeOK, Outcomes, KdType, States
<1>6. LifeInv' /\ NoOrphanKd'
  <2>1. kd'.alive = FALSE
    BY <1>0, <1>1, <1>2, Fields DEF LifeInv
  <2> QED
    BY <1>0, <1>1, <1>2, <2>1 DEF LifeInv, NoOrphanKd
<1>7. InputKept /\ ToolStays
  BY <1>0, <1>1, <1>2, InputSame DEF ToolStays
<1>8. WaitInv' /\ PipeInv' /\ UsedInv' /\ BracketInv' /\ EchoInv'
  BY <1>0, <1>1, <1>4, <1>7, OutputSame, QuietStep
<1> QED
  BY <1>5, <1>6, <1>8 DEF IInv

\* A spawn error is only due when there was no kd.exe.
LEMMA HandleSpawnErrorStep ==
    ASSUME IInv, HandleSpawnError
    PROVE  IInv'
<1>0. TypeOK /\ LifeInv /\ NoOrphanKd
  BY DEF IInv
<1>1. /\ UNCHANGED <<proc, log, now, tool, end, stdout, breaks, events, marked>>
      /\ kd.exit = "error" /\ kd' = [kd EXCEPT !.exit = "no"]
      /\ state' = "disconnected"
  BY DEF HandleSpawnError
<1>2. /\ kd' \in KdType /\ kd'.alive = kd.alive /\ kd'.exit = "no"
      /\ kd.stdin' = kd.stdin /\ kd.cur' = kd.cur
  BY <1>0, <1>1, Fields DEF KdType
<1>3. /\ pending' = NoPending /\ stuck' = FALSE
      /\ settled' = IF pending.id = None THEN settled
                    ELSE [settled EXCEPT ![pending.id] = "error"]
  BY DEF HandleSpawnError, RejectPending
<1>4. /\ Settles /\ pending' \in [id : 0 .. MaxCmds, out : SUBSET (0 .. MaxCmds)]
      /\ settled' \in [Cmds -> Outcomes]
  BY <1>0, <1>3, GivingUp
<1>5. TypeOK'
  BY <1>0, <1>1, <1>2, <1>3, <1>4 DEF TypeOK, Outcomes, KdType, States
<1>6. LifeInv' /\ NoOrphanKd'
  <2>1. kd'.alive = FALSE
    BY <1>0, <1>1, <1>2, Fields DEF LifeInv
  <2> QED
    BY <1>0, <1>1, <1>2, <2>1 DEF LifeInv, NoOrphanKd
<1>7. InputKept /\ ToolStays
  BY <1>0, <1>1, <1>2, InputSame DEF ToolStays
<1>8. WaitInv' /\ PipeInv' /\ UsedInv' /\ BracketInv' /\ EchoInv'
  BY <1>0, <1>1, <1>4, <1>7, OutputSame, QuietStep
<1> QED
  BY <1>5, <1>6, <1>8 DEF IInv

\* A tool block that ends, sending nothing.
LEMMA ToolEndsStep ==
    ASSUME IInv, tool' = NoTool, pending.id # None => settled[tool.id] # "open",
           UNCHANGED <<state, proc, pending, stuck, settled, log, now, end, kd,
                       stdout, breaks, events, marked>>
    PROVE  IInv'
<1>0. TypeOK /\ LifeInv /\ NoOrphanKd
  BY DEF IInv
<1>1. tool' \in [pc : {"idle", "command", "bp", "wait", "capture"},
                 id : 0 .. MaxCmds, since : Moment]
  BY BoundsAssumption DEF NoTool, None, Moment, Anytime
<1>2. TypeOK'
  BY <1>0, <1>1 DEF TypeOK
<1>3. LifeInv' /\ NoOrphanKd'
  BY <1>0 DEF LifeInv, NoOrphanKd, InUse
<1>4. InputKept /\ Settles /\ ToolStays
  BY <1>0, InputSame DEF Settles, ToolStays
<1>5. WaitInv' /\ PipeInv' /\ UsedInv' /\ BracketInv' /\ EchoInv'
  BY <1>0, <1>4, OutputSame, QuietStep
<1> QED
  BY <1>2, <1>3, <1>5 DEF IInv

\* A capture of kernel_expect_bugcheck returns.
LEMMA CaptureReturnsStep ==
    ASSUME IInv, CaptureReturns
    PROVE  IInv'
  BY ToolEndsStep DEF CaptureReturns

\* kernel_break_on gives up waiting; it has no command pending.
LEMMA BreakOnTimeoutStep ==
    ASSUME IInv, BreakOnTimeout
    PROVE  IInv'
<1>1. settled[tool.id] # "open"
  BY DEF BreakOnTimeout, IInv, WaitInv
<1> QED
  BY <1>1, ToolEndsStep DEF BreakOnTimeout

\* A line written to kd.exe: it is lost, or at the end of its input.
LEMMA SendFields ==
    ASSUME TypeOK, NEW kind \in Kinds \cup {"g", "qd"}, NEW c \in 0..MaxCmds,
           Send(kind, c)
    PROVE  /\ kd' \in KdType /\ kd'.alive = kd.alive /\ kd'.exit = kd.exit
           /\ kd'.target = kd.target /\ kd'.cur = kd.cur
           /\ \/ kd'.stdin = kd.stdin
              \/ kd'.stdin = Append(kd.stdin, [kind |-> kind, id |-> c])
           /\ [kind |-> kind, id |-> c] \in Input
<1>1. [kind |-> kind, id |-> c] \in Input
  BY DEF Input
<1>2. kd \in KdType /\ kd.stdin \in Seq(Input)
  BY Fields
<1>3. CASE proc /\ kd.alive
  <2>1. kd' = [kd EXCEPT !.stdin = Append(kd.stdin, [kind |-> kind, id |-> c])]
    BY <1>3 DEF Send
  <2>2. Append(kd.stdin, [kind |-> kind, id |-> c]) \in Seq(Input)
    BY <1>1, <1>2
  <2> QED
    BY <1>1, <1>2, <2>1, <2>2 DEF KdType
<1>4. CASE ~(proc /\ kd.alive)
  <2>1. kd' = kd
    BY <1>4 DEF Send
  <2> QED
    BY <1>1, <1>2, <2>1 DEF KdType
<1> QED
  BY <1>3, <1>4

\* What is no command is not kept track of.
LEMMA ControlSent ==
    ASSUME TypeOK, NEW kind \in {"g", "qd"}, Send(kind, None)
    PROVE  InputKept /\ kd' \in KdType /\ kd'.alive = kd.alive /\ kd'.exit = kd.exit
<1>1. None \in 0..MaxCmds /\ kind \in Kinds \cup {"g", "qd"}
  BY BoundsAssumption DEF None
<1>2. /\ kd'.cur = kd.cur /\ [kind |-> kind, id |-> None] \in Input
      /\ kd' \in KdType /\ kd'.alive = kd.alive /\ kd'.exit = kd.exit
  BY <1>1, SendFields
<1>3. CASE kd'.stdin = kd.stdin
  BY <1>2, <1>3, InputSame
<1>4. CASE kd'.stdin = Append(kd.stdin, [kind |-> kind, id |-> None])
  <2>1. /\ Len(kd.stdin) \in Nat /\ Len(kd'.stdin) = Len(kd.stdin) + 1
        /\ \A i \in 1..Len(kd.stdin) : kd'.stdin[i] = kd.stdin[i]
        /\ kd'.stdin[Len(kd.stdin) + 1] = [kind |-> kind, id |-> None]
    BY <1>2, <1>4, Fields, AppendPoints
  <2>2. \A i \in 1..Len(kd'.stdin) :
          \/ i + 0 \in 1..Len(kd.stdin) /\ kd'.stdin[i] = kd.stdin[i + 0]
          \/ kd'.stdin[i].id = None /\ kd'.stdin[i].kind \in {"setup", "g", "qd"}
    <3> SUFFICES ASSUME NEW i \in 1..Len(kd'.stdin)
                 PROVE  \/ i + 0 \in 1..Len(kd.stdin) /\ kd'.stdin[i] = kd.stdin[i + 0]
                        \/ kd'.stdin[i].id = None /\ kd'.stdin[i].kind \in {"setup", "g", "qd"}
      OBVIOUS
    <3>1. CASE i \in 1..Len(kd.stdin)
      BY <2>1, <3>1
    <3>2. CASE i = Len(kd.stdin) + 1
      BY <2>1, <3>2
    <3> QED
      BY <2>1, <3>1, <3>2
  <2> QED
    BY <1>2, <2>2 DEF InputKept
<1> QED
  BY <1>1, <1>3, <1>4, SendFields

\* The orchestrator detaches: at once if disconnected, else by `qd`.
LEMMA DetachStep ==
    ASSUME IInv, Detach
    PROVE  IInv'
<1>0. TypeOK /\ LifeInv /\ NoOrphanKd
  BY DEF IInv
<1>1. /\ UNCHANGED <<proc, pending, stuck, settled, log, now, tool, stdout, breaks,
                     events, marked>>
      /\ end = "no" /\ state # "idle"
  BY DEF Detach
<1>2. Settles /\ ToolStays /\ Takes(0)
  BY <1>0, <1>1, OutputSame DEF Settles, ToolStays
<1>3. CASE state \in {"disconnected", "detaching"} \/ ~proc
  <2>1. state' = "disconnected" /\ kd' = kd /\ end' = "torn"
    BY <1>0, <1>1, <1>3 DEF Detach, LifeInv
  <2>2. TypeOK'
    BY <1>0, <1>1, <2>1 DEF TypeOK, States
  <2>3. LifeInv' /\ NoOrphanKd'
    BY <1>0, <1>1, <1>3, <2>1 DEF LifeInv, NoOrphanKd, InUse
  <2>4. InputKept
    BY <1>0, <2>1, InputSame
  <2>5. WaitInv' /\ PipeInv' /\ UsedInv' /\ BracketInv' /\ EchoInv'
    BY <1>1, <1>2, <2>4, QuietStep
  <2> QED
    BY <2>2, <2>3, <2>5 DEF IInv
<1>4. CASE ~(state \in {"disconnected", "detaching"} \/ ~proc)
  <2>1. state' = "detaching" /\ end' = "detaching" /\ Send("qd", None)
    BY <1>4 DEF Detach
  <2>2. /\ kd' \in KdType /\ kd'.alive = kd.alive /\ kd'.exit = kd.exit
    BY <1>0, <2>1, ControlSent
  <2>3. TypeOK'
    BY <1>0, <1>1, <2>1, <2>2 DEF TypeOK, States, KdType
  <2>4. LifeInv' /\ NoOrphanKd'
    BY <1>0, <1>1, <2>1, <2>2 DEF LifeInv, NoOrphanKd, InUse
  <2>5. InputKept
    BY <1>0, <2>1, ControlSent
  <2>6. WaitInv' /\ PipeInv' /\ UsedInv' /\ BracketInv' /\ EchoInv'
    BY <1>1, <1>2, <2>5, QuietStep
  <2> QED
    BY <2>3, <2>4, <2>6 DEF IInv
<1> QED
  BY <1>3, <1>4

\* A tool block goes on or ends, with a `g` to kd.exe or without.
LEMMA ToolResumesStep ==
    ASSUME IInv, ToolStays, UNCHANGED kd \/ (CanResume /\ Send("g", None)),
           tool' \in [pc : {"idle", "command", "bp", "wait", "capture"},
                      id : 0 .. MaxCmds, since : Moment],
           UNCHANGED <<state, proc, pending, stuck, settled, log, now, end, stdout,
                       breaks, events, marked>>
    PROVE  IInv'
<1>0. TypeOK /\ LifeInv /\ NoOrphanKd
  BY DEF IInv
<1>1. Settles /\ Takes(0)
  BY <1>0, OutputSame DEF Settles
<1>2. /\ InputKept /\ kd' \in KdType /\ kd'.alive = kd.alive /\ kd'.exit = kd.exit
      /\ state = "idle" => kd'.stdin = kd.stdin /\ kd'.cur = kd.cur
  <2>1. CASE UNCHANGED kd
    BY <1>0, <2>1, InputSame, Fields
  <2>2. CASE CanResume /\ Send("g", None)
    <3>1. InputKept
      BY <1>0, <2>2, ControlSent
    <3>2. kd' \in KdType /\ kd'.alive = kd.alive /\ kd'.exit = kd.exit
      BY <1>0, <2>2, ControlSent
    <3>3. state # "idle"
      BY <1>0, <2>2 DEF CanResume, LifeInv
    <3> QED
      BY <3>1, <3>2, <3>3
  <2> QED
    BY <2>1, <2>2
<1>3. TypeOK'
  BY <1>0, <1>2 DEF TypeOK, KdType
<1>4. LifeInv' /\ NoOrphanKd'
  BY <1>0, <1>2 DEF LifeInv, NoOrphanKd, InUse
<1>5. WaitInv' /\ PipeInv' /\ UsedInv' /\ BracketInv' /\ EchoInv'
  BY <1>1, <1>2, QuietStep
<1> QED
  BY <1>3, <1>4, <1>5 DEF IInv

\* The breakpoint command settled: the block waits, or ends.
LEMMA BreakOnInstalledStep ==
    ASSUME IInv, BreakOnInstalled
    PROVE  IInv'
<1>0. TypeOK
  BY DEF IInv
<1>1. /\ UNCHANGED <<state, proc, pending, stuck, settled, log, now, end, stdout,
                     breaks, events, marked>>
      /\ tool.pc = "bp" /\ settled[tool.id] # "open"
  BY DEF BreakOnInstalled
<1>2. CASE /\ settled[tool.id] = "ok" /\ (state = "broken" => CanResume)
           /\ tool' = [tool EXCEPT !.pc = "wait"]
           /\ IF state = "broken" THEN Send("g", None) ELSE UNCHANGED kd
  <2>1. /\ tool' = [tool EXCEPT !.pc = "wait"]
        /\ UNCHANGED kd \/ (CanResume /\ Send("g", None))
    BY <1>2
  <2>2. /\ tool' \in [pc : {"idle", "command", "bp", "wait", "capture"},
                      id : 0 .. MaxCmds, since : Moment]
        /\ tool'.pc = "wait" /\ tool'.id = tool.id /\ tool'.since = tool.since
    BY <1>0, <2>1 DEF TypeOK
  <2>3. ToolStays
    BY <1>1, <1>2, <2>2 DEF ToolStays
  <2> QED
    BY <1>1, <2>1, <2>2, <2>3, ToolResumesStep
<1>3. CASE tool' = NoTool /\ UNCHANGED kd
  BY <1>1, <1>3, ToolEndsStep
<1> QED
  BY <1>2, <1>3 DEF BreakOnInstalled

\* The capture of kernel_break_on settled, with a `g` or without.
LEMMA BreakOnReturnsStep ==
    ASSUME IInv, BreakOnReturns
    PROVE  IInv'
<1>1. /\ UNCHANGED <<state, proc, pending, stuck, settled, log, now, end, stdout,
                     breaks, events, marked>>
      /\ tool' = NoTool /\ settled[tool.id] # "open"
      /\ UNCHANGED kd \/ (CanResume /\ Send("g", None))
  BY DEF BreakOnReturns
<1>2. tool' \in [pc : {"idle", "command", "bp", "wait", "capture"},
                 id : 0 .. MaxCmds, since : Moment]
  BY <1>1, BoundsAssumption DEF NoTool, None, Moment, Anytime
<1>3. ToolStays
  BY <1>1 DEF ToolStays
<1> QED
  BY <1>1, <1>2, <1>3, ToolResumesStep

\* A line that is the target's own.
LEMMA TargetSpeaks ==
    ASSUME TypeOK, NEW kind \in {"text", "break", "disconnect"},
           stdout' = Append(stdout, Says(kind, Target))
    PROVE  Takes(0) /\ stdout' \in Seq(Line)
<1>1. Says(kind, Target) \in Line /\ stdout \in Seq(Line)
  BY BoundsAssumption DEF TypeOK, Says, Line, Target
<1>2. /\ stdout' \in Seq(Line) /\ Len(stdout) \in Nat /\ Len(stdout') = Len(stdout) + 1
      /\ \A i \in 1..Len(stdout) : stdout'[i] = stdout[i]
      /\ stdout'[Len(stdout) + 1] = Says(kind, Target)
  BY <1>1, AppendPoints
<1>3. Says(kind, Target).from = Target /\ Says(kind, Target).kind = kind
  BY DEF Says
<1>4. ASSUME NEW i \in 1..Len(stdout')
      PROVE  \/ i + 0 \in 1..Len(stdout) /\ stdout'[i] = stdout[i + 0]
             \/ stdout'[i].from = Target /\ stdout'[i].kind \in {"text", "break", "disconnect"}
  <2>1. CASE i \in 1..Len(stdout)
    BY <1>2, <2>1
  <2>2. CASE i = Len(stdout) + 1
    BY <1>2, <1>3, <2>2
  <2> QED
    BY <1>2, <2>1, <2>2
<1>5. \A j \in 1..Len(stdout) :
         j > 0 => j - 0 \in 1..Len(stdout') /\ stdout'[j - 0] = stdout[j]
  BY <1>2
<1> QED
  BY <1>2, <1>4, <1>5 DEF Takes

\* Two such lines.
LEMMA TargetSpeaksTwice ==
    ASSUME TypeOK, NEW k1 \in {"text", "break", "disconnect"},
           NEW k2 \in {"text", "break", "disconnect"},
           stdout' = Append(Append(stdout, Says(k1, Target)), Says(k2, Target))
    PROVE  Takes(0) /\ stdout' \in Seq(Line)
<1>1. /\ Says(k1, Target) \in Line /\ Says(k2, Target) \in Line
      /\ stdout \in Seq(Line)
  BY BoundsAssumption DEF TypeOK, Says, Line, Target
<1>2. PICK s : s = Append(stdout, Says(k1, Target))
  OBVIOUS
<1>3. /\ s \in Seq(Line) /\ Len(stdout) \in Nat /\ Len(s) = Len(stdout) + 1
      /\ \A i \in 1..Len(stdout) : s[i] = stdout[i]
      /\ s[Len(stdout) + 1] = Says(k1, Target)
  BY <1>1, <1>2, AppendPoints
<1>4. /\ stdout' \in Seq(Line) /\ Len(stdout') = Len(s) + 1
      /\ \A i \in 1..Len(s) : stdout'[i] = s[i]
      /\ stdout'[Len(s) + 1] = Says(k2, Target)
  BY <1>1, <1>2, <1>3, AppendPoints
<1>5. /\ Says(k1, Target).from = Target /\ Says(k1, Target).kind = k1
      /\ Says(k2, Target).from = Target /\ Says(k2, Target).kind = k2
  BY DEF Says
<1>6. /\ 1..Len(stdout) \subseteq 1..Len(s) /\ Len(stdout) + 1 \in 1..Len(s)
      /\ \A i \in 1..Len(stdout') : \/ i \in 1..Len(stdout)
                                     \/ i = Len(stdout) + 1 \/ i = Len(s) + 1
  BY <1>3, <1>4
<1>7. ASSUME NEW i \in 1..Len(stdout')
      PROVE  \/ i + 0 \in 1..Len(stdout) /\ stdout'[i] = stdout[i + 0]
             \/ /\ stdout'[i].from = Target
                /\ stdout'[i].kind \in {"text", "break", "disconnect"}
  <2>1. CASE i \in 1..Len(stdout)
    BY <1>3, <1>4, <1>6, <2>1
  <2>2. CASE i = Len(stdout) + 1
    BY <1>3, <1>4, <1>5, <1>6, <2>2
  <2>3. CASE i = Len(s) + 1
    BY <1>4, <1>5, <2>3
  <2> QED
    BY <1>6, <2>1, <2>2, <2>3
<1>8. \A j \in 1..Len(stdout) :
         j > 0 => j - 0 \in 1..Len(stdout') /\ stdout'[j - 0] = stdout[j]
  BY <1>3, <1>4, <1>6
<1> QED
  BY <1>4, <1>7, <1>8 DEF Takes

\* A break of the target, which is no command's output.
LEMMA TargetBreakStep ==
    ASSUME IInv, TargetBreak
    PROVE  IInv'
<1>0. TypeOK /\ LifeInv /\ NoOrphanKd
  BY DEF IInv
<1>1. /\ UNCHANGED <<state, proc, pending, stuck, settled, log, now, tool, end,
                     events, marked>>
      /\ kd.alive /\ kd' = [kd EXCEPT !.target = "broken"]
      /\ breaks < MaxBreaks /\ breaks' = breaks + 1
      /\ stdout' = Append(Append(stdout, Says("break", Target)), Says("text", Target))
  BY DEF TargetBreak
<1>2. /\ kd' \in KdType /\ kd'.alive = kd.alive /\ kd'.exit = kd.exit
      /\ kd.stdin' = kd.stdin /\ kd.cur' = kd.cur
  BY <1>0, <1>1, Fields DEF KdType
<1>3. Takes(0) /\ stdout' \in Seq(Line)
  BY <1>0, <1>1, TargetSpeaksTwice
<1>4. TypeOK'
  <2>1. breaks' \in 0..MaxBreaks
    BY <1>0, <1>1, BoundsAssumption DEF TypeOK
  <2> QED
    BY <1>0, <1>1, <1>2, <1>3, <2>1 DEF TypeOK, KdType
<1>5. LifeInv' /\ NoOrphanKd'
  BY <1>0, <1>1, <1>2 DEF LifeInv, NoOrphanKd, InUse
<1>6. InputKept /\ Settles /\ ToolStays
  BY <1>0, <1>1, <1>2, InputSame DEF Settles, ToolStays
<1>7. WaitInv' /\ PipeInv' /\ UsedInv' /\ BracketInv' /\ EchoInv'
  BY <1>1, <1>3, <1>6, QuietStep
<1> QED
  BY <1>4, <1>5, <1>7 DEF IInv

\* The target is lost: what kd.exe was at is not finished.
LEMMA TargetLostStep ==
    ASSUME IInv, TargetLost
    PROVE  IInv'
<1>0. TypeOK /\ LifeInv /\ NoOrphanKd
  BY DEF IInv
<1>1. /\ UNCHANGED <<state, proc, pending, stuck, settled, log, now, tool, end,
                     breaks, marked>>
      /\ kd.alive /\ kd' = [kd EXCEPT !.target = "gone", !.cur = NoInput]
      /\ events < MaxEvents /\ events' = events + 1
      /\ stdout' = Append(stdout, Says("disconnect", Target))
  BY DEF TargetLost, Event
<1>2. /\ kd' \in KdType /\ kd'.alive = kd.alive /\ kd'.exit = kd.exit
      /\ kd.stdin' = kd.stdin /\ kd.cur' = NoInput
  <2>1. NoInput \in Input
    BY BoundsAssumption DEF NoInput, Input, None
  <2> QED
    BY <1>0, <1>1, <2>1, Fields DEF KdType
<1>3. Takes(0) /\ stdout' \in Seq(Line)
  BY <1>0, <1>1, TargetSpeaks
<1>4. TypeOK'
  <2>1. events' \in 0..MaxEvents
    BY <1>0, <1>1, BoundsAssumption DEF TypeOK
  <2> QED
    BY <1>0, <1>1, <1>2, <1>3, <2>1 DEF TypeOK, KdType
<1>5. LifeInv' /\ NoOrphanKd'
  BY <1>0, <1>1, <1>2 DEF LifeInv, NoOrphanKd, InUse
<1>6. InputKept /\ Settles /\ ToolStays
  BY <1>0, <1>1, <1>2, InputSame DEF Settles, ToolStays
<1>7. WaitInv' /\ PipeInv' /\ UsedInv' /\ BracketInv' /\ EchoInv'
  BY <1>1, <1>3, <1>6, QuietStep
<1> QED
  BY <1>4, <1>5, <1>7 DEF IInv

\* The session starts with empty pipes.
LEMMA StartStep ==
    ASSUME IInv, Start
    PROVE  IInv'
<1>0. TypeOK /\ LifeInv /\ NoOrphanKd
  BY DEF IInv
<1>1. /\ UNCHANGED <<pending, stuck, settled, log, now, tool, end, stdout, breaks,
                     marked>>
      /\ state = "idle" /\ end = "no" /\ state' = "running" /\ proc' = TRUE
  BY DEF Start
<1>2. kd.stdin = <<>> /\ kd.cur = NoInput /\ kd.exit = "no" /\ kd.alive = FALSE
  BY <1>0, <1>1, Fields DEF LifeInv
<1>3. Settles /\ ToolStays /\ Takes(0)
  BY <1>0, <1>1, OutputSame DEF Settles, ToolStays
<1>4. CASE /\ kd' = [kd EXCEPT !.alive = TRUE,
                               !.stdin = Startup]
           /\ UNCHANGED events
  <2>1. [kind |-> "setup", id |-> None] \in Input /\ [kind |-> "g", id |-> None] \in Input
    BY BoundsAssumption DEF Input, None
  <2>2. /\ Startup \in Seq(Input) /\ Len(Startup) = 2
        /\ Startup[1] = [kind |-> "setup", id |-> None]
        /\ Startup[2] = [kind |-> "g", id |-> None]
    BY <2>1 DEF Startup
  <2>3. /\ kd' \in KdType /\ kd'.alive = TRUE /\ kd'.exit = "no"
        /\ kd'.cur = kd.cur /\ kd'.stdin = Startup
    BY <1>0, <1>2, <1>4, <2>2, Fields DEF KdType
  <2>4. InputKept
    <3>1. \A i \in 1..Len(kd'.stdin) :
            kd'.stdin[i].id = None /\ kd'.stdin[i].kind \in {"setup", "g", "qd"}
      <4>0. kd'.stdin = Startup /\ Len(Startup) = 2
        BY <2>2, <2>3
      <4>2. \A i \in 1..2 : i = 1 \/ i = 2
        OBVIOUS
      <4>1. \A i \in 1..Len(kd'.stdin) : i = 1 \/ i = 2
        <5>1. Len(kd'.stdin) = 2
          BY <4>0, Zenon
        <5> QED
          BY <4>2, <5>1, Zenon
      <4> QED
        BY <2>2, <2>3, <4>1
    <3> QED
      BY <2>3, <3>1 DEF InputKept
  <2>5. TypeOK'
    BY <1>0, <1>1, <1>4, <2>3 DEF TypeOK, KdType, States
  <2>6. LifeInv' /\ NoOrphanKd'
    BY <1>1, <2>3 DEF LifeInv, NoOrphanKd
  <2>7. WaitInv' /\ PipeInv' /\ UsedInv' /\ BracketInv' /\ EchoInv'
    BY <1>1, <1>3, <2>4, QuietStep
  <2> QED
    BY <2>5, <2>6, <2>7 DEF IInv
<1>5. CASE kd' = [kd EXCEPT !.exit = "error"] /\ Event
  <2>1. /\ kd' \in KdType /\ kd'.alive = FALSE
        /\ kd'.cur = kd.cur /\ kd'.stdin = kd.stdin
    BY <1>0, <1>2, <1>5, Fields DEF KdType
  <2>2. events' \in 0..MaxEvents
    BY <1>0, <1>5, BoundsAssumption DEF TypeOK, Event
  <2>3. TypeOK'
    BY <1>0, <1>1, <2>1, <2>2 DEF TypeOK, KdType, States
  <2>4. LifeInv' /\ NoOrphanKd'
    BY <1>1, <2>1 DEF LifeInv, NoOrphanKd
  <2>5. InputKept
    BY <1>0, <2>1, InputSame
  <2>6. WaitInv' /\ PipeInv' /\ UsedInv' /\ BracketInv' /\ EchoInv'
    BY <1>1, <1>3, <2>5, QuietStep
  <2> QED
    BY <2>3, <2>4, <2>6 DEF IInv
<1> QED
  BY <1>4, <1>5 DEF Start

\* The line that a handler takes, and what is left.
LEMMA LineTaken ==
    ASSUME TypeOK, stdout # <<>>, stdout' = Tail(stdout)
    PROVE  /\ Takes(1) /\ Taken /\ stdout' \in Seq(Line)
           /\ Head(stdout) = stdout[1] /\ Head(stdout) \in Line
           /\ 1 \in 1..Len(stdout)
<1>1. stdout \in Seq(Line)
  BY DEF TypeOK
<1>2. /\ Head(stdout) = stdout[1] /\ Head(stdout) \in Line /\ stdout' \in Seq(Line)
      /\ Len(stdout) \in Nat \ {0} /\ Len(stdout') = Len(stdout) - 1
      /\ \A i \in 1..Len(stdout') : stdout'[i] = stdout[i + 1]
  BY <1>1, TailPoints
<1>3. \A i \in 1..Len(stdout') : i + 1 \in 1..Len(stdout) /\ stdout'[i] = stdout[i + 1]
  BY <1>2
<1>4. ASSUME NEW j \in 1..Len(stdout), j > 1
      PROVE  j - 1 \in 1..Len(stdout') /\ stdout'[j - 1] = stdout[j]
  <2>1. j - 1 \in 1..Len(stdout') /\ (j - 1) + 1 = j
    BY <1>2, <1>4
  <2> QED
    BY <1>2, <2>1
<1>5. Takes(1)
  BY <1>3, <1>4 DEF Takes
<1>6. Taken
  BY <1>5 DEF Taken
<1> QED
  BY <1>2, <1>5, <1>6

\* What a handler of a line leaves alone.
LineFrame ==
    /\ stdout # <<>> /\ stdout' = Tail(stdout)
    /\ UNCHANGED <<now, proc, tool, end, kd, breaks, events>>

\* A line's command is abroad: its promise is open or it was given up.
LEMMA LineIsOfOneAbroad ==
    ASSUME TypeOK, WaitInv, UsedInv, NEW i \in 1..Len(stdout)
    PROVE  \/ stdout[i].from = None
           \/ stdout[i].from \in Cmds /\ stdout[i].from = pending.id
           \/ stdout[i].from \in GivenUp
<1>1. SUFFICES ASSUME stdout[i].from # None
               PROVE  \/ stdout[i].from \in Cmds /\ stdout[i].from = pending.id
                      \/ stdout[i].from \in GivenUp
  OBVIOUS
<1>2. stdout[i].from \in Cmds
  BY <1>1, Entries, BoundsAssumption DEF Cmds, None
<1>3. Abroad(stdout[i].from)
  BY DEF Abroad
<1>4. settled[stdout[i].from] \in {"open", "timeout", "error"}
  BY <1>2, <1>3 DEF UsedInv, TypeOK
<1> QED
  BY <1>2, <1>4 DEF WaitInv, GivenUp

\* A sentinel: its own command resolves, and nothing more comes of it.
LEMMA HandleSentinelStep ==
    ASSUME IInv, LineFrame, HandleSentinel(Head(stdout))
    PROVE  IInv'
<1>0. TypeOK /\ LifeInv /\ WaitInv /\ PipeInv /\ UsedInv /\ BracketInv /\ EchoInv
      /\ NoOrphanKd
  BY DEF IInv
<1>1. /\ UNCHANGED <<proc, tool, end, kd, breaks, events, state, stuck, log, now, marked>>
      /\ stdout # <<>> /\ stdout' = Tail(stdout)
      /\ Head(stdout).kind = "sentinel"
  BY DEF LineFrame, HandleSentinel
<1>2. /\ Takes(1) /\ Taken /\ stdout' \in Seq(Line)
      /\ Head(stdout) = stdout[1] /\ 1 \in 1..Len(stdout)
  BY <1>0, <1>1, LineTaken
<1>3. InputKept /\ ToolStays
  BY <1>0, <1>1, InputSame DEF ToolStays
<1>4. LifeInv' /\ NoOrphanKd'
  BY <1>0, <1>1 DEF LifeInv, NoOrphanKd, InUse
<1>5. CASE ~Resolves(Head(stdout))
  <2>1. UNCHANGED <<pending, settled>>
    BY <1>5 DEF HandleSentinel
  <2>2. TypeOK'
    BY <1>0, <1>1, <1>2, <2>1 DEF TypeOK
  <2>3. Settles
    BY <2>1 DEF Settles
  <2>4. WaitInv' /\ PipeInv' /\ UsedInv' /\ BracketInv' /\ EchoInv'
    BY <1>1, <1>2, <1>3, <2>3, KeptStep
  <2> QED
    BY <1>4, <2>2, <2>4 DEF IInv
<1>6. CASE Resolves(Head(stdout))
  <2>1. /\ pending' = NoPending /\ settled' = [settled EXCEPT ![pending.id] = "ok"]
    BY <1>6 DEF HandleSentinel
  <2>2. /\ pending.id \in Cmds /\ pending.id # None /\ stdout[1].from = pending.id
        /\ stdout[1].kind = "sentinel"
    BY <1>0, <1>1, <1>2, <1>6, Fields DEF Resolves, Cmds, None
  <2>3. settled \in [Cmds -> Outcomes]
    BY <1>0 DEF TypeOK, Outcomes
  <2>4. settled' \in [Cmds -> Outcomes]
    BY <2>1, <2>3 DEF Outcomes
  <2>5. \A c \in Cmds : settled'[c] = IF c = pending.id THEN "ok" ELSE settled[c]
    BY <2>1, <2>2, <2>3
  <2>6. /\ pending' \in [id : 0 .. MaxCmds, out : SUBSET (0 .. MaxCmds)]
        /\ pending'.id = None /\ pending'.out = {}
    BY <2>1, BoundsAssumption DEF NoPending, None
  <2>7. TypeOK'
    BY <1>0, <1>1, <1>2, <2>4, <2>6 DEF TypeOK, Outcomes
  <2>8. settled[pending.id] = "open"
    BY <1>0, <2>2 DEF WaitInv
  <2>9. WaitInv'
    <3>1. \A c \in Cmds : settled'[c] = "open" <=> pending'.id = c
      <4>1. \A c \in Cmds : settled'[c] # "open"
        BY <1>0, <2>5 DEF WaitInv
      <4>2. \A c \in Cmds : c # None
        BY DEF Cmds, None
      <4> QED
        BY <2>6, <4>1, <4>2
    <3>2. tool'.pc # "idle" => tool'.id \in Cmds /\ settled'[tool'.id] # "unused"
      BY <1>0, <1>1, <2>5 DEF WaitInv
    <3>3. tool'.pc = "wait" => settled'[tool'.id] = "ok"
      BY <1>0, <1>1, <2>5, <3>2 DEF WaitInv
    <3> QED
      BY <2>6, <3>1, <3>2, <3>3 DEF WaitInv
  <2>10. PipeInv'
    BY <1>0, <1>2, <1>3, PipeShrinks
  <2>11. UsedInv'
    <3>1. ASSUME NEW c \in Cmds, c = pending.id PROVE ~Abroad(c)'
      <4>1. \A i \in 1..Len(stdout') : stdout'[i].from # pending.id
        <5> SUFFICES ASSUME NEW i \in 1..Len(stdout')
                     PROVE  stdout'[i].from # pending.id
          OBVIOUS
        <5>1. \/ stdout'[i].from = Target
              \/ i + 1 \in 1..Len(stdout) /\ stdout'[i] = stdout[i + 1]
          BY <1>2 DEF Takes
        <5>2. CASE stdout'[i].from = Target
          BY <2>2, <5>2 DEF Target, None
        <5>3. CASE i + 1 \in 1..Len(stdout) /\ stdout'[i] = stdout[i + 1]
          <6>1. 1 < i + 1
            OBVIOUS
          <6>2. stdout[i + 1].from # stdout[1].from
            BY <1>0, <1>2, <2>2, <5>3, <6>1 DEF PipeInv, PipeClosed
          <6> QED
            BY <2>2, <5>3, <6>2
        <5> QED
          BY <5>1, <5>2, <5>3
      <4>2. kd.cur.id # pending.id
        BY <1>0, <1>2, <2>2 DEF PipeInv, PipeClosed
      <4>3. \A i \in 1..Len(kd.stdin) : kd.stdin[i].id # pending.id
        BY <1>0, <1>2, <2>2 DEF PipeInv, PipeOnce
      <4> QED
        BY <1>1, <3>1, <4>1, <4>2, <4>3 DEF Abroad
    <3>2. \A c \in Cmds : settled'[c] \in {"unused", "ok"} => ~Abroad(c)'
      BY <1>0, <1>2, <1>3, <2>5, <3>1, AbroadShrinks DEF UsedInv
    <3>3. ASSUME NEW c \in Cmds, settled'[c] = "unused"
          PROVE  c \notin pending'.out /\ \A i \in 1..Len(log') : log'[i].from # c
      BY <1>0, <1>1, <2>5, <2>6, <3>3 DEF UsedInv
    <3>4. \A i \in 1..Len(log') : log'[i].at <= now'
      BY <1>0, <1>1 DEF UsedInv
    <3> QED
      BY <3>2, <3>3, <3>4 DEF UsedInv
  <2>12. BracketInv'
    BY <2>6 DEF BracketInv
  <2>13. EchoInv'
    <3>1. GivenUp \subseteq GivenUp'
      BY <2>5, <2>8 DEF GivenUp
    <3> QED
      BY <1>0, <1>1, <1>2, <1>3, <3>1, EchoKept
  <2> QED
    BY <1>4, <2>7, <2>9, <2>10, <2>11, <2>12, <2>13 DEF IInv
<1> QED
  BY <1>5, <1>6

\* A break line: what is logged is the target's or of a command given up,
\* because the block's own command echoes none.
LEMMA HandleBreakStep ==
    ASSUME IInv, LineFrame, HandleBreak(Head(stdout))
    PROVE  IInv'
<1>0. TypeOK /\ LifeInv /\ WaitInv /\ PipeInv /\ UsedInv /\ BracketInv /\ EchoInv
      /\ NoOrphanKd
  BY DEF IInv
<1>1. /\ UNCHANGED <<now, proc, tool, end, kd, breaks, events, pending, stuck,
                     settled>>
      /\ stdout # <<>> /\ stdout' = Tail(stdout)
      /\ Head(stdout).kind = "break" /\ state' = "broken"
      /\ marked' = (marked /\ ~InUse)
  BY DEF LineFrame, HandleBreak
<1>2. /\ Takes(1) /\ Taken /\ stdout' \in Seq(Line)
      /\ Head(stdout) = stdout[1] /\ 1 \in 1..Len(stdout)
  BY <1>0, <1>1, LineTaken
<1>3. InputKept /\ ToolStays /\ Settles
  BY <1>0, <1>1, InputSame DEF ToolStays, Settles
<1>4. LifeInv' /\ NoOrphanKd'
  <2>1. LifeInv'
    BY <1>0, <1>1 DEF LifeInv
  <2>2. NoOrphanKd'
    BY <1>0, <1>1 DEF NoOrphanKd, InUse
  <2> QED
    BY <2>1, <2>2
<1>5. /\ log' \in Seq(LogEntry) /\ Len(log) \in Nat
      /\ Len(log') \in {Len(log), Len(log) + 1}
      /\ \A i \in 1..Len(log) : log'[i] = log[i]
      /\ \A i \in 1..Len(log') :
           \/ i \in 1..Len(log) /\ log'[i] = log[i]
           \/ /\ i = Len(log) + 1 /\ log'[i].at = now
              /\ log'[i].from = stdout[1].from
  <2>0. log \in Seq(LogEntry) /\ stdout[1].from \in 0..MaxCmds /\ now \in Nat
    BY <1>0, <1>2, Entries, Fields DEF TypeOK
  <2>4. [from |-> stdout[1].from, at |-> now] \in LogEntry
    BY <2>0 DEF LogEntry
  <2>1. PICK x \in LogEntry : x = [from |-> stdout[1].from, at |-> now]
    BY <2>4
  <2>5. x.from = stdout[1].from /\ x.at = now
    BY <2>1
  <2>2. CASE log' = log
    BY <2>0, <2>2
  <2>3. CASE log' = Append(log, x)
    <3>1. /\ log' \in Seq(LogEntry) /\ Len(log) \in Nat
          /\ Len(log') = Len(log) + 1
          /\ \A i \in 1..Len(log) : log'[i] = log[i]
          /\ log'[Len(log) + 1] = x
      BY <2>0, <2>1, <2>3, AppendPoints
    <3>2. \A i \in 1..Len(log') : i \in 1..Len(log) \/ i = Len(log) + 1
      BY <3>1
    <3> QED
      BY <2>5, <3>1, <3>2
  <2> QED
    BY <1>2, <2>1, <2>2, <2>3 DEF HandleBreak
<1>6. TypeOK'
  BY <1>0, <1>1, <1>2, <1>5 DEF TypeOK, States
<1>7. WaitInv'
  BY <1>0, <1>3, WaitKept
<1>8. PipeInv'
  BY <1>0, <1>2, <1>3, PipeShrinks
<1>9. UsedInv'
  <2>1. \A c \in Cmds : settled'[c] \in {"unused", "ok"} => ~Abroad(c)'
    BY <1>0, <1>1, <1>2, <1>3, AbroadShrinks DEF UsedInv
  <2>2. ASSUME NEW c \in Cmds, settled'[c] = "unused"
        PROVE  c \notin pending'.out /\ \A i \in 1..Len(log') : log'[i].from # c
    <3>1. stdout[1].from # c
      BY <1>0, <1>1, <1>2, <2>2 DEF UsedInv, Abroad
    <3> QED
      BY <1>0, <1>1, <1>5, <2>2, <3>1 DEF UsedInv
  <2>3. \A i \in 1..Len(log') : log'[i].at <= now'
    BY <1>0, <1>1, <1>5, Fields DEF UsedInv
  <2> QED
    BY <2>1, <2>2, <2>3 DEF UsedInv
<1>10. BracketInv'
  BY <1>0, <1>1, <1>2, <1>3, BracketKept
<1>11. EchoInv'
  <2>0. SUFFICES ASSUME tool'.pc \in {"bp", "wait", "capture"}
                 PROVE  EchoInv'
    BY DEF EchoInv
  <2>1. /\ tool.pc \in {"bp", "wait", "capture"} /\ tool.id # Target
        /\ GivenUp' = GivenUp
    BY <1>0, <1>1, <2>0 DEF WaitInv, Cmds, Target, GivenUp
  <2>2. /\ \A i \in 1..Len(kd.stdin') :
             kd.stdin'[i].id = tool'.id => kd.stdin'[i].kind # "analyze"
        /\ kd.cur'.id = tool'.id => kd.cur'.kind # "analyze"
    BY <1>0, <1>1, <2>1 DEF EchoInv
  <2>3. \A i \in 1..Len(stdout') :
          stdout'[i].from = tool'.id => stdout'[i].kind # "break"
    BY <1>0, <1>1, <1>2, <2>1 DEF EchoInv, Takes
  <2>4. /\ tool.since.pos \in Nat /\ tool.since.pos <= Len(log)
        /\ tool'.since = tool.since
    BY <1>0, <1>1, <2>1, Fields DEF EchoInv
  <2>5. tool'.since.pos <= Len(log')
    BY <1>5, <2>4
  <2>6. stdout[1].from = Target \/ stdout[1].from \in GivenUp
    <3>1. stdout[1].from # tool.id
      BY <1>0, <1>1, <1>2, <2>1 DEF EchoInv
    <3>2. stdout[1].from # pending.id \/ stdout[1].from = None
      BY <1>0, <3>1 DEF WaitInv
    <3> QED
      BY <1>0, <1>2, <3>2, LineIsOfOneAbroad DEF Target, None
  <2>7. ASSUME NEW i \in 1..Len(log'), i > tool'.since.pos
        PROVE  log'[i].from = Target \/ log'[i].from \in GivenUp'
    BY <1>0, <1>5, <2>1, <2>4, <2>6, <2>7 DEF EchoInv
  <2>8. ASSUME NEW i \in 1..Len(log'), i <= tool'.since.pos
        PROVE  log'[i].at <= tool'.since.ms
    <3>1. i \in 1..Len(log) /\ log'[i] = log[i]
      BY <1>5, <2>4, <2>8
    <3> QED
      BY <1>0, <2>1, <2>4, <2>8, <3>1 DEF EchoInv
  <2> QED
    BY <2>2, <2>3, <2>5, <2>7, <2>8 DEF EchoInv
<1> QED
  BY <1>4, <1>6, <1>7, <1>8, <1>9, <1>10, <1>11 DEF IInv

\* A disconnect line: the pending command is rejected, and marked is set.
LEMMA HandleDisconnectStep ==
    ASSUME IInv, LineFrame, HandleDisconnect(Head(stdout))
    PROVE  IInv'
<1>0. TypeOK /\ LifeInv /\ NoOrphanKd
  BY DEF IInv
<1>1. /\ UNCHANGED <<proc, tool, end, kd, breaks, events, log, now>>
      /\ stdout # <<>> /\ stdout' = Tail(stdout)
      /\ state' = "disconnected" /\ marked' = (marked \/ InUse)
      /\ pending' = NoPending /\ stuck' = FALSE
      /\ settled' = IF pending.id = None THEN settled
                    ELSE [settled EXCEPT ![pending.id] = "error"]
  BY DEF LineFrame, HandleDisconnect, RejectPending
<1>2. Takes(1) /\ stdout' \in Seq(Line)
  BY <1>0, <1>1, LineTaken
<1>3. InputKept /\ ToolStays
  BY <1>0, <1>1, InputSame DEF ToolStays
<1>4. /\ Settles /\ pending' \in [id : 0 .. MaxCmds, out : SUBSET (0 .. MaxCmds)]
      /\ settled' \in [Cmds -> Outcomes]
  BY <1>0, <1>1, GivingUp
<1>5. LifeInv'
  BY <1>0, <1>1 DEF LifeInv, InUse
<1>6. NoOrphanKd'
  BY <1>0, <1>1 DEF NoOrphanKd
<1>7. TypeOK'
  <2>1. marked' \in BOOLEAN
    BY <1>1
  <2> QED
    BY <1>0, <1>1, <1>2, <1>4, <2>1 DEF TypeOK, Outcomes, States
<1>8. WaitInv' /\ PipeInv' /\ UsedInv' /\ BracketInv' /\ EchoInv'
  BY <1>1, <1>2, <1>3, <1>4, KeptStep
<1> QED
  BY <1>5, <1>6, <1>7, <1>8 DEF IInv

\* A line of text: from the pending command, or from one given up.
LEMMA HandleTextStep ==
    ASSUME IInv, LineFrame, HandleText(Head(stdout))
    PROVE  IInv'
<1>0. TypeOK /\ LifeInv /\ WaitInv /\ PipeInv /\ UsedInv /\ BracketInv /\ EchoInv
      /\ NoOrphanKd
  BY DEF IInv
<1>1. /\ UNCHANGED <<proc, tool, end, kd, breaks, events, state, settled, log, now, stuck,
                     marked>>
      /\ stdout # <<>> /\ stdout' = Tail(stdout)
      /\ Head(stdout).kind = "text"
  BY DEF LineFrame, HandleText
<1>2. /\ Takes(1) /\ Taken /\ stdout' \in Seq(Line)
      /\ Head(stdout) = stdout[1] /\ 1 \in 1..Len(stdout)
  BY <1>0, <1>1, LineTaken
<1>3. InputKept /\ ToolStays
  BY <1>0, <1>1, InputSame DEF ToolStays
<1>4. LifeInv' /\ NoOrphanKd'
  BY <1>0, <1>1 DEF LifeInv, NoOrphanKd, InUse
<1>5. CASE pending.id = None
  <2>1. pending' = pending
    BY <1>5 DEF HandleText
  <2>2. TypeOK'
    BY <1>0, <1>1, <1>2, <2>1 DEF TypeOK
  <2>3. Settles
    BY <1>1, <2>1 DEF Settles
  <2>4. WaitInv' /\ PipeInv' /\ UsedInv' /\ EchoInv'
    <3>1. GivenUp \subseteq GivenUp'
      BY <1>1 DEF GivenUp
    <3> QED
      BY <1>0, <1>1, <1>2, <1>3, <2>3, <3>1, WaitKept, PipeShrinks, UsedKept,
         EchoKept
  <2>5. BracketInv'
    BY <1>5, <2>1 DEF BracketInv
  <2> QED
    BY <1>4, <2>2, <2>4, <2>5 DEF IInv
<1>6. CASE pending.id # None
  <2>1. pending' = [pending EXCEPT !.out = pending.out \cup {stdout[1].from}]
    BY <1>2, <1>6 DEF HandleText
  <2>2. /\ stdout[1].from \in 0..MaxCmds /\ stdout[1].kind = "text"
        /\ \/ stdout[1].from = Target \/ stdout[1].from = pending.id
           \/ stdout[1].from \in GivenUp
    BY <1>0, <1>1, <1>2, Entries, LineIsOfOneAbroad DEF Target, None
  <2>3. /\ pending' \in [id : 0 .. MaxCmds, out : SUBSET (0 .. MaxCmds)]
        /\ pending'.id = pending.id
        /\ pending'.out = pending.out \cup {stdout[1].from}
    BY <1>0, <2>1, <2>2 DEF TypeOK
  <2>4. TypeOK'
    BY <1>0, <1>1, <1>2, <2>3 DEF TypeOK
  <2>5. WaitInv'
    BY <1>0, <1>1, <2>3 DEF WaitInv
  <2>6. PipeInv'
    BY <1>0, <1>2, <1>3, PipeShrinks
  <2>7. UsedInv'
    <3>1. \A c \in Cmds : settled'[c] \in {"unused", "ok"} => ~Abroad(c)'
      BY <1>0, <1>1, <1>2, <1>3, AbroadShrinks DEF UsedInv
    <3>2. ASSUME NEW c \in Cmds, settled'[c] = "unused"
          PROVE  c \notin pending'.out /\ \A i \in 1..Len(log') : log'[i].from # c
      <4>1. stdout[1].from # c
        BY <1>0, <1>1, <1>2, <3>2 DEF UsedInv, Abroad
      <4> QED
        BY <1>0, <1>1, <2>3, <3>2, <4>1 DEF UsedInv
    <3>3. \A i \in 1..Len(log') : log'[i].at <= now'
      BY <1>0, <1>1 DEF UsedInv
    <3> QED
      BY <3>1, <3>2, <3>3 DEF UsedInv
  <2>8. BracketInv'
    <3>0. GivenUp' = GivenUp
      BY <1>1 DEF GivenUp
    <3>1. pending'.out \ {pending'.id, Target} \subseteq GivenUp'
      BY <1>0, <1>6, <2>2, <2>3, <3>0 DEF BracketInv
    <3>2. CASE stdout[1].from = pending.id
      BY <2>3, <3>1, <3>2 DEF BracketInv
    <3>3. CASE stdout[1].from # pending.id
      <4>1. ASSUME pending'.id \notin pending'.out
            PROVE  pending.id \notin pending.out
        BY <2>3, <4>1
      <4>2. ASSUME NEW j \in 1..Len(stdout), stdout[j] = Says("text", pending.id)
            PROVE  /\ j - 1 \in 1..Len(stdout')
                   /\ stdout'[j - 1] = Says("text", pending'.id)
        <5>1. j # 1
          BY <3>3, <4>2 DEF Says
        <5>2. j > 1
          BY <5>1
        <5> QED
          BY <1>2, <2>3, <4>2, <5>2 DEF Takes
      <4>3. ASSUME pending'.id \notin pending'.out, kd.cur'.id = pending'.id
            PROVE  \E j \in 1..Len(stdout') : stdout'[j] = Says("text", pending'.id)
        <5>1. PICK j \in 1..Len(stdout) : stdout[j] = Says("text", pending.id)
          BY <1>0, <1>1, <1>6, <2>3, <4>1, <4>3 DEF BracketInv
        <5> QED
          BY <4>2, <5>1
      <4>4. ASSUME pending'.id \notin pending'.out, NEW i \in 1..Len(stdout'),
                   stdout'[i] = Says("sentinel", pending'.id)
            PROVE  \E j \in 1..Len(stdout') :
                     j < i /\ stdout'[j] = Says("text", pending'.id)
        <5>1. stdout'[i].kind = "sentinel"
          BY <4>4 DEF Says
        <5>2. i + 1 \in 1..Len(stdout) /\ stdout[i + 1] = Says("sentinel", pending.id)
          BY <1>2, <2>3, <4>4, <5>1 DEF Takes
        <5>3. PICK j \in 1..Len(stdout) :
                j < i + 1 /\ stdout[j] = Says("text", pending.id)
          BY <1>0, <1>6, <4>1, <4>4, <5>2 DEF BracketInv
        <5>4. j - 1 < i
          BY <5>3
        <5> QED
          BY <4>2, <5>3, <5>4
      <4> QED
        BY <3>1, <4>3, <4>4 DEF BracketInv, Says
    <3> QED
      BY <3>2, <3>3
  <2>9. EchoInv'
    <3>1. GivenUp \subseteq GivenUp'
      BY <1>1 DEF GivenUp
    <3> QED
      BY <1>0, <1>1, <1>2, <1>3, <3>1, EchoKept
  <2> QED
    BY <1>4, <2>4, <2>5, <2>6, <2>7, <2>8, <2>9 DEF IInv
<1> QED
  BY <1>5, <1>6

\* The handler of a line of output.
LEMMA HandleLineStep ==
    ASSUME IInv, HandleLine
    PROVE  IInv'
<1>1. LineFrame
  BY DEF HandleLine, LineFrame
<1>2. \/ HandleSentinel(Head(stdout)) \/ HandleBreak(Head(stdout))
      \/ HandleDisconnect(Head(stdout)) \/ HandleText(Head(stdout))
  BY DEF HandleLine
<1> QED
  BY <1>1, <1>2, HandleSentinelStep, HandleBreakStep, HandleDisconnectStep,
     HandleTextStep

\* Among numbers there is a least one: the next command is one not used yet.
LEMMA LeastNumber ==
    ASSUME NEW T, T \subseteq Nat, T # {}
    PROVE  \E x \in T : \A y \in T : x <= y
<1> DEFINE R == {ss \in Nat \X Nat : ss[1] < ss[2]}
<1>1. IsWellFoundedOn(R, Nat)
  BY NatLessThanWellFounded DEF OpToRel
<1>2. PICK x \in T : \A y \in T : <<y, x>> \notin R
  <2> HIDE DEF R
  <2> QED
    BY <1>1, WFMin
<1>3. ASSUME NEW y \in T PROVE x <= y
  <2>1. <<y, x>> \notin R /\ <<y, x>> \in Nat \X Nat
    BY <1>2
  <2>2. ~(y < x)
    BY <2>1
  <2> QED
    BY <2>2
<1> QED
  BY <1>3

\* Nothing of the command that run takes is on its way.
LEMMA NewCmdIsUnused ==
    ASSUME TypeOK, UsedInv, Unused # {}
    PROVE  /\ NewCmd \in Cmds /\ NewCmd # None /\ NewCmd \in 0..MaxCmds
           /\ settled[NewCmd] = "unused" /\ ~Abroad(NewCmd)
<1>1. Unused \subseteq Nat /\ Unused \subseteq Cmds
  BY DEF Unused, Cmds
<1>2. \E c \in Unused : \A d \in Unused : c <= d
  BY <1>1, LeastNumber
<1>3. NewCmd \in Unused
  BY <1>2 DEF NewCmd
<1>4. NewCmd \in Cmds /\ settled[NewCmd] = "unused"
  BY <1>3 DEF Unused
<1>5. NewCmd # None /\ NewCmd \in 0..MaxCmds
  BY <1>4, BoundsAssumption DEF Cmds, None
<1> QED
  BY <1>4, <1>5 DEF UsedInv

\* A command is issued by a tool block that waits for none.
LEMMA RunStep ==
    ASSUME IInv, NEW kind \in Kinds, NEW pc \in {"command", "bp", "capture"},
           NEW since \in Moment, pending.id = None, RunCommand(kind, pc, since),
           UNCHANGED <<state, proc, log, now, end, stdout, breaks, events, marked>>,
           pc # "command" =>
             /\ kind = "plain" /\ since.pos <= Len(log)
             /\ \A i \in 1..Len(log) :
                  /\ i > since.pos => log[i].from = Target \/ log[i].from \in GivenUp
                  /\ i <= since.pos => log[i].at <= since.ms
    PROVE  IInv'
<1>0. TypeOK /\ LifeInv /\ WaitInv /\ PipeInv /\ UsedInv /\ BracketInv /\ EchoInv
      /\ NoOrphanKd
  BY DEF IInv
<1>1. PICK n \in Cmds : n = NewCmd /\ n # None /\ n \in 0..MaxCmds
                        /\ settled[n] = "unused" /\ ~Abroad(n)
  BY <1>0, NewCmdIsUnused DEF RunCommand
<1>2. settled \in [Cmds -> Outcomes]
  BY <1>0 DEF TypeOK, Outcomes
<1>3. /\ tool' = [pc |-> pc, id |-> n, since |-> since]
      /\ tool'.pc = pc /\ tool'.id = n /\ tool'.since = since
  BY <1>1 DEF RunCommand
<1>4. \E v \in {"error", "open"} :
        /\ settled' = [settled EXCEPT ![n] = v] /\ stuck' \in BOOLEAN
        /\ \/ v = "error" /\ pending' = pending /\ kd' = kd
           \/ v = "open" /\ pending' = [id |-> n, out |-> {}] /\ proc /\ Send(kind, n)
  <2>1. CASE Refuses
    BY <1>0, <1>1, <2>1 DEF RunCommand, TypeOK
  <2>2. CASE ~Refuses
    <3>1. proc /\ stuck \in BOOLEAN
      BY <1>0, <2>2 DEF Refuses, TypeOK
    <3>2. CASE /\ settled' = [settled EXCEPT ![NewCmd] = "open"]
               /\ pending' = [id |-> NewCmd, out |-> {}]
               /\ Send(kind, NewCmd) /\ UNCHANGED stuck
      BY <1>1, <3>1, <3>2
    <3>3. CASE /\ settled' = [settled EXCEPT ![NewCmd] = "error"]
               /\ stuck' = TRUE /\ UNCHANGED <<pending, kd>>
      BY <1>1, <3>3
    <3> QED
      BY <2>2, <3>2, <3>3 DEF RunCommand
  <2> QED
    BY <2>1, <2>2
<1>5. PICK v \in {"error", "open"} :
        /\ settled' = [settled EXCEPT ![n] = v] /\ stuck' \in BOOLEAN
        /\ \/ v = "error" /\ pending' = pending /\ kd' = kd
           \/ v = "open" /\ pending' = [id |-> n, out |-> {}] /\ proc /\ Send(kind, n)
  BY <1>4
<1>6. /\ settled' \in [Cmds -> Outcomes]
      /\ \A c \in Cmds : settled'[c] = IF c = n THEN v ELSE settled[c]
  BY <1>2, <1>5 DEF Outcomes
<1>7. /\ pending' \in [id : 0 .. MaxCmds, out : SUBSET (0 .. MaxCmds)]
      /\ \/ v = "error" /\ pending' = pending
         \/ v = "open" /\ pending'.id = n /\ pending'.out = {}
  BY <1>0, <1>1, <1>5 DEF TypeOK
<1>8. /\ kd' \in KdType /\ kd'.alive = kd.alive /\ kd'.exit = kd.exit
      /\ kd'.cur = kd.cur /\ (~proc => kd' = kd)
      /\ \/ kd'.stdin = kd.stdin
         \/ kd'.stdin = Append(kd.stdin, [kind |-> kind, id |-> n])
      /\ [kind |-> kind, id |-> n] \in Input
  <2>1. [kind |-> kind, id |-> n] \in Input
    BY <1>1 DEF Input
  <2>2. CASE kd' = kd
    BY <1>0, <2>1, <2>2, Fields
  <2>3. CASE proc /\ Send(kind, n)
    BY <1>0, <1>1, <2>1, <2>3, SendFields
  <2> QED
    BY <1>5, <2>2, <2>3
<1>9. \A i \in 1..Len(kd'.stdin) :
        \/ i \in 1..Len(kd.stdin) /\ kd'.stdin[i] = kd.stdin[i]
        \/ i = Len(kd.stdin) + 1 /\ kd'.stdin[i].id = n /\ kd'.stdin[i].kind = kind
  <2>1. CASE kd'.stdin = kd.stdin
    BY <2>1
  <2>2. CASE kd'.stdin = Append(kd.stdin, [kind |-> kind, id |-> n])
    <3>1. /\ Len(kd.stdin) \in Nat /\ Len(kd'.stdin) = Len(kd.stdin) + 1
          /\ \A i \in 1..Len(kd.stdin) : kd'.stdin[i] = kd.stdin[i]
          /\ kd'.stdin[Len(kd.stdin) + 1] = [kind |-> kind, id |-> n]
      BY <1>0, <1>8, <2>2, Fields, AppendPoints
    <3>2. \A i \in 1..Len(kd'.stdin) : i \in 1..Len(kd.stdin) \/ i = Len(kd.stdin) + 1
      BY <3>1
    <3> QED
      BY <3>1, <3>2
  <2> QED
    BY <1>8, <2>1, <2>2
<1>10. /\ \A i \in 1..Len(kd.stdin) : kd.stdin[i].id # n
       /\ kd.cur.id # n
       /\ \A i \in 1..Len(stdout) : stdout[i].from # n
  BY <1>1 DEF Abroad
<1>11. TypeOK'
  <2>1. tool' \in [pc : {"idle", "command", "bp", "wait", "capture"},
                   id : 0 .. MaxCmds, since : Moment]
    BY <1>1, <1>3
  <2> QED
    BY <1>0, <1>5, <1>6, <1>7, <1>8, <2>1 DEF TypeOK, Outcomes, KdType
<1>12. LifeInv' /\ NoOrphanKd'
  <2>1. LifeInv'
    BY <1>0, <1>8 DEF LifeInv, InUse
  <2>2. NoOrphanKd'
    BY <1>0, <1>8 DEF NoOrphanKd
  <2> QED
    BY <2>1, <2>2
<1>13. WaitInv'
  <2>1. \A c \in Cmds : settled'[c] = "open" <=> pending'.id = c
    <3>1. \A c \in Cmds : settled[c] = "open" <=> pending.id = c
      BY <1>0 DEF WaitInv
    <3>2. \A c \in Cmds : c # None
      BY DEF Cmds, None
    <3> QED
      BY <1>6, <1>7, <3>1, <3>2
  <2>2. pending'.id # None =>
          tool'.id = pending'.id /\ tool'.pc \in {"command", "bp", "capture"}
    BY <1>3, <1>7
  <2>3. tool'.id \in Cmds /\ settled'[tool'.id] # "unused" /\ tool'.pc # "wait"
    BY <1>3, <1>6
  <2> QED
    BY <2>1, <2>2, <2>3 DEF WaitInv
<1>14. PipeInv'
  <2>1. PipeShape'
    <3>1. \A i \in 1..Len(kd'.stdin) :
            /\ kd'.stdin[i].kind # "none"
            /\ kd'.stdin[i].kind \in Kinds <=> kd'.stdin[i].id # None
      BY <1>0, <1>1, <1>9 DEF PipeInv, PipeShape, Kinds
    <3> QED
      BY <1>0, <1>8, <3>1 DEF PipeInv, PipeShape
  <2>2. PipeOnce'
    <3>1. ASSUME NEW i \in 1..Len(kd'.stdin), NEW j \in 1..Len(kd'.stdin),
                 kd'.stdin[i].id = kd'.stdin[j].id, kd'.stdin[i].id # None
          PROVE  i = j
      BY <1>0, <1>9, <1>10, <3>1 DEF PipeInv, PipeOnce
    <3>2. ASSUME NEW i \in 1..Len(kd'.stdin), kd'.stdin[i].id # None
          PROVE  kd'.cur.id # kd'.stdin[i].id
      BY <1>0, <1>8, <1>9, <1>10, <3>2 DEF PipeInv, PipeOnce
    <3>3. ASSUME NEW i \in 1..Len(kd'.stdin), NEW j \in 1..Len(stdout),
                 kd'.stdin[i].id # None
          PROVE  stdout[j].from # kd'.stdin[i].id
      BY <1>0, <1>9, <1>10, <3>3 DEF PipeInv, PipeOnce
    <3> QED
      BY <3>1, <3>2, <3>3 DEF PipeOnce
  <2>3. PipeClosed'
    BY <1>0, <1>8 DEF PipeInv, PipeClosed
  <2> QED
    BY <2>1, <2>2, <2>3 DEF PipeInv
<1>15. UsedInv'
  <2>1. ASSUME NEW c \in Cmds, settled'[c] \in {"unused", "ok"}
        PROVE  ~Abroad(c)' /\ settled[c] = settled'[c]
    <3>1. c # n /\ settled[c] = settled'[c]
      BY <1>6, <2>1
    <3>2. ~Abroad(c)
      BY <1>0, <2>1, <3>1 DEF UsedInv
    <3> QED
      BY <1>8, <1>9, <3>1, <3>2 DEF Abroad
  <2>2. ASSUME NEW c \in Cmds, settled'[c] = "unused"
        PROVE  c \notin pending'.out /\ \A i \in 1..Len(log') : log'[i].from # c
    BY <1>0, <1>7, <2>1, <2>2 DEF UsedInv
  <2>3. \A i \in 1..Len(log') : log'[i].at <= now'
    BY <1>0 DEF UsedInv
  <2> QED
    BY <2>1, <2>2, <2>3 DEF UsedInv
<1>16. BracketInv'
  <2>0. SUFFICES ASSUME pending'.id # None
                 PROVE  BracketInv'
    BY DEF BracketInv
  <2>1. pending'.id = n /\ pending'.out = {} /\ kd'.cur.id # n
    BY <1>7, <1>8, <1>10, <2>0
  <2>2. \A i \in 1..Len(stdout') : stdout'[i] # Says("sentinel", n)
    BY <1>10 DEF Says
  <2> QED
    BY <2>1, <2>2 DEF BracketInv, Says
<1>17. EchoInv'
  <2>0. SUFFICES ASSUME tool'.pc \in {"bp", "wait", "capture"}
                 PROVE  EchoInv'
    BY DEF EchoInv
  <2>1. /\ kind = "plain" /\ since.pos <= Len(log)
        /\ \A i \in 1..Len(log) :
             /\ i > since.pos => log[i].from = Target \/ log[i].from \in GivenUp
             /\ i <= since.pos => log[i].at <= since.ms
    BY <1>3, <2>0
  <2>2. GivenUp \subseteq GivenUp'
    BY <1>1, <1>6 DEF GivenUp
  <2>3. \A i \in 1..Len(kd'.stdin) :
          kd'.stdin[i].id = tool'.id => kd'.stdin[i].kind # "analyze"
    BY <1>3, <1>9, <1>10, <2>1
  <2>4. kd'.cur.id # tool'.id /\ \A i \in 1..Len(stdout') : stdout'[i].from # tool'.id
    BY <1>3, <1>8, <1>10
  <2>5. /\ tool'.since.pos <= Len(log')
        /\ \A i \in 1..Len(log') :
             /\ i > tool'.since.pos =>
                  log'[i].from = Target \/ log'[i].from \in GivenUp'
             /\ i <= tool'.since.pos => log'[i].at <= tool'.since.ms
    BY <1>3, <2>1, <2>2
  <2> QED
    BY <2>3, <2>4, <2>5 DEF EchoInv
<1> QED
  BY <1>11, <1>12, <1>13, <1>14, <1>15, <1>16, <1>17 DEF IInv

\* A capture of kernel_expect_bugcheck issues a command.
LEMMA CaptureStep ==
    ASSUME IInv, Capture
    PROVE  IInv'
<1>1. PICK kind \in Kinds : RunCommand(kind, "command", Anytime)
  BY DEF Capture
<1>2. /\ UNCHANGED <<state, proc, log, now, end, stdout, breaks, events, marked>>
      /\ tool.pc = "idle"
  BY DEF Capture
<1>3. pending.id = None
  BY <1>2 DEF IInv, WaitInv
<1>4. Anytime \in Moment
  BY DEF Anytime, Moment
<1> QED
  BY <1>1, <1>2, <1>3, <1>4, RunStep

\* kernel_break_on issues its breakpoint, at the log's present end.
LEMMA BreakOnStep ==
    ASSUME IInv, BreakOn
    PROVE  IInv'
<1>1. /\ UNCHANGED <<state, proc, log, now, end, stdout, breaks, events, marked>>
      /\ tool.pc = "idle"
      /\ RunCommand("plain", "bp", [ms |-> now, pos |-> Len(log)])
  BY DEF BreakOn
<1>2. pending.id = None /\ "plain" \in Kinds
  BY <1>1 DEF IInv, WaitInv, Kinds
<1>3. TypeOK /\ UsedInv
  BY DEF IInv
<1>4. Len(log) \in Nat /\ now \in Nat
  BY <1>3, Entries, Fields
<1>7. [ms |-> now, pos |-> Len(log)] \in Moment
  BY <1>4 DEF Moment
<1>5. PICK since \in Moment : since = [ms |-> now, pos |-> Len(log)]
  BY <1>7
<1>8. since.ms = now /\ since.pos = Len(log)
  BY <1>5
<1>6. /\ since.pos <= Len(log)
      /\ \A i \in 1..Len(log) :
           /\ i > since.pos => log[i].from = Target \/ log[i].from \in GivenUp
           /\ i <= since.pos => log[i].at <= since.ms
  BY <1>3, <1>4, <1>8 DEF UsedInv
<1> QED
  BY <1>1, <1>2, <1>5, <1>6, RunStep

\* kernel_break_on issues its capture.
LEMMA BreakOnMatchedStep ==
    ASSUME IInv, BreakOnMatched
    PROVE  IInv'
<1>1. /\ UNCHANGED <<state, proc, log, now, end, stdout, breaks, events, marked>>
      /\ tool.pc = "wait" /\ RunCommand("plain", "capture", tool.since)
  BY DEF BreakOnMatched
<1>2. pending.id = None /\ "plain" \in Kinds
  BY <1>1 DEF IInv, WaitInv, Kinds
<1>3. tool.since \in Moment
  BY Fields DEF IInv
<1>4. /\ tool.since.pos <= Len(log)
      /\ \A i \in 1..Len(log) :
           /\ i > tool.since.pos => log[i].from = Target \/ log[i].from \in GivenUp
           /\ i <= tool.since.pos => log[i].at <= tool.since.ms
  BY <1>1 DEF IInv, EchoInv
<1> QED
  BY <1>1, <1>2, <1>3, <1>4, RunStep

\* What kd.exe takes from its input.
LEMMA InputTaken ==
    ASSUME TypeOK, kd.stdin # <<>>
    PROVE  /\ Tail(kd.stdin) \in Seq(Input) /\ 1 \in 1..Len(kd.stdin)
           /\ Head(kd.stdin) = kd.stdin[1] /\ Head(kd.stdin) \in Input
           /\ \A i \in 1..Len(Tail(kd.stdin)) :
                i + 1 \in 1..Len(kd.stdin) /\ Tail(kd.stdin)[i] = kd.stdin[i + 1]
<1>1. kd.stdin \in Seq(Input)
  BY Fields
<1> HIDE DEF Input
<1> QED
  BY <1>1, TailPoints

\* kd.exe takes a line: `g`, `qd`, or a command, whose text comes first.
LEMMA KdReadsStep ==
    ASSUME IInv, KdReads
    PROVE  IInv'
<1> DEFINE in == Head(kd.stdin)
<1>0. TypeOK /\ LifeInv /\ WaitInv /\ PipeInv /\ UsedInv /\ BracketInv /\ EchoInv
      /\ NoOrphanKd
  BY DEF IInv
<1>1. /\ UNCHANGED <<state, proc, pending, stuck, settled, log, now, tool, end,
                     breaks, events, marked>>
      /\ kd.alive /\ kd.cur = NoInput /\ kd.stdin # <<>>
  BY DEF KdReads
<1>2. /\ Tail(kd.stdin) \in Seq(Input) /\ 1 \in 1..Len(kd.stdin)
      /\ in = kd.stdin[1] /\ in \in Input
      /\ \A i \in 1..Len(Tail(kd.stdin)) :
           i + 1 \in 1..Len(kd.stdin) /\ Tail(kd.stdin)[i] = kd.stdin[i + 1]
  BY <1>0, <1>1, InputTaken
<1>3. Settles /\ ToolStays
  BY <1>1 DEF Settles, ToolStays
<1>4. state # "idle"
  BY <1>0, <1>1 DEF LifeInv
<1>5. CASE in.kind = "g"
  <2>1. /\ kd' = [[kd EXCEPT !.stdin = Tail(kd.stdin)] EXCEPT !.target = "running"]
        /\ stdout' = stdout
    BY <1>5 DEF KdReads
  <2>2. /\ kd' \in KdType /\ kd'.alive = kd.alive /\ kd'.exit = kd.exit
        /\ kd'.stdin = Tail(kd.stdin) /\ kd'.cur = kd.cur
    BY <1>0, <1>2, <2>1, Fields DEF KdType
  <2>3. InputKept
    BY <1>2, <2>2 DEF InputKept
  <2>4. TypeOK'
    BY <1>0, <1>1, <2>1, <2>2 DEF TypeOK, KdType
  <2>5. LifeInv' /\ NoOrphanKd'
    BY <1>0, <1>1, <1>4, <2>2 DEF LifeInv, NoOrphanKd, InUse
  <2>6. WaitInv' /\ PipeInv' /\ UsedInv' /\ BracketInv' /\ EchoInv'
    BY <1>0, <1>1, <1>3, <2>1, <2>3, OutputSame, QuietStep
  <2> QED
    BY <2>4, <2>5, <2>6 DEF IInv
<1>6. CASE in.kind = "qd"
  <2>1. kd' = Killed /\ stdout' = stdout
    BY <1>6 DEF KdReads
  <2>2. kd' \in KdType /\ kd'.alive = FALSE
    BY <1>0, <2>1, KilledFields
  <2>3. InputKept
    BY <1>0, <2>1, InputKilled
  <2>4. TypeOK'
    BY <1>0, <1>1, <2>1, <2>2 DEF TypeOK, KdType
  <2>5. LifeInv' /\ NoOrphanKd'
    BY <1>0, <1>1, <1>4, <2>2 DEF LifeInv, NoOrphanKd, InUse
  <2>6. WaitInv' /\ PipeInv' /\ UsedInv' /\ BracketInv' /\ EchoInv'
    BY <1>0, <1>1, <1>3, <2>1, <2>3, OutputSame, QuietStep
  <2> QED
    BY <2>4, <2>5, <2>6 DEF IInv
<1>8. CASE in.kind = "setup"
  <2>1. /\ kd' = [kd EXCEPT !.stdin = Tail(kd.stdin)]
        /\ stdout' = Append(stdout, Says("text", Target))
    BY <1>8 DEF KdReads
  <2>2. /\ kd' \in KdType /\ kd'.alive = kd.alive /\ kd'.exit = kd.exit
        /\ kd'.stdin = Tail(kd.stdin) /\ kd'.cur = kd.cur
    BY <1>0, <1>2, <2>1, Fields DEF KdType
  <2>3. InputKept
    BY <1>2, <2>2 DEF InputKept
  <2>4. Takes(0) /\ stdout' \in Seq(Line)
    BY <1>0, <2>1, TargetSpeaks
  <2>5. TypeOK'
    BY <1>0, <1>1, <2>2, <2>4 DEF TypeOK, KdType
  <2>6. LifeInv' /\ NoOrphanKd'
    BY <1>0, <1>1, <1>4, <2>2 DEF LifeInv, NoOrphanKd, InUse
  <2>7. WaitInv' /\ PipeInv' /\ UsedInv' /\ BracketInv' /\ EchoInv'
    BY <1>1, <1>3, <2>3, <2>4, QuietStep
  <2> QED
    BY <2>5, <2>6, <2>7 DEF IInv
<1>7. CASE in.kind # "g" /\ in.kind # "qd" /\ in.kind # "setup"
  <2>1. /\ kd' = [[kd EXCEPT !.stdin = Tail(kd.stdin)] EXCEPT !.cur = in]
        /\ stdout' = (stdout \o <<Says("text", in.id)>>) \o
                       (IF in.kind = "analyze" THEN <<Says("break", in.id)>> ELSE <<>>)
    BY <1>7 DEF KdReads
  <2>2. /\ kd' \in KdType /\ kd'.alive = kd.alive /\ kd'.exit = kd.exit
        /\ kd'.stdin = Tail(kd.stdin) /\ kd'.cur = in
    BY <1>0, <1>2, <2>1, Fields DEF KdType
  <2>3. PICK c \in Cmds : c = in.id /\ c # None /\ c \in 0..MaxCmds
    <3>1. in.id \in 0..MaxCmds /\ in.kind \in Kinds \cup {"setup", "g", "qd", "none"}
      BY <1>0, <1>2, Entries
    <3>2. in.id # None
      BY <1>0, <1>2, <1>7, <3>1 DEF PipeInv, PipeShape
    <3> QED
      BY <3>1, <3>2, BoundsAssumption DEF Cmds, None
  <2>4. in.kind \in Kinds
    BY <1>0, <1>2, <2>3 DEF PipeInv, PipeShape
  <2>5. /\ stdout' \in Seq(Line) /\ Len(stdout) \in Nat
        /\ Len(stdout') \in {Len(stdout) + 1, Len(stdout) + 2}
        /\ \A i \in 1..Len(stdout) : stdout'[i] = stdout[i]
        /\ stdout'[Len(stdout) + 1] = Says("text", c)
        /\ \A i \in 1..Len(stdout') :
             \/ i \in 1..Len(stdout)
             \/ i = Len(stdout) + 1
             \/ stdout'[i] = Says("break", c) /\ in.kind = "analyze"
    <3>1. Says("text", c) \in Line /\ Says("break", c) \in Line /\ stdout \in Seq(Line)
      BY <1>0, <2>3 DEF TypeOK, Says, Line
    <3> DEFINE s == stdout \o <<Says("text", c)>>
    <3>2. /\ s \in Seq(Line) /\ Len(stdout) \in Nat /\ Len(s) = Len(stdout) + 1
          /\ \A i \in 1..Len(stdout) : s[i] = stdout[i]
          /\ s[Len(stdout) + 1] = Says("text", c)
      BY <3>1
    <3>3. \A i \in 1..Len(s) : i \in 1..Len(stdout) \/ i = Len(stdout) + 1
      BY <3>2
    <3>4. CASE in.kind = "analyze"
      <4>1. stdout' = s \o <<Says("break", c)>>
        BY <2>1, <2>3, <3>4
      <4> HIDE DEF s
      <4>2. /\ stdout' \in Seq(Line) /\ Len(stdout') = Len(s) + 1
            /\ \A i \in 1..Len(s) : stdout'[i] = s[i]
            /\ stdout'[Len(s) + 1] = Says("break", c)
        BY <3>1, <3>2, <4>1
      <4>3. \A i \in 1..Len(stdout') : i \in 1..Len(s) \/ i = Len(s) + 1
        BY <3>2, <4>2
      <4>4. 1..Len(stdout) \subseteq 1..Len(s) /\ Len(stdout) + 1 \in 1..Len(s)
        BY <3>2
      <4> QED
        BY <3>2, <3>3, <3>4, <4>2, <4>3, <4>4
    <3>5. CASE in.kind # "analyze"
      <4>1. stdout' = s \o <<>>
        BY <2>1, <2>3, <3>5
      <4> HIDE DEF s
      <4>2. stdout' = s
        BY <3>2, <4>1
      <4> QED
        BY <3>2, <3>3, <4>2
    <3> QED
      BY <3>4, <3>5
  <2>6. \A i \in 1..Len(stdout') :
          \/ i \in 1..Len(stdout) /\ stdout'[i] = stdout[i]
          \/ /\ stdout'[i].from = c /\ i > Len(stdout)
             /\ \/ stdout'[i].kind = "text"
                \/ stdout'[i].kind = "break" /\ in.kind = "analyze"
    BY <2>5 DEF Says
  <2>7. /\ \A i \in 1..Len(stdout) : stdout[i].from # c
        /\ \A i \in 1..Len(kd'.stdin) :
             /\ i + 1 \in 1..Len(kd.stdin) /\ kd'.stdin[i] = kd.stdin[i + 1]
             /\ kd'.stdin[i].id # c
    <3>1. \A i \in 1..Len(stdout) : stdout[i].from # c
      BY <1>0, <1>2, <2>3 DEF PipeInv, PipeOnce
    <3>2. ASSUME NEW i \in 1..Len(kd'.stdin)
          PROVE  /\ i + 1 \in 1..Len(kd.stdin) /\ kd'.stdin[i] = kd.stdin[i + 1]
                 /\ kd'.stdin[i].id # c
      <4>1. i + 1 \in 1..Len(kd.stdin) /\ kd'.stdin[i] = kd.stdin[i + 1] /\ i + 1 # 1
        BY <1>2, <2>2
      <4>2. kd.stdin[i + 1].id # kd.stdin[1].id
        BY <1>0, <1>2, <2>3, <4>1 DEF PipeInv, PipeOnce
      <4> QED
        BY <1>2, <2>3, <4>1, <4>2
    <3> QED
      BY <3>1, <3>2
  <2> HIDE DEF in
  <2>8. TypeOK'
    BY <1>0, <1>1, <2>2, <2>5 DEF TypeOK, KdType
  <2>9. LifeInv' /\ NoOrphanKd'
    BY <1>0, <1>1, <1>4, <2>2 DEF LifeInv, NoOrphanKd, InUse
  <2>10. WaitInv'
    BY <1>0, <1>3, WaitKept
  <2>11. PipeInv'
    <3>1. PipeShape'
      <4>1. \A i \in 1..Len(kd'.stdin) :
              /\ kd'.stdin[i].kind # "none"
              /\ kd'.stdin[i].kind \in Kinds <=> kd'.stdin[i].id # None
        BY <1>0, <2>7 DEF PipeInv, PipeShape
      <4>2. \A i \in 1..Len(stdout') :
              stdout'[i].kind = "sentinel" => stdout'[i].from # None
        BY <1>0, <2>3, <2>6 DEF PipeInv, PipeShape
      <4> QED
        BY <2>2, <2>3, <2>4, <4>1, <4>2 DEF PipeShape
    <3>2. PipeOnce'
      <4>1. ASSUME NEW i \in 1..Len(kd'.stdin), NEW j \in 1..Len(kd'.stdin),
                   kd'.stdin[i].id = kd'.stdin[j].id, kd'.stdin[i].id # None
            PROVE  i = j
        <5>1. i + 1 = j + 1
          BY <1>0, <2>7, <4>1 DEF PipeInv, PipeOnce
        <5> QED
          BY <5>1
      <4>2. ASSUME NEW i \in 1..Len(kd'.stdin), NEW j \in 1..Len(stdout'),
                   kd'.stdin[i].id # None
            PROVE  stdout'[j].from # kd'.stdin[i].id
        <5>1. CASE j \in 1..Len(stdout) /\ stdout'[j] = stdout[j]
          <6>1. i + 1 \in 1..Len(kd.stdin) /\ kd.stdin[i + 1].id # None
            BY <2>7, <4>2
          <6>2. stdout[j].from # kd.stdin[i + 1].id
            BY <1>0, <5>1, <6>1 DEF PipeInv, PipeOnce
          <6> QED
            BY <2>7, <5>1, <6>2
        <5>2. CASE stdout'[j].from = c
          BY <2>7, <5>2
        <5> QED
          BY <2>6, <5>1, <5>2
      <4> QED
        BY <2>2, <2>3, <2>7, <4>1, <4>2 DEF PipeOnce
    <3>3. PipeClosed'
      <4>1. ASSUME NEW i \in 1..Len(stdout'), stdout'[i].kind = "sentinel"
            PROVE  i \in 1..Len(stdout) /\ stdout'[i] = stdout[i] /\ stdout'[i].from # c
        BY <2>6, <2>7, <4>1
      <4>2. ASSUME NEW i \in 1..Len(stdout'), NEW j \in 1..Len(stdout'),
                   stdout'[i].kind = "sentinel", i < j
            PROVE  stdout'[j].from # stdout'[i].from
        <5>1. CASE j \in 1..Len(stdout) /\ stdout'[j] = stdout[j]
          BY <1>0, <4>1, <4>2, <5>1 DEF PipeInv, PipeClosed
        <5>2. CASE stdout'[j].from = c
          BY <4>1, <4>2, <5>2
        <5> QED
          BY <2>6, <5>1, <5>2
      <4> QED
        BY <2>2, <2>3, <4>1, <4>2 DEF PipeClosed
    <3> QED
      BY <3>1, <3>2, <3>3 DEF PipeInv
  <2>12. Abroad(c)
    BY <1>2, <2>3 DEF Abroad, in
  <2>13. UsedInv'
    <3>1. ASSUME NEW d \in Cmds, settled'[d] \in {"unused", "ok"}
          PROVE  ~Abroad(d)'
      <4>1. d # c /\ ~Abroad(d)
        BY <1>0, <1>1, <2>12, <3>1 DEF UsedInv
      <4> QED
        BY <2>2, <2>3, <2>6, <2>7, <4>1 DEF Abroad
    <3> QED
      BY <1>0, <1>1, <3>1 DEF UsedInv
  <2>14. BracketInv'
    <3>0. SUFFICES ASSUME pending.id # None
                   PROVE  BracketInv'
      BY <1>1 DEF BracketInv
    <3>1. pending'.out \ {pending'.id, Target} \subseteq GivenUp'
      BY <1>0, <1>1, <3>0 DEF BracketInv, GivenUp
    <3>2. ASSUME kd'.cur.id = pending.id
          PROVE  \E j \in 1..Len(stdout') : stdout'[j] = Says("text", pending.id)
      <4>1. Len(stdout) + 1 \in 1..Len(stdout')
        BY <2>5
      <4> QED
        BY <2>2, <2>3, <2>5, <3>2, <4>1
    <3>3. ASSUME pending.id \notin pending.out, NEW i \in 1..Len(stdout'),
                 stdout'[i] = Says("sentinel", pending.id)
          PROVE  \E j \in 1..Len(stdout') :
                   j < i /\ stdout'[j] = Says("text", pending.id)
      <4>1. stdout'[i].kind = "sentinel"
        BY <3>3 DEF Says
      <4>2. i \in 1..Len(stdout) /\ stdout[i] = Says("sentinel", pending.id)
        BY <2>6, <3>3, <4>1
      <4>3. PICK j \in 1..Len(stdout) : j < i /\ stdout[j] = Says("text", pending.id)
        BY <1>0, <3>0, <3>3, <4>2 DEF BracketInv
      <4>4. j \in 1..Len(stdout')
        BY <2>5
      <4> QED
        BY <2>5, <4>3, <4>4
    <3> QED
      BY <1>1, <3>1, <3>2, <3>3 DEF BracketInv, Says
  <2>15. EchoInv'
    <3>0. SUFFICES ASSUME tool.pc \in {"bp", "wait", "capture"}
                   PROVE  EchoInv'
      BY <1>1 DEF EchoInv
    <3>1. c = tool.id => in.kind # "analyze"
      BY <1>0, <1>2, <2>3, <3>0 DEF EchoInv, in
    <3>2. \A i \in 1..Len(kd'.stdin) :
            kd'.stdin[i].id = tool.id => kd'.stdin[i].kind # "analyze"
      BY <1>0, <2>7, <3>0 DEF EchoInv
    <3>3. \A i \in 1..Len(stdout') :
            stdout'[i].from = tool.id => stdout'[i].kind # "break"
      BY <1>0, <2>6, <3>0, <3>1 DEF EchoInv
    <3>4. /\ tool'.since.pos <= Len(log')
          /\ \A i \in 1..Len(log') :
               /\ i > tool'.since.pos =>
                    log'[i].from = Target \/ log'[i].from \in GivenUp'
               /\ i <= tool'.since.pos => log'[i].at <= tool'.since.ms
      BY <1>0, <1>1, <3>0 DEF EchoInv, GivenUp
    <3> QED
      BY <1>1, <2>2, <2>3, <3>1, <3>2, <3>3, <3>4 DEF EchoInv
  <2> QED
    BY <2>8, <2>9, <2>10, <2>11, <2>13, <2>14, <2>15 DEF IInv
<1> QED
  BY <1>5, <1>6, <1>7, <1>8

\* kd.exe closes the bracket: the sentinel follows the command's text.
LEMMA KdFinishesStep ==
    ASSUME IInv, KdFinishes
    PROVE  IInv'
<1>0. TypeOK /\ LifeInv /\ WaitInv /\ PipeInv /\ UsedInv /\ BracketInv /\ EchoInv
      /\ NoOrphanKd
  BY DEF IInv
<1>1. /\ UNCHANGED <<state, proc, pending, stuck, settled, log, now, tool, end,
                     breaks, events, marked>>
      /\ kd.alive /\ kd.cur # NoInput /\ kd' = [kd EXCEPT !.cur = NoInput]
      /\ stdout' = Append(stdout, Says("sentinel", kd.cur.id))
  BY DEF KdFinishes
<1>2. /\ kd' \in KdType /\ kd'.alive = kd.alive /\ kd'.exit = kd.exit
      /\ kd'.stdin = kd.stdin /\ kd'.cur = NoInput /\ kd'.cur.id = None
      /\ kd'.cur.kind = "none"
  <2>1. NoInput \in Input /\ NoInput.id = None /\ NoInput.kind = "none"
    BY BoundsAssumption DEF NoInput, Input, None
  <2> QED
    BY <1>0, <1>1, <2>1, Fields DEF KdType
<1>3. Settles /\ ToolStays /\ state # "idle"
  BY <1>0, <1>1 DEF Settles, ToolStays, LifeInv
<1>4. PICK c \in Cmds : c = kd.cur.id /\ c # None /\ c \in 0..MaxCmds
  <2>1. kd.cur.id # None /\ kd.cur.id \in 0..MaxCmds
    BY <1>0, <1>1, Fields DEF PipeInv, PipeShape
  <2> QED
    BY <2>1, BoundsAssumption DEF Cmds, None
<1>5. /\ stdout' \in Seq(Line) /\ Len(stdout) \in Nat /\ Len(stdout') = Len(stdout) + 1
      /\ \A i \in 1..Len(stdout) : stdout'[i] = stdout[i]
      /\ stdout'[Len(stdout) + 1] = Says("sentinel", c)
  <2>1. Says("sentinel", c) \in Line /\ stdout \in Seq(Line)
    BY <1>0, <1>4 DEF TypeOK, Says, Line
  <2> QED
    BY <1>1, <1>4, <2>1, AppendPoints
<1>6. \A i \in 1..Len(stdout') :
        \/ i \in 1..Len(stdout) /\ stdout'[i] = stdout[i]
        \/ /\ i = Len(stdout) + 1
           /\ stdout'[i].from = c /\ stdout'[i].kind = "sentinel"
  <2>1. \A i \in 1..Len(stdout') : i \in 1..Len(stdout) \/ i = Len(stdout) + 1
    BY <1>5
  <2>2. Says("sentinel", c).from = c /\ Says("sentinel", c).kind = "sentinel"
    BY DEF Says
  <2> QED
    BY <1>5, <2>1, <2>2
<1>7. TypeOK'
  BY <1>0, <1>1, <1>2, <1>5 DEF TypeOK, KdType
<1>8. LifeInv' /\ NoOrphanKd'
  BY <1>0, <1>1, <1>2, <1>3 DEF LifeInv, NoOrphanKd, InUse
<1>9. WaitInv'
  BY <1>0, <1>3, WaitKept
<1>10. PipeInv'
  <2>1. PipeShape'
    BY <1>0, <1>2, <1>4, <1>6 DEF PipeInv, PipeShape
  <2>2. PipeOnce'
    <3>1. ASSUME NEW i \in 1..Len(kd.stdin), NEW j \in 1..Len(stdout'),
                 kd.stdin[i].id # None
          PROVE  stdout'[j].from # kd.stdin[i].id
      <4>1. CASE j \in 1..Len(stdout) /\ stdout'[j] = stdout[j]
        BY <1>0, <3>1, <4>1 DEF PipeInv, PipeOnce
      <4>2. CASE stdout'[j].from = c
        BY <1>0, <1>4, <3>1, <4>2 DEF PipeInv, PipeOnce
      <4> QED
        BY <1>6, <4>1, <4>2
    <3> QED
      BY <1>0, <1>2, <3>1 DEF PipeInv, PipeOnce
  <2>3. PipeClosed'
    <3>1. ASSUME NEW i \in 1..Len(stdout'), stdout'[i].kind = "sentinel"
          PROVE  kd'.cur.id # stdout'[i].from
      BY <1>0, <1>2, <1>4, <1>6, <3>1 DEF PipeInv, PipeShape
    <3>2. ASSUME NEW i \in 1..Len(stdout'), NEW j \in 1..Len(stdout'),
                 stdout'[i].kind = "sentinel", i < j
          PROVE  stdout'[j].from # stdout'[i].from
      <4>1. i \in 1..Len(stdout) /\ stdout'[i] = stdout[i]
        BY <1>5, <1>6, <3>2
      <4>2. CASE j \in 1..Len(stdout) /\ stdout'[j] = stdout[j]
        BY <1>0, <3>2, <4>1, <4>2 DEF PipeInv, PipeClosed
      <4>3. CASE stdout'[j].from = c
        BY <1>0, <1>4, <3>2, <4>1, <4>3 DEF PipeInv, PipeClosed
      <4> QED
        BY <1>6, <4>2, <4>3
    <3> QED
      BY <3>1, <3>2 DEF PipeClosed
  <2> QED
    BY <2>1, <2>2, <2>3 DEF PipeInv
<1>11. UsedInv'
  <2>1. Abroad(c)
    BY <1>4 DEF Abroad
  <2>2. ASSUME NEW d \in Cmds, settled'[d] \in {"unused", "ok"}
        PROVE  ~Abroad(d)'
    <3>1. d # c /\ ~Abroad(d) /\ d # None
      BY <1>0, <1>1, <2>1, <2>2 DEF UsedInv, Cmds, None
    <3> QED
      BY <1>2, <1>6, <3>1 DEF Abroad
  <2> QED
    BY <1>0, <1>1, <2>2 DEF UsedInv
<1>12. BracketInv'
  <2>0. SUFFICES ASSUME pending.id # None
                 PROVE  BracketInv'
    BY <1>1 DEF BracketInv
  <2>1. pending'.out \ {pending'.id, Target} \subseteq GivenUp'
    BY <1>0, <1>1, <2>0 DEF BracketInv, GivenUp
  <2>2. ASSUME pending.id \notin pending.out, NEW i \in 1..Len(stdout'),
               stdout'[i] = Says("sentinel", pending.id)
        PROVE  \E j \in 1..Len(stdout') :
                 j < i /\ stdout'[j] = Says("text", pending.id)
    <3>1. CASE i \in 1..Len(stdout) /\ stdout'[i] = stdout[i]
      <4>1. PICK j \in 1..Len(stdout) : j < i /\ stdout[j] = Says("text", pending.id)
        BY <1>0, <2>0, <2>2, <3>1 DEF BracketInv
      <4>2. j \in 1..Len(stdout')
        BY <1>5
      <4> QED
        BY <1>5, <4>1, <4>2
    <3>2. CASE i = Len(stdout) + 1 /\ stdout'[i].from = c
      <4>1. c = pending.id
        BY <2>2, <3>2 DEF Says
      <4>2. PICK j \in 1..Len(stdout) : stdout[j] = Says("text", pending.id)
        BY <1>0, <1>4, <2>0, <2>2, <4>1 DEF BracketInv
      <4>3. j \in 1..Len(stdout') /\ j < i
        BY <1>5, <3>2
      <4> QED
        BY <1>5, <4>2, <4>3
    <3> QED
      BY <1>6, <3>1, <3>2
  <2> QED
    BY <1>1, <1>2, <2>0, <2>1, <2>2 DEF BracketInv, Says
<1>13. EchoInv'
  <2>0. SUFFICES ASSUME tool.pc \in {"bp", "wait", "capture"}
                 PROVE  EchoInv'
    BY <1>1 DEF EchoInv
  <2>1. \A i \in 1..Len(stdout') :
          stdout'[i].from = tool.id => stdout'[i].kind # "break"
    BY <1>0, <1>6, <2>0 DEF EchoInv
  <2>2. /\ tool'.since.pos <= Len(log')
        /\ \A i \in 1..Len(log') :
             /\ i > tool'.since.pos =>
                  log'[i].from = Target \/ log'[i].from \in GivenUp'
             /\ i <= tool'.since.pos => log'[i].at <= tool'.since.ms
    BY <1>0, <1>1, <2>0 DEF EchoInv, GivenUp
  <2> QED
    BY <1>0, <1>1, <1>2, <2>0, <2>1, <2>2 DEF EchoInv
<1> QED
  BY <1>7, <1>8, <1>9, <1>10, <1>11, <1>12, <1>13 DEF IInv

-----------------------------------------------------------------------------
(***************************************************************************)
(* The invariant is inductive, and the theorems.                           *)
(***************************************************************************)

\* The invariant holds before the session starts.
LEMMA InitIInv ==
    ASSUME Init
    PROVE  IInv
<1>1. /\ pending.id = None /\ pending.out = {} /\ tool.pc = "idle"
      /\ kd.alive = FALSE /\ kd.exit = "no" /\ kd.stdin = <<>> /\ kd.cur = NoInput
      /\ kd.cur.id = None /\ stdout = <<>> /\ log = <<>> /\ end = "no"
      /\ state = "idle" /\ proc = FALSE
      /\ \A c \in Cmds : settled[c] = "unused" /\ c # None
  BY DEF Init, NoPending, NoTool, NoInput, Cmds, None
<1>2. 1..Len(kd.stdin) = {} /\ 1..Len(stdout) = {} /\ 1..Len(log) = {}
  BY <1>1
<1>3. TypeOK
  <2>1. NoInput \in Input /\ <<>> \in Seq(Input) /\ <<>> \in Seq(Line)
        /\ <<>> \in Seq(LogEntry)
    BY BoundsAssumption DEF NoInput, Input, None
  <2>2. kd \in [alive : BOOLEAN, exit : {"no", "exit", "error"},
                target : {"running", "broken", "gone"},
                stdin : Seq(Input), cur : Input]
    BY <2>1 DEF Init
  <2>3. /\ pending \in [id : 0 .. MaxCmds, out : SUBSET (0 .. MaxCmds)]
        /\ settled \in [Cmds -> {"unused", "open", "ok", "timeout", "error"}]
        /\ tool \in [pc : {"idle", "command", "bp", "wait", "capture"},
                     id : 0 .. MaxCmds, since : Moment]
    BY BoundsAssumption DEF Init, NoPending, NoTool, None, Moment, Anytime
  <2>4. breaks \in 0..MaxBreaks /\ events \in 0..MaxEvents /\ now \in 0..MaxMs
    BY BoundsAssumption DEF Init
  <2>5. state \in States /\ proc \in BOOLEAN /\ marked \in BOOLEAN /\ stuck \in BOOLEAN
        /\ end \in {"no", "detaching", "torn", "exited"}
    BY DEF Init, States
  <2> QED
    BY <1>1, <2>1, <2>2, <2>3, <2>4, <2>5 DEF TypeOK
<1>4. LifeInv /\ NoOrphanKd
  BY <1>1 DEF LifeInv, NoOrphanKd
<1>5. WaitInv
  BY <1>1 DEF WaitInv
<1>6. PipeInv
  BY <1>1, <1>2 DEF PipeInv, PipeShape, PipeOnce, PipeClosed
<1>7. UsedInv
  BY <1>1, <1>2 DEF UsedInv, Abroad
<1>8. BracketInv /\ EchoInv
  BY <1>1 DEF BracketInv, EchoInv
<1> QED
  BY <1>3, <1>4, <1>5, <1>6, <1>7, <1>8 DEF IInv

\* It is about the variables only.
LEMMA StutterStep ==
    ASSUME IInv, UNCHANGED vars
    PROVE  IInv'
<1>1. UNCHANGED <<state, proc, pending, stuck, settled, log, now, tool, end, kd,
                  stdout, breaks, events, marked>>
  BY DEF vars
<1>2. TypeOK'
  BY <1>1 DEF IInv, TypeOK
<1>3. LifeInv' /\ NoOrphanKd'
  BY <1>1 DEF IInv, LifeInv, NoOrphanKd, InUse
<1>4. TypeOK
  BY DEF IInv
<1>5. InputKept /\ Takes(0) /\ Settles /\ ToolStays
  BY <1>1, <1>4, InputSame, OutputSame DEF Settles, ToolStays
<1>6. WaitInv' /\ PipeInv' /\ UsedInv' /\ BracketInv' /\ EchoInv'
  BY <1>1, <1>5, QuietStep
<1> QED
  BY <1>2, <1>3, <1>6 DEF IInv

\* A millisecond passes.
LEMMA TickStep ==
    ASSUME IInv, Tick
    PROVE  IInv'
<1>0. TypeOK /\ LifeInv /\ NoOrphanKd
  BY DEF IInv
<1>1. /\ UNCHANGED <<state, proc, pending, stuck, settled, log, tool, end, kd,
                     stdout, breaks, events, marked>>
      /\ now < MaxMs /\ now' = now + 1
  BY DEF Tick
<1>2. TypeOK'
  <2>1. now' \in 0..MaxMs
    BY <1>0, <1>1, BoundsAssumption DEF TypeOK
  <2> QED
    BY <1>0, <1>1, <2>1 DEF TypeOK
<1>3. LifeInv' /\ NoOrphanKd'
  BY <1>0, <1>1 DEF LifeInv, NoOrphanKd, InUse
<1>4. InputKept /\ Takes(0) /\ Settles /\ ToolStays
  BY <1>0, <1>1, InputSame, OutputSame DEF Settles, ToolStays
<1>5. WaitInv' /\ PipeInv' /\ UsedInv' /\ BracketInv' /\ EchoInv'
  BY <1>1, <1>4, QuietStep
<1> QED
  BY <1>2, <1>3, <1>5 DEF IInv

\* Every step keeps it.
LEMMA NextStep ==
    ASSUME IInv, [Next]_vars
    PROVE  IInv'
<1>1. CASE Start \/ CommandTimeout \/ Detach \/ DetachTimer \/ ForceTerminate
  BY <1>1, StartStep, CommandTimeoutStep, DetachStep, DetachTimerStep,
     ForceTerminateStep
<1>2. CASE HandleLine \/ HandleExit \/ HandleSpawnError
  BY <1>2, HandleLineStep, HandleExitStep, HandleSpawnErrorStep
<1>3. CASE Capture \/ BreakOn \/ BreakOnTimeout \/ ToolStep
  BY <1>3, CaptureStep, BreakOnStep, BreakOnTimeoutStep, CaptureReturnsStep,
     BreakOnInstalledStep, BreakOnMatchedStep, BreakOnReturnsStep DEF ToolStep
<1>4. CASE TargetBreak \/ TargetLost \/ KdReads \/ KdFinishes \/ KdDies
  BY <1>4, TargetBreakStep, TargetLostStep, KdReadsStep, KdFinishesStep,
     KdDiesStep
<1>5. CASE Tick \/ Done \/ UNCHANGED vars
  BY <1>5, TickStep, StutterStep DEF Done
<1> QED
  BY <1>1, <1>2, <1>3, <1>4, <1>5 DEF Next

\* The session, the pipes to and from kd.exe, the break log and the tool block
\* stay consistent for good: the invariant behind the theorems below.
THEOREM KdInvariant == Spec => []IInv
<1>1. Init => IInv
  BY InitIInv
<1>2. IInv /\ [Next]_vars => IInv'
  BY NextStep
<1> QED
  BY <1>1, <1>2, PTL DEF Spec

\* Type correctness of the kernel debugger session (kd-session.ts).
THEOREM KdTypeOK == Spec => []TypeOK
<1>1. IInv => TypeOK
  BY DEF IInv
<1> QED
  BY <1>1, KdInvariant, PTL

\* After detach, its timer or the exit hook no kd.exe is left, unless its last
\* word was that the target is not connected (kd-session.ts, detach and
\* forceTerminate).
THEOREM KdNoOrphan == Spec => []NoOrphanKd
<1>1. IInv => NoOrphanKd
  BY DEF IInv
<1> QED
  BY <1>1, KdInvariant, PTL

\* Only its sentinel resolves a command.
LEMMA OnlySentinelResolves ==
    ASSUME IInv, [Next]_vars, NEW c \in Cmds, settled[c] = "open", settled'[c] = "ok"
    PROVE  /\ stdout # <<>> /\ stdout' = Tail(stdout)
           /\ Head(stdout).kind = "sentinel" /\ Head(stdout).from = pending.id
           /\ pending.id = c
<1>0. TypeOK /\ WaitInv /\ UsedInv
  BY DEF IInv
<1>1. pending.id = c
  BY <1>0 DEF WaitInv
<1>2. settled \in [Cmds -> Outcomes] /\ settled' # settled /\ c # None
  <2>1. settled \in [Cmds -> Outcomes]
    BY <1>0 DEF TypeOK, Outcomes
  <2>2. c # None
    BY DEF Cmds, None
  <2> QED
    BY <2>1, <2>2
<1>3. CASE CommandTimeout
  BY <1>1, <1>2, <1>3 DEF CommandTimeout
<1>4. CASE RejectPending
  BY <1>1, <1>2, <1>4 DEF RejectPending
<1>5. CASE \E kind \in Kinds, pc \in {"command", "bp", "capture"}, since \in Moment :
             RunCommand(kind, pc, since)
  <2>1. Unused # {} /\ \E v \in {"error", "open"} : settled' = [settled EXCEPT ![NewCmd] = v]
    BY <1>5 DEF RunCommand
  <2>2. NewCmd \in Cmds
    BY <1>0, <2>1, NewCmdIsUnused
  <2> QED
    BY <1>2, <2>1, <2>2
<1>6. CASE HandleLine
  <2>1. CASE HandleSentinel(Head(stdout))
    BY <1>1, <1>2, <1>6, <2>1 DEF HandleLine, HandleSentinel, Resolves
  <2>2. CASE HandleDisconnect(Head(stdout))
    BY <1>4, <2>2 DEF HandleDisconnect
  <2>3. CASE HandleBreak(Head(stdout)) \/ HandleText(Head(stdout))
    BY <1>2, <2>3 DEF HandleBreak, HandleText
  <2> QED
    BY <1>6, <2>1, <2>2, <2>3 DEF HandleLine
<1>7. CASE HandleExit \/ HandleSpawnError
  BY <1>4, <1>7 DEF HandleExit, HandleSpawnError
<1>8. CASE Capture \/ BreakOn \/ BreakOnMatched
  <2>1. /\ "plain" \in Kinds /\ Anytime \in Moment /\ tool.since \in Moment
        /\ [ms |-> now, pos |-> Len(log)] \in Moment
    BY <1>0, Entries, Fields DEF Kinds, Moment, Anytime
  <2> QED
    BY <1>5, <1>8, <2>1 DEF Capture, BreakOn, BreakOnMatched
<1>9. CASE UNCHANGED settled
  BY <1>2, <1>9
<1>10. CASE Start \/ Detach \/ DetachTimer \/ ForceTerminate
  BY <1>9, <1>10 DEF Start, Detach, DetachTimer, ForceTerminate
<1>11. CASE BreakOnTimeout \/ CaptureReturns \/ BreakOnInstalled \/ BreakOnReturns
  BY <1>9, <1>11 DEF BreakOnTimeout, CaptureReturns, BreakOnInstalled,
     BreakOnReturns
<1>12. CASE TargetBreak \/ TargetLost \/ KdReads \/ KdFinishes \/ KdDies
  BY <1>9, <1>12 DEF TargetBreak, TargetLost, KdReads, KdFinishes, KdDies
<1>13. CASE Tick \/ Done \/ UNCHANGED vars
  BY <1>9, <1>13 DEF Tick, Done, vars
<1> QED
  BY <1>3, <1>6, <1>7, <1>8, <1>10, <1>11, <1>12, <1>13 DEF Next, ToolStep

\* Then the output it has is its own, or of commands given up.
LEMMA StepBracketed ==
    ASSUME IInv, [Next]_vars, NEW c \in Cmds, settled[c] = "open", settled'[c] = "ok"
    PROVE  /\ c \in pending.out
           /\ \A d \in pending.out \ {c, Target} : settled[d] \in {"timeout", "error"}
<1>0. TypeOK /\ BracketInv
  BY DEF IInv
<1>1. /\ stdout # <<>> /\ stdout' = Tail(stdout)
      /\ Head(stdout).kind = "sentinel" /\ Head(stdout).from = pending.id
      /\ pending.id = c /\ c # None
  BY OnlySentinelResolves DEF Cmds, None
<1>2. Head(stdout) = stdout[1] /\ Head(stdout) \in Line /\ 1 \in 1..Len(stdout)
  BY <1>0, <1>1, LineTaken
<1>3. stdout[1] = Says("sentinel", pending.id)
  BY <1>1, <1>2 DEF Line, Says
<1>4. ~ \E j \in 1..Len(stdout) : j < 1
  OBVIOUS
<1>5. c \in pending.out
  BY <1>0, <1>1, <1>2, <1>3, <1>4 DEF BracketInv
<1>6. pending.out \ {c, Target} \subseteq GivenUp
  BY <1>0, <1>1 DEF BracketInv
<1> QED
  BY <1>5, <1>6 DEF GivenUp

\* Only a match sends the capture of kernel_break_on.
LEMMA StepBreakOnReal ==
    ASSUME IInv, [Next]_vars, tool.pc = "wait", tool'.pc = "capture"
    PROVE  \A i \in 1..Len(log) : Match(i) =>
             \/ log[i].from = Target
             \/ settled[log[i].from] \in {"timeout", "error"}
             \/ i <= tool.since.pos /\ log[i].at = tool.since.ms
<1>0. TypeOK /\ EchoInv
  BY DEF IInv
<1>1. tool' # tool /\ tool' # NoTool
  BY DEF NoTool
<1>2. BreakOnMatched
  <2>1. CASE Start \/ CommandTimeout \/ Detach \/ DetachTimer \/ ForceTerminate
    BY <1>1, <2>1 DEF Start, CommandTimeout, Detach, DetachTimer, ForceTerminate
  <2>2. CASE HandleLine \/ HandleExit \/ HandleSpawnError
    BY <1>1, <2>2 DEF HandleLine, HandleExit, HandleSpawnError
  <2>3. CASE Capture \/ BreakOn \/ BreakOnTimeout
    BY <1>1, <2>3 DEF Capture, BreakOn, BreakOnTimeout
  <2>4. CASE CaptureReturns \/ BreakOnInstalled \/ BreakOnReturns
    BY <2>4 DEF CaptureReturns, BreakOnInstalled, BreakOnReturns
  <2>5. CASE TargetBreak \/ TargetLost \/ KdReads \/ KdFinishes \/ KdDies
    BY <1>1, <2>5 DEF TargetBreak, TargetLost, KdReads, KdFinishes, KdDies
  <2>6. CASE Tick \/ Done \/ UNCHANGED vars
    BY <1>1, <2>6 DEF Tick, Done, vars
  <2> QED
    BY <2>1, <2>2, <2>3, <2>4, <2>5, <2>6 DEF Next, ToolStep
<1>3. ASSUME NEW i \in 1..Len(log), Match(i)
      PROVE  \/ log[i].from = Target \/ settled[log[i].from] \in {"timeout", "error"}
             \/ i <= tool.since.pos /\ log[i].at = tool.since.ms
  <2>1. /\ log[i].at >= tool.since.ms /\ log[i].at \in Nat
        /\ tool.since.ms \in Nat /\ tool.since.pos \in Nat
    BY <1>0, <1>3, Entries, Fields DEF Match, Since
  <2>2. CASE i > tool.since.pos
    BY <1>0, <2>2 DEF EchoInv, GivenUp
  <2>3. CASE i <= tool.since.pos
    BY <1>0, <2>1, <2>3 DEF EchoInv
  <2> QED
    BY <2>1, <2>2, <2>3
<1> QED
  BY <1>3

\* A command that resolves has its own output, and besides ambient lines and
\* those of commands given up only; kernel_break_on takes for a break of the
\* target only such a break, the echo of a command given up, or an entry from
\* before its begin in the same millisecond (kd-session.ts, run and
\* handleParsedSignal; kernel-handlers.ts, handleKernelBreakOn).
THEOREM KdOutputIsItsOwn == Spec => OutputIsItsOwn
<1>1. IInv /\ [Next]_vars =>
        \A c \in Cmds :
          settled[c] = "open" /\ settled'[c] = "ok" =>
             /\ c \in pending.out
             /\ \A d \in pending.out \ {c, Target} :
                  settled[d] \in {"timeout", "error"}
  BY StepBracketed
<1>2. IInv /\ [Next]_vars =>
        (tool.pc = "wait" /\ tool'.pc = "capture" =>
          \A i \in 1 .. Len(log) : Match(i) =>
             \/ log[i].from = Target
             \/ settled[log[i].from] \in {"timeout", "error"}
             \/ i <= tool.since.pos /\ log[i].at = tool.since.ms)
  BY StepBreakOnReal
<1>3. Spec => Bracketed
  BY <1>1, KdInvariant, PTL DEF Spec, Bracketed
<1>4. Spec => BreakOnReal
  BY <1>2, KdInvariant, PTL DEF Spec, BreakOnReal
<1> QED
  BY <1>3, <1>4, PTL DEF OutputIsItsOwn
=============================================================================
