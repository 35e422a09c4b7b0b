----------------------------- MODULE SettingsProofs -----------------------------
(***************************************************************************)
(* That the settings' files are torn only by a cut or by two threads at    *)
(* once, and that the robot uses what is saved, for any algorithms, values *)
(* and numbers of requests and cuts.                                       *)
(*                                                                         *)
(* Without an early request only one thread is at the files: the main      *)
(* thread until it has reached its loop, then the Wi-Fi thread.            *)
(***************************************************************************)
EXTENDS Settings, TLAPS

\* Where a thread is, or will be when it has saved.
Label(p) == IF at[p] \in {"save", "fill"} THEN save[p].next ELSE at[p]

NameLabel == {"saveArguments", "setSelected", "setAlgorithm", "load", "loaded"}

\* What a thread knows of its job, by where it is.
JobInv ==
  \A p \in Threads :
    /\ Label(p) \in {"setPid", "sendPid"} => job[p].pid \in Values
    /\ Label(p) \in NameLabel => job[p].name \in Names
    /\ Label(p) \in {"saveArguments", "loaded"} => job[p].value \in Values

\* The Wi-Fi thread starts after the configuration file was made, and waits for the main thread
\* to be in its loop, unless a request came early.
TurnsInv ==
  /\ Label("main") \in {"off", "connect"} => at["wifi"] = "off"
  /\ Label("main") = "off" => TornFiles = tornBefore
  /\ \/ Label("main") = "off"
     \/ at["main"] = "save" /\ Label("main") = "connect" /\ save["main"].file = "config"
     \/ config # Absent
  /\ at["main"] \in {"save", "fill"} => Label("main") \notin {"loop", "off"}
  /\ ~early => at["wifi"] \in {"off", "ready"} \/ at["main"] = "loop"
  /\ ~early => \A p \in Threads : at[p] = "fill" => files[save[p].file] = Torn

\* What a file holds, or will when the thread that is saving it has done so.
Saving(p, f) == at[p] \in {"save", "fill"} /\ save[p].file = f
Disk(f) ==
  IF Saving("main", f) THEN save["main"].content
  ELSE IF Saving("wifi", f) THEN save["wifi"].content ELSE files[f]

Configured == {"sendPid", "getSelected", "setSelected", "setAlgorithm", "load", "loaded",
               "dateTime", "loop"}

\* A1 has the settings that it was sent last, or has refused them.
Follows(sent, pid) == pid \in Values /\ (sent = pid \/ pid \notin Accepted)

\* Past its first reading of the configuration the main thread has one, and A1 is told what
\* it says but for the thread that is about to tell it.
PidInv ==
  ~early /\ Label("main") \in Configured =>
    /\ Disk("config") \in Configs
    /\ \A p \in Threads : Label(p) = "sendPid" => Disk("config").pid = job[p].pid
    /\ (\A p \in Threads : Label(p) # "sendPid") =>
         Follows(a1Pid, Disk("config").pid)

Selected(p) == Disk("config").algorithm = job[p].name
Stored(p) == Disk(job[p].name) = Arguments(job[p].value)
Applied ==
  /\ algorithm.name = Disk("config").algorithm
  /\ algorithm.name \in Names /\ Disk(algorithm.name) = Arguments(algorithm.value)

\* The main thread selects, loads and assigns; so does the Wi-Fi thread at set-algorithm,
\* after it has stored the arguments.
AppliedInv ==
  ~early =>
    /\ Label("main") \in {"setAlgorithm", "load", "loaded"} => Selected("main")
    /\ Label("main") = "loaded" => Stored("main")
    /\ Label("main") = "dateTime" => Applied
    /\ Label("main") = "loop" /\ job["wifi"].kind = "setAlgorithm" =>
         /\ Label("wifi") \in {"setSelected", "setAlgorithm", "load", "loaded"} => Stored("wifi")
         /\ Label("wifi") \in {"setAlgorithm", "load", "loaded"} => Selected("wifi")
         /\ Label("wifi") = "reply" => Applied
    /\ Label("main") = "loop" /\ job["wifi"].kind # "setAlgorithm" => refused \/ Applied

KindLabels(kind) ==
  CASE kind = "none" -> {"off", "ready", "loop", "dead", "failed", "hung"}
    [] kind = "init" -> {"connect", "getPid", "sendPid", "getSelected", "setSelected",
                         "setAlgorithm", "load", "loaded", "dateTime"}
    [] kind = "getPid" -> {"getPid", "reply"}
    [] kind = "setPid" -> {"setPid", "sendPid", "reply"}
    [] kind = "setAlgorithm" -> {"saveArguments", "setSelected", "setAlgorithm", "load", "loaded",
                                 "reply"}
    [] kind = "list" -> {"load", "loaded", "reply"}

\* The way of each kind of job.
KindInv ==
  \A p \in Threads :
    /\ Label(p) \in KindLabels(job[p].kind)
    /\ job[p].kind = "init" => p = "main"
    /\ job[p].kind \notin {"init", "none"} => p = "wifi"
    /\ Label(p) \in {"ready", "reply"} => p = "wifi"
    /\ Label(p) \in {"loop", "dead", "failed", "hung"} => p = "main"
-----------------------------------------------------------------------------
(* Names, and what files hold.                                              *)

LEMMA NamesFacts ==
  /\ "config" \notin Names /\ "none" \notin Names /\ DefaultName \in Names
  /\ Algorithms \in Seq(Names) /\ Tail(Algorithms) \in Seq(Names)
  /\ Files = {"config"} \cup Names
  /\ Default \in Values /\ "none" \notin Values
<1>1. Algorithms \in Seq(STRING) /\ Algorithms # <<>>
  BY SettingsAssumption
<1>2. Len(Algorithms) \in Nat \ {0} /\ Algorithms \in [1 .. Len(Algorithms) -> STRING]
  BY <1>1
<1>3. \A i \in 1 .. Len(Algorithms) : Algorithms[i] \in Names
  BY DEF Names
<1>4. Algorithms \in Seq(Names)
  BY <1>1, <1>2, <1>3
<1>5. DefaultName \in Names
  BY <1>2, <1>3 DEF DefaultName
<1> QED
  BY <1>1, <1>4, <1>5, SettingsAssumption DEF Files

LEMMA ContentFacts ==
  /\ Torn \notin Configs /\ Torn \notin AllArguments /\ Torn # Absent /\ Torn # Outdated
  /\ Absent \notin Configs /\ Absent \notin AllArguments /\ Outdated \notin AllArguments
  /\ Empty \in Configs
BY DEF Torn, Absent, Outdated, Empty, Configs, AllArguments, Arguments

LEMMA ConfigFacts ==
  ASSUME NEW c \in Configs
  PROVE  /\ c.pid \in Values \cup {"none"} /\ c.algorithm \in Names \cup {"none"}
         /\ \A v \in Values : LET d == [c EXCEPT !.pid = v]
                              IN d \in Configs /\ d.pid = v /\ d.algorithm = c.algorithm
         /\ \A n \in Names : LET d == [c EXCEPT !.algorithm = n]
                             IN d \in Configs /\ d.algorithm = n /\ d.pid = c.pid
BY DEF Configs

LEMMA ArgumentsFacts ==
  /\ \A v \in Values : Arguments(v) \in AllArguments
  /\ \A a \in AllArguments : a.value \in Values /\ Arguments(a.value) = a
BY DEF Arguments, AllArguments

-----------------------------------------------------------------------------
(* A thread's step: it goes on, or begins to save.                          *)

Other(p) == IF p = "main" THEN "wifi" ELSE "main"
Idle(p) == at[p] \notin {"save", "fill"}

LEMMA Two == Threads = {"main", "wifi"} /\ \A p \in Threads : Other(p) \in Threads /\ Other(p) # p
BY DEF Threads, Other

LEMMA GotoStep ==
  ASSUME LifeTypeOK, NEW p \in Threads, Idle(p), NEW label \in Labels \ {"save", "fill"},
         Goto(p, label), UNCHANGED <<files, save>>
  PROVE  /\ at' \in [Threads -> Labels] /\ at'[p] = label /\ at'[Other(p)] = at[Other(p)]
         /\ Label(p)' = label /\ Label(Other(p))' = Label(Other(p))
         /\ \A f : Disk(f)' = Disk(f)
<1>1. at' \in [Threads -> Labels] /\ at'[p] = label /\ at'[Other(p)] = at[Other(p)]
  BY Two DEF Goto, LifeTypeOK, ThreadsTypeOK
<1>2. \A q \in Threads : at'[q] = at[q] \/ (at[q] \notin {"save", "fill"} /\ at'[q] \notin {"save", "fill"})
  BY <1>1, Two DEF Idle, Other
<1>3. \A f : \A q \in Threads : Saving(q, f)' = Saving(q, f)
  BY <1>2 DEF Saving
<1> QED
  BY <1>1, <1>3, Two DEF Label, Disk

LEMMA SaveStep ==
  ASSUME LifeTypeOK, NEW p \in Threads, Idle(p), NEW next \in Labels \ {"save", "fill"},
         NEW file \in Files, NEW content \in IF file = "config" THEN Configs ELSE AllArguments,
         Save(p, file, content, next), UNCHANGED files
  PROVE  /\ at' \in [Threads -> Labels] /\ at'[p] = "save" /\ at'[Other(p)] = at[Other(p)]
         /\ save' = [save EXCEPT ![p] = [file |-> file, content |-> content, next |-> next]]
         /\ save'[p] = [file |-> file, content |-> content, next |-> next]
         /\ save'[Other(p)] = save[Other(p)]
         /\ Label(p)' = next /\ Label(Other(p))' = Label(Other(p))
         /\ Idle(Other(p)) => /\ Disk(file)' = content
                              /\ \A f : f # file => Disk(f)' = Disk(f)
<1>1. at' \in [Threads -> Labels] /\ at'[p] = "save" /\ at'[Other(p)] = at[Other(p)]
  BY Two DEF Save, Goto, LifeTypeOK, ThreadsTypeOK, Labels
<1>2. /\ save' = [save EXCEPT ![p] = [file |-> file, content |-> content, next |-> next]]
      /\ save'[p] = [file |-> file, content |-> content, next |-> next]
      /\ save'[Other(p)] = save[Other(p)]
  BY Two DEF Save, LifeTypeOK, ThreadsTypeOK
<1>3. Label(p)' = next /\ Label(Other(p))' = Label(Other(p))
  BY <1>1, <1>2 DEF Label
<1>4. ASSUME Idle(Other(p)) PROVE Disk(file)' = content /\ \A f : f # file => Disk(f)' = Disk(f)
  <2>1. /\ \A f : Saving(Other(p), f)' = FALSE /\ Saving(Other(p), f) = FALSE /\ Saving(p, f) = FALSE
        /\ \A f : Saving(p, f)' = (f = file)
    BY <1>1, <1>2, <1>4 DEF Saving, Idle
  <2>2. save'[p].content = content
    BY <1>2
  <2> QED
    BY <2>1, <2>2, Two DEF Disk
<1> QED
  BY <1>1, <1>2, <1>3, <1>4

Contents(file) == IF file = "config" THEN Configs ELSE AllArguments

\* A thread goes to a label, at once or when it has saved.
Step(p, label) ==
  /\ UNCHANGED files
  /\ \/ Goto(p, label) /\ UNCHANGED save
     \/ \E file \in Files : \E content \in Contents(file) : Save(p, file, content, label)

\* A step that leaves the files alone keeps the types and the turns.
LEMMA StepThreads ==
  ASSUME LifeTypeOK, NEW p \in Threads, Idle(p), NEW label \in Labels \ {"save", "fill"},
         Step(p, label)
  PROVE  /\ at' \in [Threads -> Labels] /\ at'[Other(p)] = at[Other(p)]
         /\ at'[p] \in {label, "save"}
         /\ save' \in [Threads -> Saves] /\ save'[Other(p)] = save[Other(p)]
         /\ \A q \in Threads : at'[q] \in {"save", "fill"} => save'[q].next \in Labels \ {"save", "fill"}
         /\ Label(p)' = label /\ Label(Other(p))' = Label(Other(p))
<1>0. \A q \in Threads : q = p \/ q = Other(p)
  BY DEF Threads, Other
<1>1. CASE Goto(p, label) /\ UNCHANGED <<files, save>>
  <2>1. /\ at' \in [Threads -> Labels] /\ at'[p] = label /\ at'[Other(p)] = at[Other(p)]
        /\ Label(p)' = label /\ Label(Other(p))' = Label(Other(p))
    BY <1>1, GotoStep
  <2>2. ASSUME NEW q \in Threads, at'[q] \in {"save", "fill"}
        PROVE  save'[q].next \in Labels \ {"save", "fill"}
    <3>1. q = Other(p)
      BY <1>0, <2>1, <2>2
    <3> QED
      BY <1>1, <2>1, <2>2, <3>1, Two DEF LifeTypeOK, ThreadsTypeOK
  <2> QED
    BY <1>1, <2>1, <2>2 DEF LifeTypeOK, ThreadsTypeOK
<1>2. ASSUME NEW file \in Files, NEW content \in Contents(file), Save(p, file, content, label),
             UNCHANGED files
      PROVE  /\ at' \in [Threads -> Labels] /\ at'[Other(p)] = at[Other(p)]
             /\ at'[p] \in {label, "save"}
             /\ save' \in [Threads -> Saves] /\ save'[Other(p)] = save[Other(p)]
             /\ \A q \in Threads : at'[q] \in {"save", "fill"} => save'[q].next \in Labels \ {"save", "fill"}
             /\ Label(p)' = label /\ Label(Other(p))' = Label(Other(p))
  <2>1. content \in IF file = "config" THEN Configs ELSE AllArguments
    BY <1>2 DEF Contents
  <2>2. /\ at' \in [Threads -> Labels] /\ at'[p] = "save" /\ at'[Other(p)] = at[Other(p)]
        /\ save' = [save EXCEPT ![p] = [file |-> file, content |-> content, next |-> label]]
        /\ save'[p] = [file |-> file, content |-> content, next |-> label]
        /\ save'[Other(p)] = save[Other(p)]
        /\ Label(p)' = label /\ Label(Other(p))' = Label(Other(p))
    BY <1>2, <2>1, SaveStep
  <2>3. [file |-> file, content |-> content, next |-> label] \in Saves
    BY <2>1 DEF Saves
  <2>4. save' \in [Threads -> Saves]
    BY <2>2, <2>3 DEF LifeTypeOK, ThreadsTypeOK
  <2>5. ASSUME NEW q \in Threads, at'[q] \in {"save", "fill"}
        PROVE  save'[q].next \in Labels \ {"save", "fill"}
    <3>1. CASE q = p
      <4>1. save'[p].next = label
        BY <2>2
      <4> QED
        BY <3>1, <4>1
    <3>2. CASE q = Other(p)
      BY <2>2, <2>5, <3>2, Two DEF LifeTypeOK, ThreadsTypeOK
    <3> QED
      BY <1>0, <3>1, <3>2
  <2> QED
    BY <2>2, <2>4, <2>5
<1> QED
  BY <1>1, <1>2 DEF Step

\* What a thread must know of its job to be where it is.
Knows(p, label) ==
  /\ label \in {"setPid", "sendPid"} => job[p].pid \in Values
  /\ label \in NameLabel => job[p].name \in Names
  /\ label \in {"saveArguments", "loaded"} => job[p].value \in Values

SafeInv == LifeTypeOK /\ JobInv /\ TurnsInv /\ TornOnlyByCrash

LEMMA StepKeeps ==
  ASSUME SafeInv, NEW p \in Threads, Idle(p), at[p] \notin {"off", "ready", "loop"},
         NEW label \in Labels \ {"save", "fill", "off", "connect"},
         Step(p, label), label = "loop" => at'[p] = "loop" /\ p = "main",
         p = "main" => label # "ready",
         job' \in [Threads -> Jobs], job'[Other(p)] = job[Other(p)], Knows(p, label)',
         RobotTypeOK', UNCHANGED <<tornBefore, early>>
  PROVE  SafeInv'
<1> USE DEF SafeInv
<1>0. \A q \in Threads : q = p \/ q = Other(p)
  BY DEF Threads, Other
<1>1. /\ at' \in [Threads -> Labels] /\ at'[Other(p)] = at[Other(p)]
      /\ at'[p] \in {label, "save"}
      /\ save' \in [Threads -> Saves] /\ save'[Other(p)] = save[Other(p)]
      /\ \A q \in Threads : at'[q] \in {"save", "fill"} => save'[q].next \in Labels \ {"save", "fill"}
      /\ Label(p)' = label /\ Label(Other(p))' = Label(Other(p))
  BY StepThreads
<1>2. files' = files /\ TornFiles' = TornFiles /\ config' = config
  BY DEF Step, TornFiles, config
<1>3. LifeTypeOK'
  BY <1>1, <1>2 DEF LifeTypeOK, ThreadsTypeOK, FilesTypeOK, ContentsOK
<1>4. JobInv'
  BY <1>0, <1>1, Two DEF JobInv, Knows
<1>5. Label(p) = at[p]
  BY DEF Label, Idle
<1>6. TurnsInv'
  <2>1. CASE p = "main"
    BY <1>1, <1>2, <1>5, <2>1, Two DEF TurnsInv, Other, Idle
  <2>2. CASE p = "wifi"
    BY <1>1, <1>2, <1>5, <2>2, Two DEF TurnsInv, Other, Idle
  <2> QED
    BY <2>1, <2>2, Two
<1>7. TornOnlyByCrash'
  <2>1. ASSUME NEW f \in TornFiles, NEW q \in Threads, at[q] = "fill" /\ save[q].file = f
        PROVE  at'[q] = "fill" /\ save'[q].file = f
    BY <1>0, <1>1, <2>1 DEF Idle
  <2> QED
    BY <1>2, <2>1 DEF TornOnlyByCrash
<1> QED
  BY <1>3, <1>4, <1>6, <1>7

LEMMA TruncateKeeps ==
  ASSUME SafeInv, NEW p \in Threads, Truncate(p)
  PROVE  /\ SafeInv'
         /\ Label(p)' = Label(p) /\ Label(Other(p))' = Label(Other(p))
         /\ \A f : Disk(f)' = Disk(f)
<1> USE DEF SafeInv
<1> DEFINE file == save[p].file
<1>0. \A q \in Threads : q = p \/ q = Other(p)
  BY DEF Threads, Other
<1>1. /\ at[p] = "save" /\ at' \in [Threads -> Labels] /\ at'[p] = "fill" /\ at'[Other(p)] = at[Other(p)]
      /\ save' = save /\ job' = job /\ file \in Files
      /\ algorithm' = algorithm /\ working' = working /\ a1Pid' = a1Pid
      /\ tornBefore' = tornBefore /\ early' = early /\ refused' = refused
  BY Two DEF Truncate, Goto, LifeTypeOK, ThreadsTypeOK, Saves, Labels, robot, history
<1>2. files' = [files EXCEPT ![file] = Torn] /\ DOMAIN files = Files
  BY DEF Truncate, LifeTypeOK, FilesTypeOK, ContentsOK
<1>3. files'[file] = Torn /\ \A f \in Files : f # file => files'[f] = files[f]
  BY <1>1, <1>2
<1>4. /\ Label(p)' = Label(p) /\ Label(Other(p))' = Label(Other(p))
      /\ \A q \in Threads : Label(q)' = Label(q)
  BY <1>0, <1>1 DEF Label
<1>5. LifeTypeOK'
  <2>1. FilesTypeOK'
    BY <1>1, <1>2, <1>3, NamesFacts DEF LifeTypeOK, FilesTypeOK, ContentsOK, config
  <2>2. ThreadsTypeOK'
    BY <1>0, <1>1 DEF LifeTypeOK, ThreadsTypeOK
  <2> QED
    BY <1>1, <2>1, <2>2 DEF LifeTypeOK, RobotTypeOK
<1>6. JobInv'
  BY <1>1, <1>4 DEF JobInv
<1>7. config' = config \/ config' = Torn
  BY <1>1, <1>3, NamesFacts DEF config
<1>8. TurnsInv'
  <2>1. Label("main") # "off" /\ Label("main")' # "off"
    BY <1>0, <1>1, <1>4, Two DEF TurnsInv
  <2>2. Label("main")' = "connect" => at'["wifi"] = "off"
    BY <1>0, <1>1, <1>4, Two DEF TurnsInv
  <2>3. \/ at'["main"] = "save" /\ Label("main")' = "connect" /\ save'["main"].file = "config"
        \/ config' # Absent
    <3>1. CASE p = "main"
      BY <1>1, <1>3, <1>7, <2>1, <3>1, ContentFacts DEF TurnsInv, config
    <3>2. CASE p = "wifi"
      BY <1>1, <1>4, <1>7, <2>1, <3>2, ContentFacts, Two DEF TurnsInv, Other
    <3> QED
      BY <3>1, <3>2, Two
  <2>4. at'["main"] \in {"save", "fill"} => Label("main")' # "loop"
    BY <1>0, <1>1, <1>4, Two DEF TurnsInv
  <2>5. ~early => at'["wifi"] \in {"off", "ready"} \/ at'["main"] = "loop"
    BY <1>0, <1>1, Two DEF TurnsInv
  <2>6. ASSUME ~early, NEW q \in Threads, at'[q] = "fill" PROVE files'[save[q].file] = Torn
    <3>1. save[q].file \in Files
      BY DEF LifeTypeOK, ThreadsTypeOK, Saves
    <3> QED
      BY <1>0, <1>1, <1>3, <2>6, <3>1 DEF TurnsInv
  <2> QED
    BY <1>1, <2>1, <2>2, <2>3, <2>4, <2>5, <2>6 DEF TurnsInv
<1>9. TornOnlyByCrash'
  <2>1. ASSUME NEW f \in Files, files'[f] = Torn, ~early, f \notin tornBefore
        PROVE  \E q \in Threads : at'[q] = "fill" /\ save[q].file = f
    <3>1. CASE f = file
      BY <1>1, <3>1
    <3>2. CASE f # file
      <4>1. f \in TornFiles
        BY <1>3, <2>1, <3>2 DEF TornFiles
      <4>2. PICK q \in Threads : at[q] = "fill" /\ save[q].file = f
        BY <2>1, <4>1 DEF TornOnlyByCrash
      <4> QED
        BY <1>0, <1>1, <4>2
    <3> QED
      BY <3>1, <3>2
  <2> QED
    BY <1>1, <2>1 DEF TornOnlyByCrash, TornFiles
<1>10. \A f : Disk(f)' = Disk(f)
  <2>1. \A f, q : q \in Threads => Saving(q, f)' = Saving(q, f)
    BY <1>0, <1>1 DEF Saving
  <2>2. ASSUME NEW f, ~Saving(p, f) PROVE files'[f] = files[f]
    BY <1>1, <1>2, <2>2 DEF Saving
  <2> QED
    BY <1>1, <2>1, <2>2, Two DEF Disk
<1> QED
  BY <1>4, <1>5, <1>6, <1>8, <1>9, <1>10

LEMMA FillKeeps ==
  ASSUME SafeInv, NEW p \in Threads, Fill(p)
  PROVE  /\ SafeInv'
         /\ Label(p)' = Label(p) /\ Label(Other(p))' = Label(Other(p))
         /\ ~early => \A f : Disk(f)' = Disk(f)
<1> USE DEF SafeInv
<1> DEFINE file == save[p].file
           next == save[p].next
<1>0. \A q \in Threads : q = p \/ q = Other(p)
  BY DEF Threads, Other
<1>1. /\ at[p] = "fill" /\ next \in Labels \ {"save", "fill"} /\ next # "none"
      /\ save[p] \in Saves /\ save[Other(p)] \in Saves
  BY Two DEF Fill, LifeTypeOK, ThreadsTypeOK, Labels
<1>2. /\ at' \in [Threads -> Labels] /\ at'[p] = next /\ at'[Other(p)] = at[Other(p)]
      /\ save' = [save EXCEPT ![p] = NoSave] /\ save'[Other(p)] = save[Other(p)] /\ job' = job
      /\ algorithm' = algorithm /\ working' = working /\ a1Pid' = a1Pid
      /\ tornBefore' = tornBefore /\ early' = early /\ refused' = refused
  BY <1>1, Two DEF Fill, Goto, LifeTypeOK, ThreadsTypeOK, robot, history
<1>3. file \in Files /\ save[p].content \in Contents(file)
  BY <1>1 DEF Saves, Contents
<1>4. PICK content \in {save[p].content, Torn} :
        /\ content = Torn => files[file] \notin {Torn, save[p].content}
        /\ files' = [files EXCEPT ![file] = content]
  BY DEF Fill
<1>5. files'[file] = content /\ \A f \in Files : f # file => files'[f] = files[f]
  BY <1>3, <1>4 DEF LifeTypeOK, FilesTypeOK, ContentsOK
<1>6. \A q \in Threads : Label(q)' = Label(q)
  BY <1>0, <1>1, <1>2 DEF Label
<1>7. content # Absent
  BY <1>3, ContentFacts DEF Contents
<1>8. LifeTypeOK'
  <2>1. DOMAIN files' = Files
    BY <1>4 DEF LifeTypeOK, FilesTypeOK, ContentsOK
  <2>2. config' \in {Absent, Torn} \cup Configs
    <3>1. CASE file = "config"
      BY <1>3, <1>5, <3>1 DEF Contents, config
    <3>2. CASE file # "config"
      BY <1>5, <3>2, NamesFacts DEF LifeTypeOK, FilesTypeOK, ContentsOK, config
    <3> QED
      BY <3>1, <3>2
  <2>3. ASSUME NEW a \in Names PROVE files'[a] \in {Absent, Torn, Outdated} \cup AllArguments
    <3>1. a \in Files /\ a # "config"
      BY NamesFacts
    <3>2. CASE file = a
      BY <1>3, <1>5, <3>1, <3>2 DEF Contents
    <3>3. CASE file # a
      BY <1>5, <3>1, <3>3 DEF LifeTypeOK, FilesTypeOK, ContentsOK
    <3> QED
      BY <3>2, <3>3
  <2>4. NoSave \in Saves
    BY ContentFacts, NamesFacts DEF NoSave, Saves
  <2>5. save' \in [Threads -> Saves]
    BY <1>2, <2>4 DEF LifeTypeOK, ThreadsTypeOK
  <2>6. ThreadsTypeOK'
    BY <1>0, <1>1, <1>2, <2>5 DEF LifeTypeOK, ThreadsTypeOK
  <2>7. FilesTypeOK'
    BY <2>1, <2>2, <2>3 DEF FilesTypeOK, ContentsOK, config
  <2> QED
    BY <1>2, <2>6, <2>7 DEF LifeTypeOK, RobotTypeOK
<1>9. JobInv'
  BY <1>2, <1>6 DEF JobInv
<1>10. ASSUME ~early PROVE content = save[p].content /\ content # Torn
  <2>1. files[file] = Torn
    BY <1>1, <1>10 DEF TurnsInv
  <2> QED
    BY <1>3, <1>4, <2>1, ContentFacts DEF Contents
<1>11. TurnsInv'
  <2>1. Label("main") # "off" /\ Label("main")' # "off"
    BY <1>0, <1>1, <1>6, Two DEF TurnsInv
  <2>2. Label("main")' = "connect" => at'["wifi"] = "off"
    BY <1>0, <1>1, <1>2, <1>6, Two DEF TurnsInv
  <2>3. \/ at'["main"] = "save" /\ Label("main")' = "connect" /\ save'["main"].file = "config"
        \/ config' # Absent
    <3>1. config # Absent => config' # Absent
      BY <1>3, <1>5, <1>7, NamesFacts DEF config
    <3> QED
      BY <1>0, <1>1, <1>2, <1>6, <2>1, <3>1, Two DEF TurnsInv
  <2>4. at'["main"] \in {"save", "fill"} => Label("main")' # "loop"
    BY <1>0, <1>1, <1>2, <1>6, Two DEF TurnsInv
  <2>5. ~early => at'["wifi"] \in {"off", "ready"} \/ at'["main"] = "loop"
    BY <1>0, <1>1, <1>2, Two DEF TurnsInv
  <2>6. ASSUME ~early, NEW q \in Threads, at'[q] = "fill" PROVE files'[save'[q].file] = Torn
    <3>1. q = Other(p)
      BY <1>0, <1>1, <1>2, <2>6
    <3> QED
      BY <1>1, <1>2, <2>6, <3>1, Two DEF TurnsInv, Other
  <2> QED
    BY <1>2, <2>1, <2>2, <2>3, <2>4, <2>5, <2>6 DEF TurnsInv
<1>12. TornOnlyByCrash'
  <2>1. ASSUME NEW f \in Files, files'[f] = Torn, ~early, f \notin tornBefore
        PROVE  \E q \in Threads : at'[q] = "fill" /\ save'[q].file = f
    <3>1. f # file /\ f \in TornFiles
      BY <1>5, <1>10, <2>1 DEF TornFiles
    <3>2. PICK q \in Threads : at[q] = "fill" /\ save[q].file = f
      BY <2>1, <3>1 DEF TornOnlyByCrash
    <3> QED
      BY <1>0, <1>2, <3>1, <3>2
  <2> QED
    BY <1>2, <2>1 DEF TornOnlyByCrash, TornFiles
<1>13. ASSUME ~early PROVE \A f : Disk(f)' = Disk(f)
  <2>1. Idle(Other(p))
    BY <1>1, <1>13, Two DEF TurnsInv, Other, Idle
  <2>2. \A f : /\ ~Saving(Other(p), f) /\ ~Saving(Other(p), f)' /\ ~Saving(p, f)'
               /\ Saving(p, f) <=> f = file
    BY <1>1, <1>2, <2>1 DEF Saving, Idle
  <2>3. ASSUME NEW f PROVE Disk(f)' = Disk(f)
    <3>1. CASE f = file
      BY <1>5, <1>10, <1>13, <2>2, <3>1, Two DEF Disk
    <3>2. CASE f # file
      <4>1. files'[f] = files[f]
        BY <1>4, <3>2
      <4> QED
        BY <2>2, <3>2, <4>1, Two DEF Disk
    <3> QED
      BY <3>1, <3>2
  <2> QED
    BY <2>3
<1> QED
  BY <1>0, <1>6, <1>8, <1>9, <1>11, <1>12, <1>13, Two

LEMMA ConfigRead ==
  ASSUME SafeInv, NEW p \in Threads, config # Torn, Idle(p),
         at[p] \notin {"off", "ready", "connect"}
  PROVE  config \in Configs
<1>1. Label(p) = at[p]
  BY DEF Label, Idle
<1>2. config # Absent
  BY <1>1, Two DEF SafeInv, TurnsInv, Label
<1> QED
  BY <1>2 DEF SafeInv, LifeTypeOK, FilesTypeOK, ContentsOK, config

LEMMA FailKeeps ==
  ASSUME SafeInv, NEW p \in Threads, Idle(p), at[p] \notin {"off", "ready", "loop"}, Fail(p)
  PROVE  SafeInv'
<1> DEFINE label == IF p = "main" THEN "dead" ELSE "ready"
<1>1. Step(p, label)
  BY DEF Fail, Step
<1>2. label \in Labels \ {"save", "fill", "off", "connect", "loop"} /\ label \notin NameLabel
      /\ label \notin {"setPid", "sendPid"} /\ (p = "main" => label # "ready")
  BY DEF Labels, NameLabel
<1>3. NoJob \in Jobs
  BY DEF NoJob, Jobs
<1>4. job' \in [Threads -> Jobs] /\ job'[Other(p)] = job[Other(p)]
  BY <1>3, Two DEF Fail, SafeInv, LifeTypeOK, ThreadsTypeOK
<1>5. RobotTypeOK' /\ UNCHANGED <<tornBefore, early>>
  <2>1. refused' \in BOOLEAN
    BY DEF Fail, SafeInv, LifeTypeOK, RobotTypeOK
  <2> QED
    BY <2>1 DEF Fail, SafeInv, LifeTypeOK, RobotTypeOK, robot
<1>6. Knows(p, label)'
  BY <1>2 DEF Knows, NameLabel
<1> HIDE DEF label
<1> QED
  BY <1>1, <1>2, <1>4, <1>5, <1>6, StepKeeps

\* A job's entries change one at a time.
LEMMA JobPid ==
  ASSUME LifeTypeOK, NEW p \in Threads, NEW v \in Values, job' = [job EXCEPT ![p].pid = v]
  PROVE  /\ job' \in [Threads -> Jobs] /\ job'[Other(p)] = job[Other(p)] /\ job'[p].pid = v
         /\ job'[p].name = job[p].name
         /\ job'[p].value = job[p].value
         /\ job'[p].kind = job[p].kind
<1>1. job \in [Threads -> Jobs] /\ job[p] \in Jobs
  BY DEF LifeTypeOK, ThreadsTypeOK
<1>2. PICK j : j = [job[p] EXCEPT !.pid = v]
  OBVIOUS
<1>3. /\ j \in Jobs /\ j.pid = v
      /\ j.name = job[p].name /\ j.value = job[p].value /\ j.kind = job[p].kind
  BY <1>1, <1>2 DEF Jobs
<1>4. job' = [job EXCEPT ![p] = j]
  BY <1>2
<1>5. job'[p] = j /\ job'[Other(p)] = job[Other(p)] /\ job' \in [Threads -> Jobs]
  BY <1>1, <1>3, <1>4, Two
<1> QED
  BY <1>3, <1>5

LEMMA JobName ==
  ASSUME LifeTypeOK, NEW p \in Threads, NEW v \in Names, job' = [job EXCEPT ![p].name = v]
  PROVE  /\ job' \in [Threads -> Jobs] /\ job'[Other(p)] = job[Other(p)] /\ job'[p].name = v
         /\ job'[p].pid = job[p].pid
         /\ job'[p].value = job[p].value
         /\ job'[p].kind = job[p].kind
<1>1. job \in [Threads -> Jobs] /\ job[p] \in Jobs
  BY DEF LifeTypeOK, ThreadsTypeOK
<1>2. PICK j : j = [job[p] EXCEPT !.name = v]
  OBVIOUS
<1>3. /\ j \in Jobs /\ j.name = v
      /\ j.pid = job[p].pid /\ j.value = job[p].value /\ j.kind = job[p].kind
  BY <1>1, <1>2 DEF Jobs
<1>4. job' = [job EXCEPT ![p] = j]
  BY <1>2
<1>5. job'[p] = j /\ job'[Other(p)] = job[Other(p)] /\ job' \in [Threads -> Jobs]
  BY <1>1, <1>3, <1>4, Two
<1> QED
  BY <1>3, <1>5

LEMMA JobValue ==
  ASSUME LifeTypeOK, NEW p \in Threads, NEW v \in Values, job' = [job EXCEPT ![p].value = v]
  PROVE  /\ job' \in [Threads -> Jobs] /\ job'[Other(p)] = job[Other(p)] /\ job'[p].value = v
         /\ job'[p].pid = job[p].pid
         /\ job'[p].name = job[p].name
         /\ job'[p].kind = job[p].kind
<1>1. job \in [Threads -> Jobs] /\ job[p] \in Jobs
  BY DEF LifeTypeOK, ThreadsTypeOK
<1>2. PICK j : j = [job[p] EXCEPT !.value = v]
  OBVIOUS
<1>3. /\ j \in Jobs /\ j.value = v
      /\ j.pid = job[p].pid /\ j.name = job[p].name /\ j.kind = job[p].kind
  BY <1>1, <1>2 DEF Jobs
<1>4. job' = [job EXCEPT ![p] = j]
  BY <1>2
<1>5. job'[p] = j /\ job'[Other(p)] = job[Other(p)] /\ job' \in [Threads -> Jobs]
  BY <1>1, <1>3, <1>4, Two
<1> QED
  BY <1>3, <1>5

\* One label at a time: what each action of a thread that works on the files goes on to.
LEMMA Unlike ==
  /\ \A p \in Threads :
       at[p] \in {"getPid", "setPid", "sendPid", "getSelected", "saveArguments", "setSelected",
                  "setAlgorithm", "load", "loaded"}
       => Idle(p) /\ at[p] \notin {"off", "ready", "connect", "loop"} /\ Label(p) = at[p]
  /\ {"getPid", "setPid", "sendPid", "getSelected", "saveArguments", "setSelected",
      "setAlgorithm", "load", "loaded", "dateTime", "reply"} \subseteq
       Labels \ {"save", "fill", "off", "connect", "loop", "ready"}
BY DEF Idle, Label, Labels

\* Settings that A1 takes, or refuses without anybody's noticing.
PidSent(p) ==
  /\ at[p] = "sendPid"
  /\ a1Pid' = IF job[p].pid \in Accepted THEN job[p].pid ELSE a1Pid
  /\ Goto(p, IF p = "main" THEN "getSelected" ELSE "reply")
  /\ UNCHANGED <<files, job, save, algorithm, working, history>>

LEMMA SendPidIs ==
  ASSUME NEW p, SendPid(p)
  PROVE  /\ at[p] = "sendPid"
         /\ PidSent(p) \/ (p = "main" /\ job[p].pid \notin Accepted /\ Fail(p))
BY DEF SendPid, PidSent

LEMMA WorkKeeps ==
  ASSUME SafeInv, NEW p \in Threads, Work(p)
  PROVE  SafeInv'
<1>0. /\ job \in [Threads -> Jobs] /\ job[p] \in Jobs
      /\ JobInv /\ LifeTypeOK
  BY DEF SafeInv, LifeTypeOK, ThreadsTypeOK
<1>1. ASSUME UNCHANGED <<robot, history>>
      PROVE  RobotTypeOK' /\ UNCHANGED <<tornBefore, early>>
  BY <1>0, <1>1 DEF LifeTypeOK, RobotTypeOK, robot, history
<1>2. CASE Truncate(p)
  BY <1>2, TruncateKeeps
<1>3. CASE Fill(p)
  BY <1>3, FillKeeps
<1>4. CASE ConfigTorn(p)
  <2>1. Idle(p) /\ at[p] \notin {"off", "ready", "loop"}
    BY <1>4, Unlike DEF ConfigTorn
  <2> QED
    BY <1>4, <2>1, FailKeeps DEF ConfigTorn
<1>5. CASE GetPid(p)
  <2> DEFINE pid == IF config.pid = "none" THEN Default ELSE config.pid
             label == IF p = "main" THEN "sendPid" ELSE "reply"
  <2>1. at[p] = "getPid" /\ config # Torn /\ Idle(p) /\ at[p] \notin {"off", "ready", "connect", "loop"}
    BY <1>5, Unlike DEF GetPid, Readable
  <2>2. config \in Configs
    BY <2>1, ConfigRead
  <2>3. pid \in Values /\ [config EXCEPT !.pid = pid] \in Configs
    BY <2>2, ConfigFacts, NamesFacts
  <2>4. job' = [job EXCEPT ![p].pid = pid]
    BY <1>5 DEF GetPid
  <2>5. job' \in [Threads -> Jobs] /\ job'[Other(p)] = job[Other(p)] /\ job'[p].pid = pid
    BY <1>0, <2>3, <2>4, JobPid
  <2>6. \/ Goto(p, label) /\ UNCHANGED save
        \/ Save(p, "config", [config EXCEPT !.pid = pid], label)
    BY <1>5 DEF GetPid
  <2>7. [config EXCEPT !.pid = pid] \in Contents("config") /\ "config" \in Files
    BY <2>3, NamesFacts DEF Contents
  <2>8. files' = files /\ UNCHANGED <<robot, history>>
    BY <1>5 DEF GetPid
  <2> HIDE DEF pid
  <2>9. Step(p, label)
    BY <2>6, <2>7, <2>8 DEF Step
  <2>10. label \in Labels \ {"save", "fill", "off", "connect", "loop", "ready"} /\ Knows(p, label)'
    BY <2>3, <2>5, Unlike DEF Knows, NameLabel
  <2> HIDE DEF label
  <2> QED
    BY <1>1, <2>1, <2>5, <2>8, <2>9, <2>10, StepKeeps
<1>6. CASE SetPid(p)
  <2>1. at[p] = "setPid" /\ config # Torn /\ Idle(p) /\ at[p] \notin {"off", "ready", "connect", "loop"}
        /\ Label(p) = "setPid"
    BY <1>6, Unlike DEF SetPid, Readable
  <2>2. config \in Configs
    BY <2>1, ConfigRead
  <2>3. job[p].pid \in Values
    BY <1>0, <2>1 DEF JobInv
  <2>4. [config EXCEPT !.pid = job[p].pid] \in Contents("config") /\ "config" \in Files
    BY <2>2, <2>3, ConfigFacts, NamesFacts DEF Contents
  <2>5. Step(p, "sendPid") /\ UNCHANGED <<job, robot, history>>
    BY <1>6, <2>4 DEF SetPid, Step
  <2>6. Knows(p, "sendPid")'
    BY <2>3, <2>5 DEF Knows, NameLabel
  <2> QED
    BY <1>0, <1>1, <2>1, <2>5, <2>6, StepKeeps, Unlike
<1>7. CASE SendPid(p)
  <2>1. CASE PidSent(p)
    <3> DEFINE label == IF p = "main" THEN "getSelected" ELSE "reply"
    <3>1. at[p] = "sendPid" /\ Idle(p) /\ at[p] \notin {"off", "ready", "connect", "loop"}
          /\ Label(p) = "sendPid"
      BY <2>1, Unlike DEF PidSent
    <3>2. Step(p, label) /\ UNCHANGED <<job, tornBefore, early>>
      BY <2>1 DEF PidSent, Step, history
    <3>3. RobotTypeOK'
      BY <1>0, <2>1, <3>1 DEF PidSent, LifeTypeOK, RobotTypeOK, history, JobInv
    <3>4. label \in Labels \ {"save", "fill", "off", "connect", "loop", "ready"} /\ Knows(p, label)'
      BY Unlike DEF Knows, NameLabel
    <3> HIDE DEF label
    <3> QED
      BY <1>0, <3>1, <3>2, <3>3, <3>4, StepKeeps
  <2>2. CASE Fail(p)
    BY <1>7, <2>2, Unlike, FailKeeps, SendPidIs
  <2> QED
    BY <1>7, <2>1, <2>2, SendPidIs
<1>8. CASE GetSelected(p)
  <2>1. at[p] = "getSelected" /\ config # Torn /\ Idle(p) /\ at[p] \notin {"off", "ready", "connect", "loop"}
    BY <1>8, Unlike DEF GetSelected, Readable
  <2>2. config \in Configs
    BY <2>1, ConfigRead
  <2>3. PICK name \in Names, label \in {"setSelected", "setAlgorithm"} :
          job' = [job EXCEPT ![p].name = name] /\ Goto(p, label)
    BY <1>8, <2>2, ConfigFacts, NamesFacts DEF GetSelected
  <2>4. job' \in [Threads -> Jobs] /\ job'[Other(p)] = job[Other(p)] /\ job'[p].name = name
    BY <1>0, <2>3, JobName
  <2>5. Step(p, label) /\ UNCHANGED <<robot, history>>
    BY <1>8, <2>3 DEF GetSelected, Step
  <2>6. Knows(p, label)'
    BY <2>4 DEF Knows, NameLabel
  <2> QED
    BY <1>1, <2>1, <2>4, <2>5, <2>6, StepKeeps, Unlike
<1>9. CASE SaveArguments(p)
  <2>1. at[p] = "saveArguments" /\ Idle(p) /\ at[p] \notin {"off", "ready", "connect", "loop"}
        /\ Label(p) = "saveArguments"
    BY <1>9, Unlike DEF SaveArguments
  <2>2. job[p].name \in Names /\ job[p].value \in Values
    BY <1>0, <2>1 DEF JobInv, NameLabel
  <2>3. Arguments(job[p].value) \in Contents(job[p].name) /\ job[p].name \in Files
    BY <2>2, ArgumentsFacts, NamesFacts DEF Contents
  <2>4. Step(p, "setSelected") /\ UNCHANGED <<job, robot, history>>
    BY <1>9, <2>3 DEF SaveArguments, Step
  <2>5. Knows(p, "setSelected")'
    BY <2>2, <2>4 DEF Knows, NameLabel
  <2> QED
    BY <1>0, <1>1, <2>1, <2>4, <2>5, StepKeeps, Unlike
<1>10. CASE SetSelected(p)
  <2>1. at[p] = "setSelected" /\ config # Torn /\ Idle(p)
        /\ at[p] \notin {"off", "ready", "connect", "loop"} /\ Label(p) = "setSelected"
    BY <1>10, Unlike DEF SetSelected, Readable
  <2>2. config \in Configs
    BY <2>1, ConfigRead
  <2>3. job[p].name \in Names
    BY <1>0, <2>1 DEF JobInv, NameLabel
  <2>4. [config EXCEPT !.algorithm = job[p].name] \in Contents("config") /\ "config" \in Files
    BY <2>2, <2>3, ConfigFacts, NamesFacts DEF Contents
  <2>5. Step(p, "setAlgorithm") /\ UNCHANGED <<job, robot, history>>
    BY <1>10, <2>4 DEF SetSelected, Step
  <2>6. Knows(p, "setAlgorithm")'
    BY <2>3, <2>5 DEF Knows, NameLabel
  <2> QED
    BY <1>0, <1>1, <2>1, <2>5, <2>6, StepKeeps, Unlike
<1>11. CASE SetAlgorithm(p)
  <2>1. at[p] = "setAlgorithm" /\ Idle(p) /\ at[p] \notin {"off", "ready", "connect", "loop"}
        /\ Label(p) = "setAlgorithm"
    BY <1>11, Unlike DEF SetAlgorithm
  <2>2. CASE working
    BY <1>11, <2>1, <2>2, FailKeeps DEF SetAlgorithm
  <2>3. CASE ~working
    <3>1. Step(p, "load") /\ UNCHANGED <<job, robot, history>>
      BY <1>11, <2>3 DEF SetAlgorithm, Step
    <3>2. Knows(p, "load")'
      BY <1>0, <2>1, <3>1 DEF Knows, NameLabel, JobInv
    <3> QED
      BY <1>0, <1>1, <2>1, <3>1, <3>2, StepKeeps, Unlike
  <2> QED
    BY <2>2, <2>3
<1>12. CASE Load(p)
  <2> DEFINE name == job[p].name
             value == IF files[name] \in AllArguments THEN files[name].value ELSE Default
  <2>1. at[p] = "load" /\ Idle(p) /\ at[p] \notin {"off", "ready", "connect", "loop"}
        /\ Label(p) = "load"
    BY <1>12, Unlike DEF Load
  <2>2. CASE files[name] = Torn
    BY <1>12, <2>1, <2>2, FailKeeps DEF Load
  <2>3. CASE files[name] # Torn
    <3>1. name \in Names /\ value \in Values
      BY <1>0, <2>1, ArgumentsFacts, NamesFacts DEF JobInv, NameLabel
    <3>2. /\ job' = [job EXCEPT ![p].value = value]
          /\ UNCHANGED <<files, robot, history>>
          /\ \/ Goto(p, "loaded") /\ UNCHANGED save
             \/ Save(p, name, Arguments(value), "loaded")
      BY <1>12, <2>3 DEF Load
    <3>3. Arguments(value) \in Contents(name) /\ name \in Files
      BY <3>1, ArgumentsFacts, NamesFacts DEF Contents
    <3>4. job' \in [Threads -> Jobs] /\ job'[Other(p)] = job[Other(p)]
          /\ job'[p].value = value /\ job'[p].name = name
      BY <1>0, <3>1, <3>2, JobValue
    <3> HIDE DEF value, name
    <3>5. Step(p, "loaded")
      BY <3>2, <3>3 DEF Step
    <3>6. Knows(p, "loaded")'
      BY <3>1, <3>4 DEF Knows, NameLabel
    <3> QED
      BY <1>1, <2>1, <3>2, <3>4, <3>5, <3>6, StepKeeps, Unlike
  <2> QED
    BY <2>2, <2>3
<1>13. CASE Assign(p)
  <2> DEFINE label == IF p = "main" THEN "dateTime" ELSE "reply"
  <2>1. at[p] = "loaded" /\ Idle(p) /\ at[p] \notin {"off", "ready", "connect", "loop"}
        /\ Label(p) = "loaded"
    BY <1>13, Unlike DEF Assign
  <2>2. Step(p, label) /\ UNCHANGED <<job, tornBefore, early>>
    BY <1>13 DEF Assign, Step, history
  <2>3. [name |-> job[p].name, value |-> job[p].value] \in [name : Names, value : Values]
    BY <1>0, <2>1 DEF JobInv, NameLabel
  <2>4. RobotTypeOK'
    BY <1>0, <1>13, <2>3 DEF Assign, LifeTypeOK, RobotTypeOK, history
  <2>5. label \in Labels \ {"save", "fill", "off", "connect", "loop", "ready"} /\ Knows(p, label)'
    BY Unlike DEF Knows, NameLabel
  <2> HIDE DEF label
  <2> QED
    BY <1>0, <2>1, <2>2, <2>4, <2>5, StepKeeps
<1>14. CASE ListNext(p)
  <2>1. at[p] = "loaded" /\ Idle(p) /\ at[p] \notin {"off", "ready", "connect", "loop"}
        /\ Label(p) = "loaded"
    BY <1>14, Unlike DEF ListNext
  <2>2. CASE job[p].rest # <<>>
    <3>1. job[p].rest \in Seq(Names)
      BY <1>0 DEF Jobs
    <3>2. Head(job[p].rest) \in Names /\ Tail(job[p].rest) \in Seq(Names)
      BY <2>2, <3>1
    <3>3. job' = [job EXCEPT ![p].name = Head(job[p].rest), ![p].rest = Tail(@)]
          /\ Goto(p, "load") /\ UNCHANGED <<files, save, robot, history>>
      BY <1>14, <2>2 DEF ListNext
    <3>4. [job[p] EXCEPT !.name = Head(job[p].rest), !.rest = Tail(@)] \in Jobs
      BY <1>0, <3>2 DEF Jobs
    <3>5. job' = [job EXCEPT ![p] = [job[p] EXCEPT !.name = Head(job[p].rest), !.rest = Tail(@)]]
      BY <1>0, <3>3
    <3>6. job' \in [Threads -> Jobs] /\ job'[Other(p)] = job[Other(p)]
      BY <1>0, <3>4, <3>5, Two
    <3>7. job'[p].name = Head(job[p].rest)
      BY <1>0, <3>5 DEF Jobs
    <3>8. Step(p, "load")
      BY <3>3 DEF Step
    <3>9. Knows(p, "load")'
      BY <3>2, <3>7 DEF Knows, NameLabel
    <3> QED
      BY <1>1, <2>1, <3>3, <3>6, <3>8, <3>9, StepKeeps, Unlike
  <2>3. CASE job[p].rest = <<>> /\ algorithm = NoAlgorithm
    BY <1>14, <2>1, <2>3, FailKeeps DEF ListNext
  <2>4. CASE job[p].rest = <<>> /\ algorithm # NoAlgorithm
    <3>1. Step(p, "reply") /\ UNCHANGED <<job, robot, history>>
      BY <1>14, <2>4 DEF ListNext, Step
    <3>2. Knows(p, "reply")'
      BY DEF Knows, NameLabel
    <3> QED
      BY <1>0, <1>1, <2>1, <3>1, <3>2, StepKeeps, Unlike
  <2> QED
    BY <2>2, <2>3, <2>4
<1> QED
  BY <1>2, <1>3, <1>4, <1>5, <1>6, <1>7, <1>8, <1>9, <1>10, <1>11, <1>12, <1>13, <1>14 DEF Work

-----------------------------------------------------------------------------
(* The life of the process, and the app's requests.                         *)

\* The jobs that begin.
LEMMA NewJobs ==
  /\ NoJob \in Jobs /\ NoJob.kind = "none"
  /\ \A kind \in {"init", "getPid"} :
       LET j == [NoJob EXCEPT !.kind = kind] IN j \in Jobs /\ j.kind = kind
  /\ \A pid \in Values :
       LET j == [NoJob EXCEPT !.kind = "setPid", !.pid = pid]
       IN j \in Jobs /\ j.kind = "setPid" /\ j.pid = pid
  /\ LET j == [NoJob EXCEPT !.kind = "list", !.name = DefaultName, !.rest = Tail(Algorithms)]
     IN j \in Jobs /\ j.kind = "list" /\ j.name = DefaultName
<1>1. NoJob \in Jobs /\ NoJob.kind = "none"
  BY DEF NoJob, Jobs
<1> QED
  BY <1>1, NamesFacts DEF Jobs

LEMMA InitSafe == Init => SafeInv
<1> SUFFICES ASSUME Init PROVE SafeInv
  OBVIOUS
<1>1. /\ config \in {Absent} \cup Configs /\ DOMAIN files = Files
      /\ \A a \in Names : files[a] \in {Absent, Outdated} \cup AllArguments
  BY SavedAssumption DEF Init, config
<1>2. TornFiles = {}
  BY <1>1, ContentFacts, NamesFacts DEF TornFiles, config
<1>3. at = [p \in Threads |-> "off"] /\ at["main"] = "off" /\ at["wifi"] = "off"
  BY Two DEF Init
<1>4. NoJob \in Jobs /\ NoSave \in Saves
  BY ContentFacts, NamesFacts DEF NoJob, Jobs, NoSave, Saves
<1>5. job \in [Threads -> Jobs] /\ save \in [Threads -> Saves] /\ at \in [Threads -> Labels]
  BY <1>3, <1>4 DEF Init, Labels
<1>6. LifeTypeOK
  <2>1. FilesTypeOK
    BY <1>1 DEF FilesTypeOK, ContentsOK, config
  <2> QED
    BY <1>3, <1>5, <2>1 DEF Init, LifeTypeOK, RobotTypeOK, ThreadsTypeOK
<1>7. \A p \in Threads : Label(p) = "off"
  BY <1>3 DEF Label
<1>8. JobInv
  BY <1>7 DEF JobInv, NameLabel
<1>9. TurnsInv
  BY <1>2, <1>3, <1>7, Two DEF TurnsInv, Init
<1> QED
  BY <1>2, <1>6, <1>8, <1>9 DEF SafeInv, TornOnlyByCrash

LEMMA MainKeeps ==
  ASSUME SafeInv, StartWifi \/ SetDateTime \/ InitFails \/ BeepHangs
  PROVE  SafeInv'
<1>0. /\ job \in [Threads -> Jobs] /\ JobInv /\ LifeTypeOK /\ NoJob \in Jobs
      /\ "main" \in Threads /\ Other("main") = "wifi"
  BY Two DEF SafeInv, LifeTypeOK, ThreadsTypeOK, NoJob, Jobs, Other
<1>1. ASSUME UNCHANGED <<robot, history>>
      PROVE  RobotTypeOK' /\ UNCHANGED <<tornBefore, early>>
  BY <1>0, <1>1 DEF LifeTypeOK, RobotTypeOK, robot, history
<1>2. CASE StartWifi
  <2>1. /\ at["main"] = "connect" /\ at' = [main |-> "getPid", wifi |-> "ready"]
        /\ UNCHANGED <<files, job, save, robot, history>>
    BY <1>2 DEF StartWifi
  <2>2. Label("main") = "connect" /\ at["wifi"] = "off" /\ config # Absent
    BY <2>1 DEF SafeInv, TurnsInv, Label
  <2>3. at'["main"] = "getPid" /\ at'["wifi"] = "ready" /\ at' \in [Threads -> Labels]
    BY <2>1 DEF Threads, Labels
  <2>4. Label("main")' = "getPid" /\ Label("wifi")' = "ready"
    BY <2>3 DEF Label
  <2>5. config' = config /\ TornFiles' = TornFiles
    BY <2>1 DEF config, TornFiles
  <2>6. LifeTypeOK'
    BY <1>0, <1>1, <2>1, <2>3, <2>5, Two DEF LifeTypeOK, FilesTypeOK, ContentsOK, ThreadsTypeOK
  <2>7. JobInv'
    BY <2>4, Two DEF JobInv, NameLabel
  <2>8. TurnsInv'
    BY <2>2, <2>3, <2>4, <2>5, Two DEF TurnsInv
  <2>9. TornOnlyByCrash'
    <3>1. \A q \in Threads : at[q] # "fill"
      BY <2>1, <2>2, Two
    <3> QED
      BY <1>1, <2>1, <2>5, <3>1 DEF SafeInv, TornOnlyByCrash
  <2> QED
    BY <2>6, <2>7, <2>8, <2>9 DEF SafeInv
<1>3. CASE SetDateTime
  <2>1. /\ at["main"] = "dateTime" /\ Step("main", "loop") /\ at' = [at EXCEPT !["main"] = "loop"]
        /\ job' = [job EXCEPT !["main"] = NoJob] /\ UNCHANGED <<robot, history>>
    BY <1>3 DEF SetDateTime, Step, Goto
  <2>2. job' \in [Threads -> Jobs] /\ job'["wifi"] = job["wifi"] /\ at'["main"] = "loop"
    BY <1>0, <2>1 DEF LifeTypeOK, ThreadsTypeOK
  <2>3. Knows("main", "loop")'
    BY DEF Knows, NameLabel
  <2>4. "loop" \in Labels \ {"save", "fill", "off", "connect"} /\ Idle("main")
    BY <2>1 DEF Labels, Idle
  <2> QED
    BY <1>0, <1>1, <2>1, <2>2, <2>3, <2>4, StepKeeps
<1>4. ASSUME NEW label \in {"failed", "hung"}, InitStops(label),
             at["main"] \in {"connect", "sendPid", "dateTime"}
      PROVE  SafeInv'
  <2>1. /\ at["main"] \in {"connect", "sendPid", "dateTime"} /\ Step("main", label)
        /\ job' = [job EXCEPT !["main"] = NoJob] /\ UNCHANGED <<robot, history>>
    BY <1>4 DEF InitStops, Step
  <2>2. job' \in [Threads -> Jobs] /\ job'["wifi"] = job["wifi"]
    BY <1>0, <2>1
  <2>3. Knows("main", label)'
    BY DEF Knows, NameLabel
  <2>4. label \in Labels \ {"save", "fill", "off", "connect", "loop"} /\ Idle("main")
    BY <2>1 DEF Labels, Idle
  <2> QED
    BY <1>0, <1>1, <2>1, <2>2, <2>3, <2>4, StepKeeps
<1> QED
  BY <1>2, <1>3, <1>4 DEF InitFails, BeepHangs

LEMMA BootKeeps == ASSUME SafeInv, Boot PROVE SafeInv'
<1>1. at["main"] = "off" /\ "main" \in Threads /\ Other("main") = "wifi" /\ Idle("main")
  BY Two DEF Boot, Other, Idle
<1>2. Label("main") = "off" /\ at["wifi"] = "off" /\ TornFiles = tornBefore
  BY <1>1 DEF SafeInv, TurnsInv, Label
<1>3. Step("main", "connect")
  <2>1. "config" \in Files /\ Empty \in Contents("config")
    BY ContentFacts, NamesFacts DEF Contents
  <2> QED
    BY <2>1 DEF Boot, Step
<1>4. /\ at' \in [Threads -> Labels] /\ at'["wifi"] = "off" /\ at'["main"] \in {"connect", "save"}
      /\ save' \in [Threads -> Saves]
      /\ \A q \in Threads : at'[q] \in {"save", "fill"} => save'[q].next \in Labels \ {"save", "fill"}
      /\ Label("main")' = "connect" /\ Label("wifi")' = "off"
  <2>1. "connect" \in Labels \ {"save", "fill"} /\ Label("wifi") = "off"
    BY <1>2 DEF Labels, Label
  <2> QED
    BY <1>1, <1>2, <1>3, <2>1, StepThreads DEF SafeInv
<1>5. [NoJob EXCEPT !.kind = "init"] \in Jobs
  BY NewJobs
<1>6. job' \in [Threads -> Jobs]
  BY <1>5 DEF Boot, SafeInv, LifeTypeOK, ThreadsTypeOK
<1>7. UNCHANGED <<files, algorithm, working, a1Pid, tornBefore>> /\ early' = FALSE /\ refused' = FALSE
  BY DEF Boot, robot
<1>8. config' = config /\ TornFiles' = TornFiles
  BY <1>7 DEF config, TornFiles
<1>9. LifeTypeOK'
  BY <1>4, <1>6, <1>7, <1>8 DEF SafeInv, LifeTypeOK, FilesTypeOK, ContentsOK, RobotTypeOK, ThreadsTypeOK
<1>10. JobInv'
  BY <1>4, Two DEF JobInv, NameLabel
<1>11. \/ at'["main"] = "save" /\ save'["main"].file = "config"
       \/ config' # Absent
  <2>1. CASE config = Absent
    <3>1. Save("main", "config", Empty, "connect")
      BY <2>1 DEF Boot
    <3> QED
      BY <1>1, <3>1 DEF Save, Goto, SafeInv, LifeTypeOK, ThreadsTypeOK
  <2>2. CASE config # Absent
    BY <1>8, <2>2
  <2> QED
    BY <2>1, <2>2
<1>12. TurnsInv'
  BY <1>4, <1>11, Two DEF TurnsInv
<1>13. TornOnlyByCrash'
  BY <1>2, <1>7, <1>8 DEF TornOnlyByCrash
<1> QED
  BY <1>9, <1>10, <1>12, <1>13 DEF SafeInv

LEMMA OverKeeps ==
  ASSUME SafeInv, NEW contents, ContentsOK(contents), Over(contents)
  PROVE  SafeInv'
<1>1. NoJob \in Jobs /\ NoSave \in Saves
  BY ContentFacts, NamesFacts DEF NoJob, Jobs, NoSave, Saves
<1>2. /\ at' \in [Threads -> Labels] /\ job' \in [Threads -> Jobs] /\ save' \in [Threads -> Saves]
      /\ \A q \in Threads : at'[q] = "off"
  BY <1>1 DEF Over, Labels
<1>3. /\ files' = contents /\ tornBefore' = TornFiles' /\ TornFiles' \subseteq Files
      /\ UNCHANGED <<early, refused>>
  BY DEF Over, TornFiles
<1>4. LifeTypeOK'
  <2>1. RobotTypeOK'
    BY <1>3 DEF Over, SafeInv, LifeTypeOK, RobotTypeOK
  <2> QED
    BY <1>2, <1>3, <2>1 DEF SafeInv, LifeTypeOK, FilesTypeOK, ContentsOK, ThreadsTypeOK
<1>5. \A q \in Threads : Label(q)' = "off"
  BY <1>2 DEF Label
<1>6. JobInv'
  BY <1>5 DEF JobInv, NameLabel
<1>7. TurnsInv'
  BY <1>2, <1>3, <1>5, Two DEF TurnsInv
<1>8. TornOnlyByCrash'
  BY <1>3 DEF TornOnlyByCrash
<1> QED
  BY <1>4, <1>6, <1>7, <1>8 DEF SafeInv

\* A request that does not touch the files yet.
LEMMA RequestKeeps ==
  ASSUME SafeInv, NEW label \in {"getPid", "setPid", "saveArguments", "load"}, Request(label),
         job' \in [Threads -> Jobs], job'["main"] = job["main"], Knows("wifi", label)'
  PROVE  SafeInv'
<1>1. at["wifi"] = "ready" /\ "wifi" \in Threads /\ Other("wifi") = "main" /\ Idle("wifi")
  BY Two DEF Request, Arrive, Other, Idle
<1>2. /\ Goto("wifi", label) /\ UNCHANGED <<files, save, algorithm, working, a1Pid, tornBefore, refused>>
      /\ early' = (early \/ at["main"] # "loop")
  BY DEF Request, Arrive, robot
<1>3. Step("wifi", label) /\ label \in Labels \ {"save", "fill"}
  BY <1>2 DEF Step, Labels
<1>4. /\ at' \in [Threads -> Labels] /\ at'["main"] = at["main"] /\ at'["wifi"] = label
      /\ save' \in [Threads -> Saves] /\ save' = save
      /\ \A q \in Threads : at'[q] \in {"save", "fill"} => save'[q].next \in Labels \ {"save", "fill"}
      /\ Label("wifi")' = label /\ Label("main")' = Label("main")
  BY <1>1, <1>2, <1>3, StepThreads, GotoStep DEF SafeInv
<1>5. config' = config /\ TornFiles' = TornFiles
  BY <1>2 DEF config, TornFiles
<1>6. LifeTypeOK'
  BY <1>2, <1>4, <1>5 DEF SafeInv, LifeTypeOK, FilesTypeOK, ContentsOK, RobotTypeOK, ThreadsTypeOK
<1>7. JobInv'
  BY <1>4, Two DEF SafeInv, JobInv, Knows
<1>8. TurnsInv'
  BY <1>1, <1>2, <1>4, <1>5, Two DEF SafeInv, TurnsInv
<1>9. TornOnlyByCrash'
  <2>1. ASSUME NEW q \in Threads, at[q] = "fill" PROVE at'[q] = "fill"
    BY <1>1, <1>4, <2>1, Two
  <2>2. early => early'
    BY <1>2
  <2>3. TornOnlyByCrash
    BY DEF SafeInv
  <2> QED
    BY <1>2, <1>4, <1>5, <2>1, <2>2, <2>3 DEF TornOnlyByCrash
<1> QED
  BY <1>6, <1>7, <1>8, <1>9 DEF SafeInv

LEMMA AppKeeps == ASSUME SafeInv, App PROVE SafeInv'
<1>0. "wifi" \in Threads /\ "main" \in Threads /\ job \in [Threads -> Jobs]
  BY Two DEF SafeInv, LifeTypeOK, ThreadsTypeOK
<1>1. CASE AskPid
  <2>1. job' \in [Threads -> Jobs] /\ job'["main"] = job["main"]
    BY <1>0, <1>1, NewJobs DEF AskPid
  <2> QED
    BY <1>1, <2>1, RequestKeeps DEF AskPid, Knows, NameLabel
<1>2. CASE ChangePid
  <2>1. PICK pid \in Values :
          /\ Request("setPid")
          /\ job' = [job EXCEPT !["wifi"] = [NoJob EXCEPT !.kind = "setPid", !.pid = pid]]
    BY <1>2 DEF ChangePid
  <2>2. job' \in [Threads -> Jobs] /\ job'["main"] = job["main"] /\ job'["wifi"].pid = pid
    BY <1>0, <2>1, NewJobs
  <2>3. Knows("wifi", "setPid")'
    BY <2>2 DEF Knows, NameLabel
  <2> QED
    BY <2>1, <2>2, <2>3, RequestKeeps
<1>3. CASE ChangeAlgorithm
  <2>1. PICK name \in Names, value \in Values :
          /\ Request("saveArguments")
          /\ job' = [job EXCEPT !["wifi"] =
                       [NoJob EXCEPT !.kind = "setAlgorithm", !.name = name, !.value = value]]
    BY <1>3 DEF ChangeAlgorithm
  <2> DEFINE j == [NoJob EXCEPT !.kind = "setAlgorithm", !.name = name, !.value = value]
  <2>2. j \in Jobs /\ j.name = name /\ j.value = value
    BY NewJobs DEF Jobs
  <2>3. job' = [job EXCEPT !["wifi"] = j]
    BY <2>1
  <2> HIDE DEF j
  <2>4. job' \in [Threads -> Jobs] /\ job'["main"] = job["main"] /\ job'["wifi"] = j
    BY <1>0, <2>2, <2>3
  <2>5. Knows("wifi", "saveArguments")'
    BY <2>2, <2>4 DEF Knows, NameLabel
  <2> QED
    BY <2>1, <2>4, <2>5, RequestKeeps
<1>4. CASE AskAlgorithms
  <2>1. /\ job' \in [Threads -> Jobs] /\ job'["main"] = job["main"]
        /\ job'["wifi"].name = DefaultName
    BY <1>0, <1>4, NewJobs DEF AskAlgorithms
  <2>2. Knows("wifi", "load")'
    BY <2>1, NamesFacts DEF Knows, NameLabel
  <2> QED
    BY <1>4, <2>1, <2>2, RequestKeeps DEF AskAlgorithms
<1>5. CASE StartOrStop
  <2>1. /\ at["wifi"] = "ready" /\ early' = (early \/ at["main"] # "loop") /\ working' = ~working
        /\ UNCHANGED <<files, at, job, save, algorithm, a1Pid, tornBefore, refused>>
    BY <1>5 DEF StartOrStop, Arrive, threads
  <2>2. config' = config /\ TornFiles' = TornFiles /\ \A q \in Threads : Label(q)' = Label(q)
    BY <2>1 DEF config, TornFiles, Label
  <2>3. LifeTypeOK'
    BY <2>1, <2>2 DEF SafeInv, LifeTypeOK, FilesTypeOK, ContentsOK, RobotTypeOK, ThreadsTypeOK
  <2>4. JobInv'
    BY <2>1, <2>2 DEF SafeInv, JobInv
  <2>5. ~early' => ~early
    BY <2>1
  <2>6. TurnsInv'
    BY <2>1, <2>2, <2>5, Two DEF SafeInv, TurnsInv
  <2>7. TornOnlyByCrash'
    BY <2>1, <2>2, <2>5 DEF SafeInv, TornOnlyByCrash
  <2> QED
    BY <2>3, <2>4, <2>6, <2>7 DEF SafeInv
<1> QED
  BY <1>1, <1>2, <1>3, <1>4, <1>5 DEF App

LEMMA ReplyKeeps == ASSUME SafeInv, Reply PROVE SafeInv'
<1>1. /\ at["wifi"] = "reply" /\ Step("wifi", "ready") /\ Idle("wifi")
      /\ UNCHANGED <<algorithm, working, a1Pid, tornBefore, early>>
      /\ job' = [job EXCEPT !["wifi"] = NoJob]
  BY DEF Reply, Step, Idle, robot
<1>2. job' \in [Threads -> Jobs] /\ job'["main"] = job["main"]
  BY <1>1, NewJobs, Two DEF SafeInv, LifeTypeOK, ThreadsTypeOK
<1>3. RobotTypeOK'
  <2>1. refused' \in BOOLEAN
    BY DEF Reply
  <2> QED
    BY <1>1, <2>1 DEF SafeInv, LifeTypeOK, RobotTypeOK
<1>4. Knows("wifi", "ready")' /\ "ready" \in Labels \ {"save", "fill", "off", "connect"}
  BY DEF Knows, NameLabel, Labels
<1>5. "wifi" \in Threads /\ Other("wifi") = "main"
  BY Two DEF Other
<1> QED
  BY <1>1, <1>2, <1>3, <1>4, <1>5, StepKeeps

\* What ends a life ends it with what the files or the card hold.
LEMMA EndsOver == ASSUME Ends PROVE Over(files) \/ Over(card)
BY DEF Ends, Exit, Halt, PowerCut

\* The write-back leaves alone all but the card.
LEMMA SyncLeaves ==
  ASSUME \E f \in Files : Sync(f)
  PROVE  UNCHANGED <<files, threads, robot, history>>
BY DEF Sync

LEMMA NextSafe == SafeInv /\ CardTypeOK /\ [Next]_vars => SafeInv'
<1> SUFFICES ASSUME SafeInv, CardTypeOK, [Next]_vars PROVE SafeInv'
  OBVIOUS
<1>1. CASE Boot
  BY <1>1, BootKeeps
<1>2. CASE Main
  BY <1>2, WorkKeeps, MainKeeps, Two DEF Main
<1>3. CASE Wifi
  BY <1>3, WorkKeeps, ReplyKeeps, Two DEF Wifi
<1>4. CASE InitFails \/ BeepHangs
  BY <1>4, MainKeeps
<1>5. CASE Ends
  BY <1>5, EndsOver, OverKeeps DEF SafeInv, LifeTypeOK, FilesTypeOK, CardTypeOK
<1>6. CASE App
  BY <1>6, AppKeeps
<1>7. CASE UNCHANGED <<files, threads, robot, history>>
  <2>1. /\ UNCHANGED <<files, at, job, save, algorithm, working, a1Pid, tornBefore, early, refused>>
        /\ config' = config /\ TornFiles' = TornFiles /\ \A q \in Threads : Label(q)' = Label(q)
    BY <1>7 DEF threads, robot, history, config, TornFiles, Label
  <2>2. LifeTypeOK'
    BY <2>1 DEF SafeInv, LifeTypeOK, FilesTypeOK, ContentsOK, RobotTypeOK, ThreadsTypeOK
  <2>3. JobInv'
    BY <2>1 DEF SafeInv, JobInv
  <2>4. TurnsInv'
    BY <2>1, Two DEF SafeInv, TurnsInv
  <2>5. TornOnlyByCrash'
    BY <2>1 DEF SafeInv, TornOnlyByCrash
  <2> QED
    BY <2>2, <2>3, <2>4, <2>5 DEF SafeInv
<1> QED
  BY <1>1, <1>2, <1>3, <1>4, <1>5, <1>6, <1>7, SyncLeaves DEF Next, vars

\* What comes to the card was in a file.
LEMMA CardStep == SafeInv /\ CardTypeOK /\ [Next]_vars => CardTypeOK'
<1> SUFFICES ASSUME SafeInv, CardTypeOK, [Next]_vars PROVE CardTypeOK'
  OBVIOUS
<1>1. ContentsOK(files) /\ ContentsOK(card)
  BY DEF SafeInv, LifeTypeOK, FilesTypeOK, CardTypeOK
<1>2. CASE UNCHANGED card
  BY <1>1, <1>2 DEF CardTypeOK
<1>3. CASE Ends
  BY <1>1, <1>3, EndsOver DEF Over, CardTypeOK
<1>4. ASSUME NEW f \in Files, Sync(f) PROVE CardTypeOK'
  BY <1>1, <1>4, NamesFacts DEF Sync, CardTypeOK, ContentsOK
<1> QED
  BY <1>2, <1>3, <1>4 DEF Next, Boot, Main, Wifi, App, InitFails, BeepHangs, InitStops, vars

\* A thread that works on a file knows what for, the Wi-Fi thread waits for the main thread
\* unless a request came early, and no file is torn but by a cut, or by two threads at once.
THEOREM FilesSafe == Spec => [](SafeInv /\ CardTypeOK)
<1>1. Init => SafeInv /\ CardTypeOK
  BY InitSafe DEF Init, SafeInv, LifeTypeOK, FilesTypeOK, CardTypeOK
<1>2. SafeInv /\ CardTypeOK /\ [Next]_vars => SafeInv' /\ CardTypeOK'
  BY NextSafe, CardStep
<1> QED
  BY <1>1, <1>2, PTL DEF Spec

\* Every variable keeps its type.
THEOREM SettingsTypeCorrect == Spec => []TypeOK
<1>1. SafeInv /\ CardTypeOK => TypeOK
  BY DEF SafeInv, TypeOK
<1> QED
  BY FilesSafe, <1>1, PTL

\* A file of settings does not parse only while it is being saved, or since a life that ended
\* before it was saved and on the card, or when a request during the initialisation let two threads
\* save it at once (utils/config.py, algorithms/algorithm.py).
THEOREM TornFilesExplained == Spec => []TornOnlyByCrash
<1>1. SafeInv => TornOnlyByCrash
  BY DEF SafeInv
<1> QED
  BY FilesSafe, <1>1, PTL

-----------------------------------------------------------------------------
(* What is saved, and what the robot uses.                                  *)

UsedInv == KindInv /\ PidInv /\ AppliedInv

\* The invariants' parts, with the name of the file as a constant.
LEMMA StoredIs ==
  ASSUME NEW p \in Threads, NEW n
  PROVE  /\ job[p].name = n => (Stored(p) <=> Disk(n) = Arguments(job[p].value))
         /\ job'[p].name = n => (Stored(p)' <=> Disk(n)' = Arguments(job'[p].value))
BY DEF Stored, Disk, Saving

LEMMA AppliedIs ==
  ASSUME NEW n
  PROVE  /\ algorithm.name = n =>
              (Applied <=> /\ n = Disk("config").algorithm /\ n \in Names
                           /\ Disk(n) = Arguments(algorithm.value))
         /\ algorithm'.name = n =>
              (Applied' <=> /\ n = Disk("config")'.algorithm /\ n \in Names
                            /\ Disk(n)' = Arguments(algorithm'.value))
BY DEF Applied, Disk, Saving

\* What neither moves a thread nor saves.
LEMMA UsedView ==
  ASSUME UsedInv, ~early' => ~early, UNCHANGED <<job, algorithm, a1Pid, refused>>,
         \A q \in Threads : Label(q)' = Label(q),
         ~early => \A f : Disk(f)' = Disk(f)
  PROVE  UsedInv'
<1>1. KindInv'
  BY DEF UsedInv, KindInv
<1>2. CASE early'
  BY <1>1, <1>2 DEF UsedInv, PidInv, AppliedInv
<1>3. CASE ~early'
  <2>1. ~early /\ \A f : Disk(f)' = Disk(f)
    BY <1>3
  <2>2. PidInv'
    BY <2>1, Two DEF UsedInv, PidInv
  <2>3. ASSUME NEW q \in Threads PROVE (Stored(q)' <=> Stored(q)) /\ (Selected(q)' <=> Selected(q))
    <3>1. PICK n : n = job[q].name
      OBVIOUS
    <3>2. job'[q].name = n /\ job'[q].value = job[q].value /\ Disk(n)' = Disk(n)
      BY <2>1, <3>1
    <3>3. Stored(q)' <=> Stored(q)
      BY <3>1, <3>2, StoredIs
    <3>4. Selected(q)' <=> Selected(q)
      BY <2>1, <3>1, <3>2 DEF Selected
    <3> QED
      BY <3>3, <3>4
  <2>4. Applied' <=> Applied
    <3>1. PICK n : n = algorithm.name
      OBVIOUS
    <3>2. algorithm'.name = n /\ Disk(n)' = Disk(n) /\ Disk("config")' = Disk("config")
      BY <2>1, <3>1
    <3> QED
      BY <3>1, <3>2, AppliedIs
  <2>5. AppliedInv'
    BY <2>1, <2>3, <2>4, Two DEF UsedInv, AppliedInv
  <2> QED
    BY <1>1, <2>2, <2>5 DEF UsedInv
<1> QED
  BY <1>2, <1>3

\* Without an early request one thread is at the files, and what they hold is what they say.
LEMMA Alone ==
  ASSUME SafeInv, ~early, NEW p \in Threads, Idle(p), at[p] \notin {"off", "ready", "loop", "connect"}
  PROVE  /\ Idle(Other(p)) /\ \A f : Disk(f) = files[f]
         /\ p = "wifi" => at["main"] = "loop" /\ Label("main") = "loop"
         /\ p = "main" => at["wifi"] \in {"off", "ready"} /\ Label("wifi") = at["wifi"]
<1>1. /\ p = "wifi" => at["main"] = "loop"
      /\ p = "main" => at["wifi"] \in {"off", "ready"}
  BY Two DEF SafeInv, TurnsInv
<1>2. Idle("main") /\ Idle("wifi")
  BY <1>1, Two DEF Idle
<1> QED
  BY <1>1, <1>2, Two DEF Disk, Saving, Idle, Label, Other

\* A thread goes to a label, at once or when it has saved something.
Lands(p, label) ==
  \/ Goto(p, label) /\ UNCHANGED save
  \/ \E file, content : Save(p, file, content, label)

LEMMA LandsLabel ==
  ASSUME LifeTypeOK, NEW p \in Threads, Idle(p), NEW label, label \notin {"save", "fill"},
         Lands(p, label)
  PROVE  Label(p)' = label /\ Label(Other(p))' = Label(Other(p))
<1>1. CASE Goto(p, label) /\ UNCHANGED save
  <2>1. at'[p] = label /\ at'[Other(p)] = at[Other(p)]
    BY <1>1, Two DEF Goto, LifeTypeOK, ThreadsTypeOK
  <2> QED
    BY <1>1, <2>1 DEF Label
<1>2. ASSUME NEW file, NEW content, Save(p, file, content, label)
      PROVE  Label(p)' = label /\ Label(Other(p))' = Label(Other(p))
  <2>1. at'[p] = "save" /\ at'[Other(p)] = at[Other(p)]
    BY <1>2, Two DEF Save, Goto, LifeTypeOK, ThreadsTypeOK
  <2>2. save'[p].next = label /\ save'[Other(p)] = save[Other(p)]
    BY <1>2, Two DEF Save, LifeTypeOK, ThreadsTypeOK
  <2> QED
    BY <2>1, <2>2 DEF Label
<1> QED
  BY <1>1, <1>2 DEF Lands

LEMMA KindStep ==
  ASSUME SafeInv, KindInv, NEW p \in Threads, Idle(p), NEW label, label \notin {"save", "fill"},
         Lands(p, label), job'[Other(p)] = job[Other(p)],
         label \in KindLabels(job'[p].kind),
         job'[p].kind = "init" => p = "main",
         job'[p].kind \notin {"init", "none"} => p = "wifi",
         label \in {"ready", "reply"} => p = "wifi",
         label \in {"loop", "dead", "failed", "hung"} => p = "main"
  PROVE  KindInv'
<1>1. Label(p)' = label /\ Label(Other(p))' = Label(Other(p))
  BY LandsLabel DEF SafeInv
<1>2. \A q \in Threads : q = p \/ q = Other(p)
  BY DEF Threads, Other
<1>3. ASSUME NEW q \in Threads, q = Other(p)
      PROVE  /\ Label(q)' \in KindLabels(job'[q].kind)
             /\ job'[q].kind = "init" => q = "main"
             /\ job'[q].kind \notin {"init", "none"} => q = "wifi"
             /\ Label(q)' \in {"ready", "reply"} => q = "wifi"
             /\ Label(q)' \in {"loop", "dead", "failed", "hung"} => q = "main"
  <2>1. Label(q)' = Label(q) /\ job'[q] = job[q]
    BY <1>1, <1>3
  <2> QED
    BY <2>1 DEF KindInv
<1> QED
  BY <1>1, <1>2, <1>3 DEF KindInv

\* What a thread that is at a label does it for.
LEMMA KindOf ==
  ASSUME SafeInv, KindInv, NEW p \in Threads, Idle(p)
  PROVE  LET k == job[p].kind IN
         /\ at[p] = "getPid" => (k = "init" /\ p = "main") \/ (k = "getPid" /\ p = "wifi")
         /\ at[p] = "setPid" => k = "setPid" /\ p = "wifi"
         /\ at[p] = "sendPid" => (k = "init" /\ p = "main") \/ (k = "setPid" /\ p = "wifi")
         /\ at[p] = "getSelected" => k = "init" /\ p = "main"
         /\ at[p] = "saveArguments" => k = "setAlgorithm" /\ p = "wifi"
         /\ at[p] \in {"setSelected", "setAlgorithm"} =>
              (k = "init" /\ p = "main") \/ (k = "setAlgorithm" /\ p = "wifi")
         /\ at[p] \in {"load", "loaded"} =>
              (k = "init" /\ p = "main") \/ (k \in {"setAlgorithm", "list"} /\ p = "wifi")
         /\ at[p] \in {"off", "ready", "loop", "dead", "failed", "hung"} => k = "none"
<1>1. Label(p) = at[p]
  BY DEF Label, Idle
<1>2. job[p].kind \in {"none", "init", "getPid", "setPid", "setAlgorithm", "list"}
  BY DEF SafeInv, LifeTypeOK, ThreadsTypeOK, Jobs
<1>3. /\ at[p] \in KindLabels(job[p].kind)
      /\ job[p].kind = "init" => p = "main"
      /\ job[p].kind \notin {"init", "none"} => p = "wifi"
  BY <1>1 DEF KindInv
<1>4. /\ job[p].kind = "none" => at[p] \in {"off", "ready", "loop", "dead", "failed", "hung"}
      /\ job[p].kind = "init" =>
           at[p] \in {"connect", "getPid", "sendPid", "getSelected", "setSelected", "setAlgorithm",
                      "load", "loaded", "dateTime"}
      /\ job[p].kind = "getPid" => at[p] \in {"getPid", "reply"}
      /\ job[p].kind = "setPid" => at[p] \in {"setPid", "sendPid", "reply"}
      /\ job[p].kind = "setAlgorithm" =>
           at[p] \in {"saveArguments", "setSelected", "setAlgorithm", "load", "loaded", "reply"}
      /\ job[p].kind = "list" => at[p] \in {"load", "loaded", "reply"}
  BY <1>3 DEF KindLabels
<1>5. p \in {"main", "wifi"}
  BY Two
<1> QED
  BY <1>2, <1>3, <1>4, <1>5

LEMMA FailKinds ==
  ASSUME SafeInv, KindInv, NEW p \in Threads, Idle(p), Fail(p)
  PROVE  KindInv' /\ Label(p)' = (IF p = "main" THEN "dead" ELSE "ready")
         /\ Label(Other(p))' = Label(Other(p))
         /\ job'[p] = NoJob /\ job'[Other(p)] = job[Other(p)]
<1> DEFINE label == IF p = "main" THEN "dead" ELSE "ready"
<1>1. Lands(p, label)
  BY DEF Fail, Lands
<1>2. job'[p] = NoJob /\ job'[Other(p)] = job[Other(p)]
  BY Two DEF Fail, SafeInv, LifeTypeOK, ThreadsTypeOK
<1>3. NoJob.kind = "none" /\ label \in KindLabels("none") /\ label \notin {"save", "fill"}
  BY DEF NoJob, KindLabels
<1>4. (label = "ready" => p = "wifi") /\ (label = "dead" => p = "main")
      /\ label \notin {"reply", "loop", "failed", "hung"}
  BY Two
<1>5. label = IF p = "main" THEN "dead" ELSE "ready"
  OBVIOUS
<1> HIDE DEF label
<1>6. KindInv'
  BY <1>1, <1>2, <1>3, <1>4, KindStep
<1>7. Label(p)' = label /\ Label(Other(p))' = Label(Other(p))
  BY <1>1, <1>3, LandsLabel DEF SafeInv
<1> QED
  BY <1>2, <1>5, <1>6, <1>7

\* A step of a thread that keeps what it works for.
LEMMA OnwardKinds ==
  ASSUME SafeInv, KindInv, NEW p \in Threads, Idle(p), NEW label, label \notin {"save", "fill"},
         Lands(p, label), job'[Other(p)] = job[Other(p)], job'[p].kind = job[p].kind,
         label \in KindLabels(job[p].kind), label \notin {"ready", "loop", "dead", "failed", "hung"},
         label = "reply" => p = "wifi"
  PROVE  KindInv'
<1>1. job[p].kind = "init" => p = "main"
  BY DEF KindInv
<1>2. job[p].kind \notin {"init", "none"} => p = "wifi"
  BY DEF KindInv
<1> QED
  BY <1>1, <1>2, KindStep

LEMMA WorkKinds ==
  ASSUME SafeInv, KindInv, NEW p \in Threads, Work(p)
  PROVE  KindInv'
<1>0. LifeTypeOK /\ job \in [Threads -> Jobs]
  BY DEF SafeInv, LifeTypeOK, ThreadsTypeOK
<1>1. CASE Truncate(p) \/ Fill(p)
  <2>1. job' = job /\ Label(p)' = Label(p) /\ Label(Other(p))' = Label(Other(p))
    BY <1>1, TruncateKeeps, FillKeeps DEF Truncate, Fill
  <2>2. \A q \in Threads : Label(q)' = Label(q)
    BY <2>1 DEF Threads, Other
  <2> QED
    BY <2>1, <2>2 DEF KindInv
<1>2. CASE ConfigTorn(p)
  BY <1>2, FailKinds, Unlike DEF ConfigTorn
<1>3. CASE GetPid(p)
  <2>1. at[p] = "getPid" /\ Idle(p)
    BY <1>3, Unlike DEF GetPid, Readable
  <2>2. Lands(p, IF p = "main" THEN "sendPid" ELSE "reply")
    BY <1>3 DEF GetPid, Lands
  <2>3. job'[Other(p)] = job[Other(p)] /\ job'[p].kind = job[p].kind
    BY <1>0, <1>3, Two DEF GetPid, Jobs
  <2>4. (IF p = "main" THEN "sendPid" ELSE "reply") \in KindLabels(job[p].kind)
    BY <2>1, KindOf DEF KindLabels
  <2>5. CASE p = "main"
    BY <2>1, <2>2, <2>3, <2>4, <2>5, OnwardKinds
  <2>6. CASE p = "wifi"
    BY <2>1, <2>2, <2>3, <2>4, <2>6, OnwardKinds
  <2> QED
    BY <2>5, <2>6, Two
<1>4. CASE SetPid(p)
  <2>1. at[p] = "setPid" /\ Idle(p) /\ Lands(p, "sendPid") /\ job' = job
    BY <1>4, Unlike DEF SetPid, Readable, Lands
  <2>2. "sendPid" \in KindLabels(job[p].kind)
    BY <2>1, KindOf DEF KindLabels
  <2> QED
    BY <2>1, <2>2, OnwardKinds
<1>5. CASE SendPid(p)
  <2>1. CASE PidSent(p)
    <3>1. at[p] = "sendPid" /\ Idle(p) /\ Lands(p, IF p = "main" THEN "getSelected" ELSE "reply")
          /\ job' = job
      BY <2>1, Unlike DEF PidSent, Lands
    <3>2. (IF p = "main" THEN "getSelected" ELSE "reply") \in KindLabels(job[p].kind)
      BY <3>1, KindOf DEF KindLabels
    <3>3. CASE p = "main"
      BY <3>1, <3>2, <3>3, OnwardKinds
    <3>4. CASE p = "wifi"
      BY <3>1, <3>2, <3>4, OnwardKinds
    <3> QED
      BY <3>3, <3>4, Two
  <2>2. CASE Fail(p)
    BY <1>5, <2>2, Unlike, FailKinds, SendPidIs
  <2> QED
    BY <1>5, <2>1, <2>2, SendPidIs
<1>6. CASE GetSelected(p)
  <2>1. PICK label, name :
          /\ label \in {"setSelected", "setAlgorithm"}
          /\ Goto(p, label) /\ job' = [job EXCEPT ![p].name = name]
    BY <1>6 DEF GetSelected
  <2>2. at[p] = "getSelected" /\ Idle(p) /\ Lands(p, label)
    BY <1>6, <2>1, Unlike DEF GetSelected, Readable, Lands
  <2>3. job'[Other(p)] = job[Other(p)] /\ job'[p].kind = job[p].kind
    BY <1>0, <2>1, Two DEF Jobs
  <2>4. label \in KindLabels(job[p].kind)
    BY <2>1, <2>2, KindOf DEF KindLabels
  <2> QED
    BY <2>1, <2>2, <2>3, <2>4, OnwardKinds
<1>7. CASE SaveArguments(p)
  <2>1. at[p] = "saveArguments" /\ Idle(p) /\ Lands(p, "setSelected") /\ job' = job
    BY <1>7, Unlike DEF SaveArguments, Lands
  <2>2. "setSelected" \in KindLabels(job[p].kind)
    BY <2>1, KindOf DEF KindLabels
  <2> QED
    BY <2>1, <2>2, OnwardKinds
<1>8. CASE SetSelected(p)
  <2>1. at[p] = "setSelected" /\ Idle(p) /\ Lands(p, "setAlgorithm") /\ job' = job
    BY <1>8, Unlike DEF SetSelected, Readable, Lands
  <2>2. "setAlgorithm" \in KindLabels(job[p].kind)
    BY <2>1, KindOf DEF KindLabels
  <2> QED
    BY <2>1, <2>2, OnwardKinds
<1>9. CASE SetAlgorithm(p)
  <2>1. at[p] = "setAlgorithm" /\ Idle(p)
    BY <1>9, Unlike DEF SetAlgorithm
  <2>2. CASE Fail(p)
    BY <2>1, <2>2, FailKinds
  <2>3. CASE Goto(p, "load") /\ UNCHANGED <<files, job, save, robot, history>>
    <3>1. "load" \in KindLabels(job[p].kind)
      BY <2>1, KindOf DEF KindLabels
    <3> QED
      BY <2>1, <2>3, <3>1, OnwardKinds DEF Lands
  <2> QED
    BY <1>9, <2>2, <2>3 DEF SetAlgorithm
<1>10. CASE Load(p)
  <2>1. at[p] = "load" /\ Idle(p)
    BY <1>10, Unlike DEF Load
  <2>2. CASE Fail(p)
    BY <2>1, <2>2, FailKinds
  <2>3. CASE ~Fail(p)
    <3>1. PICK value : job' = [job EXCEPT ![p].value = value]
      BY <1>10, <2>3 DEF Load
    <3>2. Lands(p, "loaded")
      BY <1>10, <2>3 DEF Load, Lands
    <3>3. job'[Other(p)] = job[Other(p)] /\ job'[p].kind = job[p].kind
      BY <1>0, <3>1, Two DEF Jobs
    <3>4. "loaded" \in KindLabels(job[p].kind)
      BY <2>1, KindOf DEF KindLabels
    <3> QED
      BY <2>1, <3>2, <3>3, <3>4, OnwardKinds
  <2> QED
    BY <2>2, <2>3
<1>11. CASE Assign(p)
  <2>1. at[p] = "loaded" /\ Idle(p) /\ Lands(p, IF p = "main" THEN "dateTime" ELSE "reply")
        /\ job' = job /\ job[p].kind # "list"
    BY <1>11, Unlike DEF Assign, Lands
  <2>2. (IF p = "main" THEN "dateTime" ELSE "reply") \in KindLabels(job[p].kind)
    BY <2>1, KindOf DEF KindLabels
  <2>3. CASE p = "main"
    BY <2>1, <2>2, <2>3, OnwardKinds
  <2>4. CASE p = "wifi"
    BY <2>1, <2>2, <2>4, OnwardKinds
  <2> QED
    BY <2>3, <2>4, Two
<1>12. CASE ListNext(p)
  <2>1. at[p] = "loaded" /\ Idle(p) /\ job[p].kind = "list"
    BY <1>12, Unlike DEF ListNext
  <2>2. p = "wifi" /\ "load" \in KindLabels("list") /\ "reply" \in KindLabels("list")
    BY <2>1, KindOf DEF KindLabels
  <2>3. CASE Fail(p)
    BY <2>1, <2>3, FailKinds
  <2>4. CASE job[p].rest # <<>>
    <3>1. /\ job' = [job EXCEPT ![p].name = Head(job[p].rest), ![p].rest = Tail(@)]
          /\ Lands(p, "load")
      BY <1>12, <2>4 DEF ListNext, Lands
    <3>2. job'[Other(p)] = job[Other(p)] /\ job'[p].kind = job[p].kind
      BY <1>0, <3>1, Two DEF Jobs
    <3> QED
      BY <2>1, <2>2, <3>1, <3>2, OnwardKinds
  <2>5. CASE job[p].rest = <<>> /\ ~Fail(p)
    <3>1. Lands(p, "reply") /\ job' = job
      BY <1>12, <2>5 DEF ListNext, Lands
    <3> QED
      BY <2>1, <2>2, <3>1, OnwardKinds
  <2> QED
    BY <2>3, <2>4, <2>5
<1> QED
  BY <1>1, <1>2, <1>3, <1>4, <1>5, <1>6, <1>7, <1>8, <1>9, <1>10, <1>11, <1>12 DEF Work

\* What has to hold after a step of the main thread while the other is idle, and after a step
\* of the Wi-Fi thread while the main thread is in its loop.
LEMMA MainUses ==
  ASSUME KindInv', NEW label, Label("main")' = label, Label("wifi")' \in {"off", "ready"},
         label \in Configured => Disk("config")' \in Configs,
         label = "sendPid" => Disk("config")'.pid = job'["main"].pid,
         label \in Configured \ {"sendPid"} =>
           Follows(a1Pid', Disk("config")'.pid),
         label \in {"setAlgorithm", "load", "loaded"} =>
           Disk("config")'.algorithm = job'["main"].name,
         label = "loaded" => Stored("main")',
         label \in {"dateTime", "loop"} => Applied'
  PROVE  PidInv' /\ AppliedInv'
<1>1. job'["wifi"].kind # "setAlgorithm"
  <2>1. Label("wifi")' \in KindLabels(job'["wifi"].kind)
    BY Two DEF KindInv
  <2>2. "off" \notin KindLabels("setAlgorithm") /\ "ready" \notin KindLabels("setAlgorithm")
    BY DEF KindLabels
  <2> QED
    BY <2>1, <2>2
<1>2. PidInv'
  BY Two DEF PidInv
<1>3. AppliedInv'
  BY <1>1, Two DEF AppliedInv, Selected
<1> QED
  BY <1>2, <1>3

LEMMA WifiUses ==
  ASSUME NEW label, Label("main")' = "loop", Label("wifi")' = label,
         Disk("config")' \in Configs,
         label = "sendPid" => Disk("config")'.pid = job'["wifi"].pid,
         label # "sendPid" => Follows(a1Pid', Disk("config")'.pid),
         job'["wifi"].kind = "setAlgorithm" =>
           /\ label \in {"setSelected", "setAlgorithm", "load", "loaded"} => Stored("wifi")'
           /\ label \in {"setAlgorithm", "load", "loaded"} =>
                Disk("config")'.algorithm = job'["wifi"].name
           /\ label = "reply" => Applied',
         job'["wifi"].kind # "setAlgorithm" => refused' \/ Applied'
  PROVE  PidInv' /\ AppliedInv'
<1>1. PidInv'
  BY Two DEF PidInv
<1>2. AppliedInv'
  BY Two DEF AppliedInv, Selected
<1> QED
  BY <1>1, <1>2

\* What stays true while the files it is about do.
LEMMA AppliedStays ==
  ASSUME Applied, UNCHANGED algorithm,
         Disk("config")'.algorithm = Disk("config").algorithm,
         \A f \in Names : f = algorithm.name => Disk(f)' = Disk(f)
  PROVE  Applied'
<1>1. PICK n : n = algorithm.name
  OBVIOUS
<1>2. n \in Names /\ Disk(n) = Arguments(algorithm.value) /\ n = Disk("config").algorithm
  BY <1>1, AppliedIs
<1>3. Disk(n)' = Disk(n) /\ algorithm'.name = n /\ algorithm'.value = algorithm.value
  BY <1>1, <1>2
<1> QED
  BY <1>2, <1>3, AppliedIs

LEMMA StoredStays ==
  ASSUME NEW p \in Threads, Stored(p), job[p].name \in Names,
         job'[p].name = job[p].name, job'[p].value = job[p].value,
         \A f \in Names : f = job[p].name => Disk(f)' = Disk(f)
  PROVE  Stored(p)'
<1>1. PICK n : n = job[p].name
  OBVIOUS
<1> QED
  BY <1>1, StoredIs

\* What is on the disk after a step of the only thread at the files.
LEMMA SaveDisk ==
  ASSUME SafeInv, ~early, NEW p \in Threads, Idle(p),
         at[p] \notin {"off", "ready", "loop", "connect"},
         NEW label, label \notin {"save", "fill"},
         NEW file, NEW content, Save(p, file, content, label), UNCHANGED files
  PROVE  /\ Disk(file)' = content /\ \A f : f # file => Disk(f)' = Disk(f)
         /\ Label(p)' = label /\ Label(Other(p))' = Label(Other(p))
<1>1. Idle(Other(p)) /\ \A f : Disk(f) = files[f]
  BY Alone
<1>2. at'[p] = "save" /\ at'[Other(p)] = at[Other(p)]
  BY Two DEF Save, Goto, SafeInv, LifeTypeOK, ThreadsTypeOK
<1>3. save'[p] = [file |-> file, content |-> content, next |-> label]
  BY DEF Save, SafeInv, LifeTypeOK, ThreadsTypeOK
<1>4. \A f : Saving(p, f)' = (f = file) /\ Saving(Other(p), f)' = FALSE
  BY <1>1, <1>2, <1>3 DEF Saving, Idle
<1>5. save'[p].content = content
  BY <1>3
<1>6. Disk(file)' = content
  BY <1>4, <1>5, Two DEF Disk
<1>7. \A f : f # file => Disk(f)' = Disk(f)
  BY <1>1, <1>4, Two DEF Disk
<1>8. Lands(p, label)
  BY DEF Lands
<1> QED
  BY <1>6, <1>7, <1>8, LandsLabel DEF SafeInv

LEMMA GotoDisk ==
  ASSUME SafeInv, ~early, NEW p \in Threads, Idle(p),
         at[p] \notin {"off", "ready", "loop", "connect"},
         NEW label, label \notin {"save", "fill"}, Goto(p, label), UNCHANGED <<files, save>>
  PROVE  /\ \A f : Disk(f)' = Disk(f)
         /\ Label(p)' = label /\ Label(Other(p))' = Label(Other(p))
<1>1. Idle(Other(p)) /\ \A f : Disk(f) = files[f]
  BY Alone
<1>2. at'[p] = label /\ at'[Other(p)] = at[Other(p)]
  BY Two DEF Goto, SafeInv, LifeTypeOK, ThreadsTypeOK
<1>3. \A f : Saving(p, f)' = FALSE /\ Saving(Other(p), f)' = FALSE
  BY <1>1, <1>2 DEF Saving, Idle
<1>4. \A f : Disk(f)' = Disk(f)
  BY <1>1, <1>3, Two DEF Disk
<1>5. Lands(p, label)
  BY DEF Lands
<1> QED
  BY <1>4, <1>5, LandsLabel DEF SafeInv

\* What a thread that is alone at the files may rely on.
LEMMA MainKnows ==
  ASSUME SafeInv, UsedInv, ~early, Idle("main"),
         at["main"] \notin {"off", "ready", "loop", "connect"}
  PROVE  /\ Label("main") = at["main"] /\ Label("wifi") \in {"off", "ready"}
         /\ Disk("config") = config /\ \A f : Disk(f) = files[f]
         /\ at["main"] \in Configured => config \in Configs
         /\ at["main"] = "sendPid" => config.pid = job["main"].pid
         /\ at["main"] \in Configured \ {"sendPid"} => Follows(a1Pid, config.pid)
         /\ at["main"] \in {"setAlgorithm", "load", "loaded"} => config.algorithm = job["main"].name
         /\ at["main"] = "loaded" => Stored("main")
<1>1. /\ Label("main") = at["main"] /\ Label("wifi") \in {"off", "ready"}
      /\ Disk("config") = config /\ \A f : Disk(f) = files[f]
  BY Alone, Two DEF Label, Idle, config
<1>2. /\ at["main"] \in Configured => config \in Configs
      /\ at["main"] = "sendPid" => config.pid = job["main"].pid
      /\ at["main"] \in Configured \ {"sendPid"} => Follows(a1Pid, config.pid)
  BY <1>1, Two DEF UsedInv, PidInv, Configured
<1>3. /\ at["main"] \in {"setAlgorithm", "load", "loaded"} => config.algorithm = job["main"].name
      /\ at["main"] = "loaded" => Stored("main")
  BY <1>1 DEF UsedInv, AppliedInv, Selected
<1> QED
  BY <1>1, <1>2, <1>3

LEMMA WifiKnows ==
  ASSUME SafeInv, UsedInv, ~early, Idle("wifi"), at["wifi"] \notin {"off", "ready", "loop", "connect"}
  PROVE  /\ Label("wifi") = at["wifi"] /\ Label("main") = "loop"
         /\ Disk("config") = config /\ \A f : Disk(f) = files[f]
         /\ config \in Configs
         /\ at["wifi"] = "sendPid" => config.pid = job["wifi"].pid
         /\ at["wifi"] # "sendPid" => Follows(a1Pid, config.pid)
         /\ job["wifi"].kind = "setAlgorithm" =>
              /\ at["wifi"] \in {"setSelected", "setAlgorithm", "load", "loaded"} => Stored("wifi")
              /\ at["wifi"] \in {"setAlgorithm", "load", "loaded"} =>
                   config.algorithm = job["wifi"].name
         /\ job["wifi"].kind # "setAlgorithm" => refused \/ Applied
<1>1. /\ Label("wifi") = at["wifi"] /\ Label("main") = "loop"
      /\ Disk("config") = config /\ \A f : Disk(f) = files[f]
  BY Alone, Two DEF Label, Idle, config
<1>2. /\ config \in Configs
      /\ at["wifi"] = "sendPid" => config.pid = job["wifi"].pid
      /\ at["wifi"] # "sendPid" => Follows(a1Pid, config.pid)
  BY <1>1, Two DEF UsedInv, PidInv, Configured
<1>3. /\ job["wifi"].kind = "setAlgorithm" =>
           /\ at["wifi"] \in {"setSelected", "setAlgorithm", "load", "loaded"} => Stored("wifi")
           /\ at["wifi"] \in {"setAlgorithm", "load", "loaded"} =>
                config.algorithm = job["wifi"].name
      /\ job["wifi"].kind # "setAlgorithm" => refused \/ Applied
  BY <1>1 DEF UsedInv, AppliedInv, Selected
<1> QED
  BY <1>1, <1>2, <1>3

\* A step that fails.
LEMMA FailUses ==
  ASSUME SafeInv, UsedInv, KindInv', ~early, NEW p \in Threads, Idle(p),
         at[p] \notin {"off", "ready", "loop", "connect"}, Fail(p),
         p = "wifi" => at["wifi"] # "sendPid"
  PROVE  PidInv' /\ AppliedInv'
<1> DEFINE label == IF p = "main" THEN "dead" ELSE "ready"
<1>1. /\ Goto(p, label) /\ label \notin {"save", "fill"}
      /\ UNCHANGED <<files, save, algorithm, working, a1Pid>>
      /\ refused' = (refused \/ (p = "wifi" /\ job[p].kind = "setAlgorithm"))
  BY DEF Fail, robot
<1>2. job'[p] = NoJob /\ NoJob.kind = "none" /\ KindInv
  BY FailKinds DEF NoJob, UsedInv
<1>3. \A f : Disk(f)' = Disk(f)
  BY <1>1, GotoDisk
<1>4. Label(p)' = label /\ Label(Other(p))' = Label(Other(p))
  BY <1>1, GotoDisk
<1>5. CASE p = "main"
  <2>1. Label("main")' = "dead" /\ Label("wifi")' \in {"off", "ready"}
    BY <1>4, <1>5, MainKnows DEF Other
  <2> QED
    BY <2>1, MainUses DEF Configured
<1>6. CASE p = "wifi"
  <2>1. Label("main")' = "loop" /\ Label("wifi")' = "ready"
    BY <1>4, <1>6, WifiKnows DEF Other
  <2>2. Disk("config")' \in Configs /\ Follows(a1Pid', Disk("config")'.pid)
    BY <1>1, <1>3, <1>6, WifiKnows
  <2>3. refused' \/ Applied'
    <3>1. CASE job["wifi"].kind = "setAlgorithm"
      BY <1>1, <1>6, <3>1
    <3>2. CASE job["wifi"].kind # "setAlgorithm" /\ refused
      BY <1>1, <3>2
    <3>3. CASE job["wifi"].kind # "setAlgorithm" /\ ~refused
      <4>1. Applied
        BY <1>6, <3>3, WifiKnows
      <4> QED
        BY <1>1, <1>3, <4>1, AppliedStays
    <3> QED
      BY <3>1, <3>2, <3>3
  <2> QED
    BY <1>2, <1>6, <2>1, <2>2, <2>3, WifiUses
<1> QED
  BY <1>5, <1>6, Two

LEMMA GetPidUses ==
  ASSUME SafeInv, UsedInv, KindInv', ~early, NEW p \in Threads, GetPid(p)
  PROVE  PidInv' /\ AppliedInv'
<1> DEFINE pid == IF config.pid = "none" THEN Default ELSE config.pid
           label == IF p = "main" THEN "sendPid" ELSE "reply"
<1>1. at[p] = "getPid" /\ config # Torn /\ Idle(p) /\ at[p] \notin {"off", "ready", "loop", "connect"}
  BY Unlike DEF GetPid, Readable
<1>2. config \in Configs
  BY <1>1, ConfigRead
<1>3. PICK c : c = [config EXCEPT !.pid = pid]
  OBVIOUS
<1>4. pid \in Values /\ c \in Configs /\ c.pid = pid /\ c.algorithm = config.algorithm
  BY <1>2, <1>3, ConfigFacts, NamesFacts
<1>5. /\ job' = [job EXCEPT ![p].pid = pid] /\ files' = files
      /\ UNCHANGED <<algorithm, a1Pid, refused>>
      /\ label \notin {"save", "fill"}
      /\ \/ config.pid = "none" /\ Save(p, "config", c, label)
         \/ config.pid # "none" /\ Goto(p, label) /\ UNCHANGED save
  BY <1>3 DEF GetPid, robot, history
<1>6. /\ job'[p].pid = pid /\ job'[p].name = job[p].name /\ job'[p].kind = job[p].kind
  BY <1>4, <1>5, JobPid DEF SafeInv
<1>7. CASE p = "main"
  <2>1. Label("main") = "getPid" /\ Label("wifi") \in {"off", "ready"} /\ Disk("config") = config
    BY <1>1, <1>7, MainKnows
  <2>2. CASE config.pid = "none"
    <3>1. /\ Disk("config")' = c
          /\ Label("main")' = label /\ Label("wifi")' = Label("wifi")
      BY <1>1, <1>5, <1>7, <2>2, SaveDisk DEF Other
    <3> QED
      BY <1>4, <1>6, <1>7, <2>1, <3>1, MainUses
  <2>3. CASE config.pid # "none"
    <3>1. /\ Disk("config")' = config
          /\ Label("main")' = label /\ Label("wifi")' = Label("wifi")
      BY <1>1, <1>5, <1>7, <2>1, <2>3, GotoDisk DEF Other
    <3> QED
      BY <1>2, <1>6, <1>7, <2>1, <2>3, <3>1, MainUses
  <2> QED
    BY <2>2, <2>3
<1>8. CASE p = "wifi"
  <2>1. /\ Label("main") = "loop" /\ Disk("config") = config
        /\ Follows(a1Pid, config.pid)
    BY <1>1, <1>8, WifiKnows
  <2>2. config.pid # "none"
    BY <2>1, NamesFacts DEF Follows
  <2>3. (\A f : Disk(f)' = Disk(f)) /\ Label("wifi")' = "reply" /\ Label("main")' = "loop"
    BY <1>1, <1>5, <1>8, <2>1, <2>2, GotoDisk DEF Other
  <2>4. job'["wifi"].kind = "getPid"
    BY <1>1, <1>6, <1>8, KindOf DEF UsedInv
  <2>5. refused' \/ Applied'
    <3>1. refused \/ Applied
      BY <1>1, <1>6, <1>8, <2>4, WifiKnows
    <3> QED
      BY <1>5, <2>3, <3>1, AppliedStays
  <2> QED
    BY <1>2, <1>5, <2>1, <2>3, <2>4, <2>5, WifiUses
<1> QED
  BY <1>7, <1>8, Two

LEMMA SetPidUses ==
  ASSUME SafeInv, UsedInv, KindInv', ~early, NEW p \in Threads, SetPid(p)
  PROVE  PidInv' /\ AppliedInv'
<1>1. at[p] = "setPid" /\ config # Torn /\ Idle(p) /\ at[p] \notin {"off", "ready", "loop", "connect"}
      /\ Label(p) = "setPid"
  BY Unlike DEF SetPid, Readable
<1>2. p = "wifi" /\ job[p].kind = "setPid"
  BY <1>1, KindOf DEF UsedInv
<1>3. job[p].pid \in Values /\ config \in Configs
  BY <1>1, ConfigRead DEF SafeInv, JobInv
<1>4. PICK c : c = [config EXCEPT !.pid = job[p].pid]
  OBVIOUS
<1>5. c \in Configs /\ c.pid = job[p].pid /\ c.algorithm = config.algorithm
  BY <1>3, <1>4, ConfigFacts
<1>6. Save(p, "config", c, "sendPid") /\ UNCHANGED <<files, job, algorithm, a1Pid, refused>>
  BY <1>4 DEF SetPid, robot, history
<1>7. /\ Disk("config")' = c /\ \A f : f # "config" => Disk(f)' = Disk(f)
      /\ Label("wifi")' = "sendPid" /\ Label("main")' = Label("main")
  BY <1>1, <1>2, <1>6, SaveDisk DEF Other
<1>8. Label("main") = "loop" /\ Disk("config") = config /\ (refused \/ Applied)
  BY <1>1, <1>2, WifiKnows
<1>9. refused' \/ Applied'
  BY <1>5, <1>6, <1>7, <1>8, AppliedStays, NamesFacts
<1> QED
  BY <1>2, <1>5, <1>6, <1>7, <1>8, <1>9, WifiUses

LEMMA PidSentUses ==
  ASSUME SafeInv, UsedInv, KindInv', ~early, NEW p \in Threads, PidSent(p)
  PROVE  PidInv' /\ AppliedInv'
<1> DEFINE label == IF p = "main" THEN "getSelected" ELSE "reply"
<1>1. at[p] = "sendPid" /\ Idle(p) /\ at[p] \notin {"off", "ready", "loop", "connect"}
      /\ Label(p) = "sendPid"
  BY Unlike DEF PidSent
<1>2. job[p].pid \in Values
  BY <1>1 DEF SafeInv, JobInv
<1>3. /\ Goto(p, label) /\ label \notin {"save", "fill"} /\ Follows(a1Pid', job[p].pid)
      /\ UNCHANGED <<files, job, save, algorithm, refused>>
  BY <1>2 DEF PidSent, Follows, history
<1>4. \A f : Disk(f)' = Disk(f)
  BY <1>1, <1>3, GotoDisk
<1>5. Label(p)' = label /\ Label(Other(p))' = Label(Other(p))
  BY <1>1, <1>3, GotoDisk
<1>6. CASE p = "main"
  <2>1. /\ config \in Configs /\ config.pid = job[p].pid /\ Label("wifi") \in {"off", "ready"}
        /\ Disk("config") = config
    BY <1>1, <1>6, MainKnows DEF Configured
  <2>2. Disk("config")' = config /\ Label("main")' = "getSelected" /\ Label("wifi")' = Label("wifi")
    BY <1>4, <1>5, <1>6, <2>1 DEF Other
  <2> QED
    BY <1>2, <1>3, <2>1, <2>2, MainUses
<1>7. CASE p = "wifi"
  <2>1. /\ config \in Configs /\ config.pid = job[p].pid /\ Label("main") = "loop"
        /\ Disk("config") = config
    BY <1>1, <1>7, WifiKnows
  <2>2. Disk("config")' = config /\ Label("wifi")' = "reply" /\ Label("main")' = "loop"
    BY <1>4, <1>5, <1>7, <2>1 DEF Other
  <2>3. job'["wifi"].kind = "setPid" /\ job["wifi"].kind = "setPid"
    BY <1>1, <1>3, <1>7, KindOf DEF UsedInv
  <2>4. refused' \/ Applied'
    BY <1>1, <1>3, <1>4, <1>7, <2>3, WifiKnows, AppliedStays
  <2> QED
    BY <1>2, <1>3, <2>1, <2>2, <2>3, <2>4, WifiUses
<1> QED
  BY <1>6, <1>7, Two

LEMMA GetSelectedUses ==
  ASSUME SafeInv, UsedInv, KindInv', ~early, NEW p \in Threads, GetSelected(p)
  PROVE  PidInv' /\ AppliedInv'
<1>1. at[p] = "getSelected" /\ Idle(p) /\ at[p] \notin {"off", "ready", "loop", "connect"}
  BY Unlike DEF GetSelected, Readable
<1>2. p = "main"
  BY <1>1, KindOf DEF UsedInv
<1>3. /\ config \in Configs /\ Label("wifi") \in {"off", "ready"} /\ Disk("config") = config
      /\ Follows(a1Pid, config.pid)
  BY <1>1, <1>2, MainKnows DEF Configured
<1>4. PICK name \in Names, label \in {"setSelected", "setAlgorithm"} :
        /\ job' = [job EXCEPT ![p].name = name] /\ Goto(p, label)
        /\ label = "setAlgorithm" => name = config.algorithm
  BY <1>3, ConfigFacts, NamesFacts DEF GetSelected
<1>5. UNCHANGED <<files, save, algorithm, a1Pid, refused>>
  BY DEF GetSelected, robot, history
<1>6. job'[p].name = name
  BY <1>4, JobName DEF SafeInv
<1>7. Disk("config")' = config /\ Label("main")' = label /\ Label("wifi")' = Label("wifi")
  BY <1>1, <1>2, <1>3, <1>4, <1>5, GotoDisk DEF Other
<1> QED
  BY <1>2, <1>3, <1>4, <1>5, <1>6, <1>7, MainUses

LEMMA SaveArgumentsUses ==
  ASSUME SafeInv, UsedInv, KindInv', ~early, NEW p \in Threads, SaveArguments(p)
  PROVE  PidInv' /\ AppliedInv'
<1>1. at[p] = "saveArguments" /\ Idle(p) /\ at[p] \notin {"off", "ready", "loop", "connect"}
      /\ Label(p) = "saveArguments"
  BY Unlike DEF SaveArguments
<1>2. p = "wifi" /\ job[p].kind = "setAlgorithm"
  BY <1>1, KindOf DEF UsedInv
<1>3. PICK name, content :
          name \in Names /\ name = job[p].name /\ content = Arguments(job[p].value)
  BY <1>1 DEF SafeInv, JobInv, NameLabel
<1>4. Save(p, name, content, "setSelected") /\ UNCHANGED <<files, job, algorithm, a1Pid, refused>>
  BY <1>3 DEF SaveArguments, robot, history
<1>5. /\ Disk(name)' = content /\ Disk("config")' = Disk("config")
      /\ Label("wifi")' = "setSelected" /\ Label("main")' = Label("main")
  BY <1>1, <1>2, <1>3, <1>4, SaveDisk, NamesFacts DEF Other
<1>6. /\ Label("main") = "loop" /\ Disk("config") = config /\ config \in Configs
      /\ Follows(a1Pid, config.pid)
  BY <1>1, <1>2, WifiKnows
<1>7. Stored("wifi")'
  BY <1>2, <1>3, <1>4, <1>5, StoredIs
<1> QED
  BY <1>2, <1>4, <1>5, <1>6, <1>7, WifiUses

LEMMA SetSelectedUses ==
  ASSUME SafeInv, UsedInv, KindInv', ~early, NEW p \in Threads, SetSelected(p)
  PROVE  PidInv' /\ AppliedInv'
<1>1. at[p] = "setSelected" /\ config # Torn /\ Idle(p)
      /\ at[p] \notin {"off", "ready", "loop", "connect"} /\ Label(p) = "setSelected"
  BY Unlike DEF SetSelected, Readable
<1>2. job[p].name \in Names /\ config \in Configs
  BY <1>1, ConfigRead DEF SafeInv, JobInv, NameLabel
<1>3. PICK c : c = [config EXCEPT !.algorithm = job[p].name]
  OBVIOUS
<1>4. c \in Configs /\ c.algorithm = job[p].name /\ c.pid = config.pid
  BY <1>2, <1>3, ConfigFacts
<1>5. Save(p, "config", c, "setAlgorithm") /\ UNCHANGED <<files, job, algorithm, a1Pid, refused>>
  BY <1>3 DEF SetSelected, robot, history
<1>6. Disk("config")' = c /\ \A f : f # "config" => Disk(f)' = Disk(f)
  BY <1>1, <1>5, SaveDisk
<1>7. Label(p)' = "setAlgorithm" /\ Label(Other(p))' = Label(Other(p))
  BY <1>1, <1>5, SaveDisk
<1>8. CASE p = "main"
  <2>1. Label("wifi") \in {"off", "ready"} /\ Follows(a1Pid, config.pid)
    BY <1>1, <1>8, MainKnows DEF Configured
  <2>2. Label("main")' = "setAlgorithm" /\ Label("wifi")' = Label("wifi")
    BY <1>7, <1>8 DEF Other
  <2> QED
    BY <1>4, <1>5, <1>6, <1>8, <2>1, <2>2, MainUses
<1>9. CASE p = "wifi"
  <2>1. job["wifi"].kind = "setAlgorithm"
    BY <1>1, <1>9, KindOf DEF UsedInv
  <2>2. Label("main") = "loop" /\ Follows(a1Pid, config.pid) /\ Stored("wifi")
    BY <1>1, <1>9, <2>1, WifiKnows
  <2>3. Label("wifi")' = "setAlgorithm" /\ Label("main")' = "loop"
    BY <1>7, <1>9, <2>2 DEF Other
  <2>4. Stored("wifi")'
    BY <1>2, <1>5, <1>6, <1>9, <2>2, StoredStays, NamesFacts
  <2> QED
    BY <1>4, <1>5, <1>6, <1>9, <2>1, <2>2, <2>3, <2>4, WifiUses
<1> QED
  BY <1>8, <1>9, Two

LEMMA SetAlgorithmUses ==
  ASSUME SafeInv, UsedInv, KindInv', ~early, NEW p \in Threads, SetAlgorithm(p)
  PROVE  PidInv' /\ AppliedInv'
<1>1. at[p] = "setAlgorithm" /\ Idle(p) /\ at[p] \notin {"off", "ready", "loop", "connect"}
      /\ Label(p) = "setAlgorithm" /\ job[p].name \in Names
  BY Unlike DEF SetAlgorithm, SafeInv, JobInv, NameLabel
<1>2. CASE Fail(p)
  BY <1>1, <1>2, FailUses
<1>3. CASE Goto(p, "load") /\ UNCHANGED <<files, job, save, robot, history>>
  <2>1. UNCHANGED <<files, job, save, algorithm, a1Pid, refused>>
    BY <1>3 DEF robot, history
  <2>2. \A f : Disk(f)' = Disk(f)
    BY <1>1, <1>3, <2>1, GotoDisk
  <2>3. Label(p)' = "load" /\ Label(Other(p))' = Label(Other(p))
    BY <1>1, <1>3, <2>1, GotoDisk
  <2>4. CASE p = "main"
    <3>1. /\ config \in Configs /\ Label("wifi") \in {"off", "ready"} /\ Disk("config") = config
          /\ Follows(a1Pid, config.pid) /\ config.algorithm = job["main"].name
      BY <1>1, <2>4, MainKnows DEF Configured
    <3>2. Label("main")' = "load" /\ Label("wifi")' = Label("wifi") /\ Disk("config")' = config
      BY <2>2, <2>3, <2>4, <3>1 DEF Other
    <3> QED
      BY <2>1, <3>1, <3>2, MainUses
  <2>5. CASE p = "wifi"
    <3>1. job["wifi"].kind = "setAlgorithm"
      BY <1>1, <2>5, KindOf DEF UsedInv
    <3>2. /\ config \in Configs /\ Label("main") = "loop" /\ Disk("config") = config
          /\ Follows(a1Pid, config.pid) /\ config.algorithm = job["wifi"].name
          /\ Stored("wifi")
      BY <1>1, <2>5, <3>1, WifiKnows
    <3>3. Label("wifi")' = "load" /\ Label("main")' = "loop" /\ Disk("config")' = config
      BY <2>2, <2>3, <2>5, <3>2 DEF Other
    <3>4. Stored("wifi")'
      BY <1>1, <2>1, <2>2, <2>5, <3>2, StoredStays
    <3> QED
      BY <2>1, <3>1, <3>2, <3>3, <3>4, WifiUses
  <2> QED
    BY <2>4, <2>5, Two
<1> QED
  BY <1>2, <1>3 DEF SetAlgorithm

LEMMA LoadUses ==
  ASSUME SafeInv, UsedInv, KindInv', ~early, NEW p \in Threads, Load(p)
  PROVE  PidInv' /\ AppliedInv'
<1>1. at[p] = "load" /\ Idle(p) /\ at[p] \notin {"off", "ready", "loop", "connect"}
      /\ Label(p) = "load"
  BY Unlike DEF Load
<1>2. PICK name \in Names : name = job[p].name
  BY <1>1 DEF SafeInv, JobInv, NameLabel
<1> DEFINE loaded == IF files[name] \in AllArguments THEN files[name].value ELSE Default
<1>3. PICK value \in Values : value = loaded
  BY ArgumentsFacts, NamesFacts
<1>4. CASE files[name] = Torn
  BY <1>1, <1>2, <1>4, FailUses DEF Load
<1>5. CASE files[name] # Torn
  <2>1. /\ job' = [job EXCEPT ![p].value = value] /\ UNCHANGED <<files, algorithm, a1Pid, refused>>
        /\ \/ files[name] \in AllArguments /\ Goto(p, "loaded") /\ UNCHANGED save
           \/ files[name] \notin AllArguments /\ Save(p, name, Arguments(value), "loaded")
    BY <1>2, <1>3, <1>5 DEF Load, robot, history
  <2>2. /\ job'[p].value = value /\ job'[p].name = name /\ job'[p].kind = job[p].kind
    BY <1>2, <2>1, JobValue DEF SafeInv
  <2>3. \A f : Disk(f) = files[f]
    BY <1>1, Alone
  <2>4. /\ Disk(name)' = Arguments(value) /\ \A f : f # name => Disk(f)' = Disk(f)
        /\ files[name] \in AllArguments => Disk(name)' = Disk(name)
        /\ Label(p)' = "loaded" /\ Label(Other(p))' = Label(Other(p))
    <3>1. CASE files[name] \in AllArguments
      <4>1. (\A f : Disk(f)' = Disk(f)) /\ Label(p)' = "loaded" /\ Label(Other(p))' = Label(Other(p))
        BY <1>1, <2>1, <3>1, GotoDisk
      <4>2. Arguments(value) = files[name]
        BY <1>3, <3>1, ArgumentsFacts
      <4> QED
        BY <2>3, <4>1, <4>2
    <3>2. CASE files[name] \notin AllArguments
      <4>1. PICK content : content = Arguments(value)
        OBVIOUS
      <4>2. Save(p, name, content, "loaded") /\ UNCHANGED files
        BY <2>1, <3>2, <4>1
      <4>3. Disk(name)' = content /\ \A f : f # name => Disk(f)' = Disk(f)
        BY <1>1, <4>2, SaveDisk
      <4>4. Label(p)' = "loaded" /\ Label(Other(p))' = Label(Other(p))
        BY <1>1, <4>2, SaveDisk
      <4> QED
        BY <3>2, <4>1, <4>3, <4>4
    <3> QED
      BY <3>1, <3>2
  <2>5. Stored(p)'
    BY <2>2, <2>4, StoredIs
  <2>6. Disk("config")' = Disk("config")
    BY <2>4, NamesFacts
  <2>7. CASE p = "main"
    <3>1. /\ config \in Configs /\ Label("wifi") \in {"off", "ready"} /\ Disk("config") = config
          /\ Follows(a1Pid, config.pid) /\ config.algorithm = name
      BY <1>1, <1>2, <2>7, MainKnows DEF Configured
    <3>2. Label("main")' = "loaded" /\ Label("wifi")' = Label("wifi")
      BY <2>4, <2>7 DEF Other
    <3> QED
      BY <2>1, <2>2, <2>5, <2>6, <2>7, <3>1, <3>2, MainUses
  <2>8. CASE p = "wifi"
    <3>1. /\ config \in Configs /\ Label("main") = "loop" /\ Disk("config") = config
          /\ Follows(a1Pid, config.pid)
      BY <1>1, <2>8, WifiKnows
    <3>2. Label("wifi")' = "loaded" /\ Label("main")' = "loop"
      BY <2>4, <2>8, <3>1 DEF Other
    <3>3. job["wifi"].kind = "setAlgorithm" => config.algorithm = name
      BY <1>1, <1>2, <2>8, WifiKnows
    <3>4. ASSUME job["wifi"].kind # "setAlgorithm" PROVE refused' \/ Applied'
      <4>1. refused \/ Applied
        BY <1>1, <2>8, <3>4, WifiKnows
      <4>2. ASSUME Applied PROVE Applied'
        <5>1. PICK n : n = algorithm.name
          OBVIOUS
        <5>2. n \in Names /\ Disk(n) = Arguments(algorithm.value)
          BY <4>2, <5>1, AppliedIs
        <5>3. algorithm.value \in Values
          <6>1. algorithm # NoAlgorithm
            BY <5>1, <5>2, NamesFacts DEF NoAlgorithm
          <6> QED
            BY <6>1 DEF SafeInv, LifeTypeOK, RobotTypeOK
        <5>4. Disk(n)' = Disk(n)
          BY <2>3, <2>4, <5>2, <5>3, ArgumentsFacts
        <5> QED
          BY <2>1, <2>6, <4>2, <5>1, <5>4, AppliedStays
      <4> QED
        BY <2>1, <4>1, <4>2
    <3> QED
      BY <2>1, <2>2, <2>5, <2>6, <2>8, <3>1, <3>2, <3>3, <3>4, WifiUses
  <2> QED
    BY <2>7, <2>8, Two
<1> QED
  BY <1>4, <1>5

LEMMA AssignUses ==
  ASSUME SafeInv, UsedInv, KindInv', ~early, NEW p \in Threads, Assign(p)
  PROVE  PidInv' /\ AppliedInv'
<1> DEFINE label == IF p = "main" THEN "dateTime" ELSE "reply"
<1>1. at[p] = "loaded" /\ Idle(p) /\ at[p] \notin {"off", "ready", "loop", "connect"}
      /\ Label(p) = "loaded" /\ job[p].kind # "list"
  BY Unlike DEF Assign
<1>2. PICK name \in Names : name = job[p].name
  BY <1>1 DEF SafeInv, JobInv, NameLabel
<1>3. /\ Goto(p, label) /\ label \notin {"save", "fill"} /\ UNCHANGED <<files, job, save, a1Pid>>
      /\ algorithm' = [name |-> name, value |-> job[p].value]
  BY <1>2 DEF Assign
<1>4. \A f : Disk(f)' = Disk(f)
  BY <1>1, <1>3, GotoDisk
<1>5. Label(p)' = label /\ Label(Other(p))' = Label(Other(p))
  BY <1>1, <1>3, GotoDisk
<1>6. ASSUME Disk("config").algorithm = name, Stored(p) PROVE Applied'
  <2>1. Disk(name) = Arguments(job[p].value)
    BY <1>2, <1>6, StoredIs
  <2>2. algorithm'.name = name /\ algorithm'.value = job[p].value
    BY <1>3
  <2> QED
    BY <1>4, <1>6, <2>1, <2>2, AppliedIs
<1>7. CASE p = "main"
  <2>1. /\ config \in Configs /\ Label("wifi") \in {"off", "ready"} /\ Disk("config") = config
        /\ Follows(a1Pid, config.pid) /\ config.algorithm = name /\ Stored("main")
    BY <1>1, <1>2, <1>7, MainKnows DEF Configured
  <2>2. Label("main")' = "dateTime" /\ Label("wifi")' = Label("wifi") /\ Disk("config")' = config
    BY <1>4, <1>5, <1>7, <2>1 DEF Other
  <2>3. Applied'
    BY <1>6, <1>7, <2>1
  <2> QED
    BY <1>3, <2>1, <2>2, <2>3, MainUses
<1>8. CASE p = "wifi"
  <2>1. job["wifi"].kind = "setAlgorithm"
    BY <1>1, <1>8, KindOf DEF UsedInv
  <2>2. /\ config \in Configs /\ Label("main") = "loop" /\ Disk("config") = config
        /\ Follows(a1Pid, config.pid) /\ config.algorithm = name /\ Stored("wifi")
    BY <1>1, <1>2, <1>8, <2>1, WifiKnows
  <2>3. Label("wifi")' = "reply" /\ Label("main")' = "loop" /\ Disk("config")' = config
    BY <1>4, <1>5, <1>8, <2>2 DEF Other
  <2>4. Applied'
    BY <1>6, <1>8, <2>2
  <2> QED
    BY <1>3, <2>1, <2>2, <2>3, <2>4, WifiUses
<1> QED
  BY <1>7, <1>8, Two

LEMMA ListUses ==
  ASSUME SafeInv, UsedInv, KindInv', ~early, NEW p \in Threads, ListNext(p)
  PROVE  PidInv' /\ AppliedInv'
<1>1. at[p] = "loaded" /\ Idle(p) /\ at[p] \notin {"off", "ready", "loop", "connect"}
      /\ job[p].kind = "list"
  BY Unlike DEF ListNext
<1>2. p = "wifi"
  BY <1>1, KindOf DEF UsedInv
<1>3. CASE Fail(p)
  BY <1>1, <1>3, FailUses
<1>4. ASSUME NEW label \in {"load", "reply"}, Goto(p, label), UNCHANGED <<files, save, robot, history>>,
             job'[p].kind = "list"
      PROVE  PidInv' /\ AppliedInv'
  <2>1. UNCHANGED <<files, save, algorithm, a1Pid, refused>>
    BY <1>4 DEF robot, history
  <2>2. \A f : Disk(f)' = Disk(f)
    BY <1>1, <1>4, <2>1, GotoDisk
  <2>3. Label(p)' = label /\ Label(Other(p))' = Label(Other(p))
    BY <1>1, <1>4, <2>1, GotoDisk
  <2>4. /\ config \in Configs /\ Label("main") = "loop" /\ Disk("config") = config
        /\ Follows(a1Pid, config.pid) /\ (refused \/ Applied)
    BY <1>1, <1>2, WifiKnows
  <2>5. Label("wifi")' = label /\ Label("main")' = "loop" /\ Disk("config")' = config
    BY <1>2, <2>2, <2>3, <2>4 DEF Other
  <2>6. refused' \/ Applied'
    BY <2>1, <2>2, <2>4, AppliedStays
  <2> QED
    BY <1>2, <1>4, <2>1, <2>4, <2>5, <2>6, WifiUses
<1>5. CASE job[p].rest # <<>>
  <2>1. /\ job' = [job EXCEPT ![p].name = Head(job[p].rest), ![p].rest = Tail(@)]
        /\ Goto(p, "load") /\ UNCHANGED <<files, save, robot, history>>
    BY <1>5 DEF ListNext
  <2>2. job'[p].kind = "list"
    BY <1>1, <2>1 DEF SafeInv, LifeTypeOK, ThreadsTypeOK, Jobs
  <2> QED
    BY <1>4, <2>1, <2>2
<1>6. CASE job[p].rest = <<>> /\ ~Fail(p)
  BY <1>1, <1>4, <1>6 DEF ListNext
<1> QED
  BY <1>3, <1>5, <1>6

LEMMA WorkUses ==
  ASSUME SafeInv, UsedInv, NEW p \in Threads, Work(p)
  PROVE  UsedInv'
<1>1. KindInv /\ KindInv'
  BY WorkKinds DEF UsedInv
<1>2. CASE Truncate(p) \/ Fill(p)
  <2>1. /\ Label(p)' = Label(p) /\ Label(Other(p))' = Label(Other(p))
        /\ ~early => \A f : Disk(f)' = Disk(f)
    BY <1>2, TruncateKeeps, FillKeeps
  <2>2. UNCHANGED <<job, algorithm, a1Pid, refused, early>>
    BY <1>2 DEF Truncate, Fill, robot, history
  <2>3. \A q \in Threads : Label(q)' = Label(q)
    BY <2>1 DEF Threads, Other
  <2> QED
    BY <2>1, <2>2, <2>3, UsedView
<1>3. CASE ~(Truncate(p) \/ Fill(p))
  <2>1. early' = early
    BY <1>3 DEF Work, ConfigTorn, Fail, GetPid, SetPid, SendPid, GetSelected, SaveArguments,
                SetSelected, SetAlgorithm, Load, Assign, ListNext, history
  <2>2. CASE early
    BY <1>1, <2>1, <2>2 DEF UsedInv, PidInv, AppliedInv
  <2>3. CASE ~early
    <3>1. CASE ConfigTorn(p)
      <4>1. Idle(p) /\ at[p] \notin {"off", "ready", "loop", "connect", "sendPid"}
        BY <3>1, Unlike DEF ConfigTorn
      <4> QED
        BY <1>1, <2>3, <3>1, <4>1, FailUses DEF ConfigTorn, UsedInv
    <3>2. CASE SendPid(p)
      <4>1. at[p] = "sendPid" /\ Idle(p) /\ at[p] \notin {"off", "ready", "loop", "connect"}
        BY <3>2, Unlike, SendPidIs
      <4>2. CASE Fail(p) /\ p = "main"
        BY <1>1, <2>3, <4>1, <4>2, FailUses DEF UsedInv
      <4> QED
        BY <1>1, <2>3, <3>2, <4>2, SendPidIs, PidSentUses DEF UsedInv
    <3> QED
      BY <1>1, <1>3, <2>3, <3>1, <3>2, GetPidUses, SetPidUses, GetSelectedUses,
         SaveArgumentsUses, SetSelectedUses, SetAlgorithmUses, LoadUses, AssignUses, ListUses
         DEF Work, UsedInv
  <2> QED
    BY <2>2, <2>3
<1> QED
  BY <1>2, <1>3

\* When the main thread is before its first reading or at its end nothing is promised.
LEMMA NothingUsed ==
  ASSUME KindInv', Label("main")' \in {"off", "connect", "getPid", "dead", "failed", "hung"}
  PROVE  UsedInv'
BY DEF UsedInv, PidInv, AppliedInv, Configured

LEMMA MainStepsUse ==
  ASSUME SafeInv, UsedInv, StartWifi \/ SetDateTime \/ InitFails \/ BeepHangs
  PROVE  UsedInv'
<1>0. /\ LifeTypeOK /\ KindInv /\ "main" \in Threads /\ Other("main") = "wifi"
      /\ job \in [Threads -> Jobs] /\ NoJob.kind = "none"
  BY Two DEF SafeInv, UsedInv, Other, LifeTypeOK, ThreadsTypeOK, NoJob
<1>1. CASE StartWifi
  <2>1. at["main"] = "connect" /\ at' = [main |-> "getPid", wifi |-> "ready"] /\ job' = job
    BY <1>1 DEF StartWifi
  <2>2. Label("main") = "connect" /\ at["wifi"] = "off" /\ Idle("main") /\ Idle("wifi")
    BY <2>1 DEF SafeInv, TurnsInv, Label, Idle
  <2>3. job["wifi"].kind = "none"
    BY <1>0, <2>2, KindOf, Two
  <2>4. Label("main")' = "getPid" /\ Label("wifi")' = "ready"
    BY <2>1 DEF Label
  <2>5. job["main"].kind = "init"
    <3>1. /\ "connect" \in KindLabels(job["main"].kind)
          /\ job["main"].kind \in {"none", "init", "getPid", "setPid", "setAlgorithm", "list"}
      BY <1>0, <2>2 DEF KindInv, Jobs
    <3> QED
      BY <3>1 DEF KindLabels
  <2>6. "getPid" \in KindLabels("init") /\ "ready" \in KindLabels("none")
    BY DEF KindLabels
  <2>7. KindInv'
    BY <2>1, <2>3, <2>4, <2>5, <2>6, Two DEF KindInv
  <2> QED
    BY <2>4, <2>7, NothingUsed
<1>2. CASE SetDateTime
  <2>1. /\ at["main"] = "dateTime" /\ Goto("main", "loop") /\ Idle("main")
        /\ job' = [job EXCEPT !["main"] = NoJob]
        /\ UNCHANGED <<files, save, algorithm, a1Pid, refused, early>>
    BY <1>2 DEF SetDateTime, Idle, robot, history
  <2>2. job'["main"].kind = "none" /\ job'["wifi"] = job["wifi"]
    BY <1>0, <2>1, Two
  <2>3. "loop" \in KindLabels("none") /\ Lands("main", "loop")
    BY <2>1 DEF KindLabels, Lands
  <2>4. KindInv'
    BY <1>0, <2>1, <2>2, <2>3, KindStep
  <2>5. CASE early
    BY <2>1, <2>4, <2>5 DEF UsedInv, PidInv, AppliedInv
  <2>6. CASE ~early
    <3>1. /\ Label("main") = "dateTime" /\ Label("wifi") \in {"off", "ready"}
          /\ Disk("config") = config /\ config \in Configs
          /\ Follows(a1Pid, config.pid)
      BY <2>1, <2>6, MainKnows DEF Configured
    <3>2. \A f : Disk(f)' = Disk(f)
      BY <1>0, <2>1, <2>6, GotoDisk
    <3>3. Label("main")' = "loop" /\ Label("wifi")' = Label("wifi")
      BY <1>0, <2>1, <2>3, LandsLabel
    <3>4. Applied
      BY <2>6, <3>1 DEF UsedInv, AppliedInv
    <3>5. Applied'
      BY <2>1, <3>2, <3>4, AppliedStays
    <3> QED
      BY <2>1, <2>4, <3>1, <3>2, <3>3, <3>5, MainUses DEF UsedInv
  <2> QED
    BY <2>5, <2>6
<1>3. ASSUME NEW label \in {"failed", "hung"}, InitStops(label),
             at["main"] \in {"connect", "sendPid", "dateTime"}
      PROVE  UsedInv'
  <2>1. /\ Idle("main") /\ Lands("main", label)
        /\ job' = [job EXCEPT !["main"] = NoJob]
    BY <1>3 DEF InitStops, Idle, Lands
  <2>2. job'["main"].kind = "none" /\ job'["wifi"] = job["wifi"]
    BY <1>0, <2>1, Two
  <2>3. label \in KindLabels("none")
    BY DEF KindLabels
  <2>4. KindInv'
    BY <1>0, <2>1, <2>2, <2>3, KindStep
  <2>5. Label("main")' = label
    BY <1>0, <2>1, LandsLabel
  <2> QED
    BY <2>4, <2>5, NothingUsed
<1> QED
  BY <1>1, <1>2, <1>3 DEF InitFails, BeepHangs

LEMMA BootUses == ASSUME SafeInv, UsedInv, Boot PROVE UsedInv'
<1>1. /\ at["main"] = "off" /\ "main" \in Threads /\ Other("main") = "wifi" /\ Idle("main")
      /\ LifeTypeOK /\ KindInv
  BY Two DEF Boot, Other, Idle, SafeInv, UsedInv
<1>2. Lands("main", "connect")
  BY DEF Boot, Lands
<1>3. job'["main"].kind = "init" /\ job'["wifi"] = job["wifi"]
  BY NewJobs, Two DEF Boot, SafeInv, LifeTypeOK, ThreadsTypeOK
<1>4. "connect" \in KindLabels("init")
  BY DEF KindLabels
<1>5. KindInv'
  BY <1>1, <1>2, <1>3, <1>4, KindStep
<1>6. Label("main")' = "connect"
  BY <1>1, <1>2, LandsLabel
<1> QED
  BY <1>5, <1>6, NothingUsed

LEMMA OverUses == ASSUME NEW contents, Over(contents) PROVE UsedInv'
<1>1. \A q \in Threads : Label(q)' = "off" /\ job'[q] = NoJob
  BY DEF Over, Label
<1>2. NoJob.kind = "none" /\ "off" \in KindLabels("none")
  BY DEF NoJob, KindLabels
<1>3. KindInv'
  BY <1>1, <1>2 DEF KindInv
<1> QED
  BY <1>1, <1>3, NothingUsed, Two

LEMMA RequestUses ==
  ASSUME SafeInv, UsedInv, NEW label \in {"getPid", "setPid", "saveArguments", "load"},
         Request(label), job'["main"] = job["main"],
         label \in KindLabels(job'["wifi"].kind),
         job'["wifi"].kind \in {"getPid", "setPid", "setAlgorithm", "list"},
         job'["wifi"].kind = "setAlgorithm" => label = "saveArguments"
  PROVE  UsedInv'
<1>1. /\ at["wifi"] = "ready" /\ "wifi" \in Threads /\ Other("wifi") = "main" /\ Idle("wifi")
      /\ LifeTypeOK /\ KindInv /\ Label("wifi") = "ready" /\ label \in Labels \ {"save", "fill"}
  BY Two DEF Request, Arrive, Other, Idle, SafeInv, UsedInv, Label, Labels
<1>2. /\ Goto("wifi", label) /\ UNCHANGED <<files, save, algorithm, a1Pid, refused>>
      /\ early' = (early \/ at["main"] # "loop")
  BY DEF Request, Arrive, robot
<1>3. (\A f : Disk(f)' = Disk(f)) /\ Label("wifi")' = label /\ Label("main")' = Label("main")
  BY <1>1, <1>2, GotoStep
<1>4. KindInv'
  BY <1>1, <1>2, KindStep DEF Lands
<1>5. CASE early'
  BY <1>4, <1>5 DEF UsedInv, PidInv, AppliedInv
<1>6. CASE ~early'
  <2>1. ~early /\ Label("main") = "loop"
    BY <1>2, <1>6 DEF Label
  <2>2. Disk("config") \in Configs /\ Follows(a1Pid, Disk("config").pid)
    BY <1>1, <2>1, Two DEF UsedInv, PidInv, Configured
  <2>3. job["wifi"].kind = "none"
    BY <1>1, KindOf
  <2>4. refused' \/ Applied'
    <3>1. refused \/ Applied
      BY <2>1, <2>3 DEF UsedInv, AppliedInv
    <3> QED
      BY <1>2, <1>3, <3>1, AppliedStays
  <2> QED
    BY <1>2, <1>3, <1>4, <2>1, <2>2, <2>4, WifiUses DEF UsedInv
<1> QED
  BY <1>5, <1>6

LEMMA AppUses == ASSUME SafeInv, UsedInv, App PROVE UsedInv'
<1>0. "wifi" \in Threads /\ "main" \in Threads /\ job \in [Threads -> Jobs]
  BY Two DEF SafeInv, LifeTypeOK, ThreadsTypeOK
<1>1. CASE AskPid
  <2>1. Request("getPid") /\ job'["main"] = job["main"] /\ job'["wifi"].kind = "getPid"
    BY <1>0, <1>1, NewJobs DEF AskPid
  <2>2. "getPid" \in KindLabels("getPid")
    BY DEF KindLabels
  <2> QED
    BY <2>1, <2>2, RequestUses
<1>2. CASE ChangePid
  <2>1. PICK pid \in Values :
          /\ Request("setPid")
          /\ job' = [job EXCEPT !["wifi"] = [NoJob EXCEPT !.kind = "setPid", !.pid = pid]]
    BY <1>2 DEF ChangePid
  <2>2. job'["main"] = job["main"] /\ job'["wifi"].kind = "setPid"
    BY <1>0, <2>1, NewJobs
  <2>3. "setPid" \in KindLabels("setPid")
    BY DEF KindLabels
  <2> QED
    BY <2>1, <2>2, <2>3, RequestUses
<1>3. CASE ChangeAlgorithm
  <2>1. PICK name \in Names, value \in Values :
          /\ Request("saveArguments")
          /\ job' = [job EXCEPT !["wifi"] =
                       [NoJob EXCEPT !.kind = "setAlgorithm", !.name = name, !.value = value]]
    BY <1>3 DEF ChangeAlgorithm
  <2> DEFINE j == [NoJob EXCEPT !.kind = "setAlgorithm", !.name = name, !.value = value]
  <2>2. j.kind = "setAlgorithm"
    BY NewJobs DEF Jobs
  <2>3. job' = [job EXCEPT !["wifi"] = j]
    BY <2>1
  <2> HIDE DEF j
  <2>4. job'["main"] = job["main"] /\ job'["wifi"] = j
    BY <1>0, <2>3
  <2>5. "saveArguments" \in KindLabels("setAlgorithm")
    BY DEF KindLabels
  <2> QED
    BY <2>1, <2>2, <2>4, <2>5, RequestUses
<1>4. CASE AskAlgorithms
  <2>1. job'["main"] = job["main"] /\ job'["wifi"].kind = "list"
    BY <1>0, <1>4, NewJobs DEF AskAlgorithms
  <2>2. "load" \in KindLabels("list")
    BY DEF KindLabels
  <2> QED
    BY <1>4, <2>1, <2>2, RequestUses DEF AskAlgorithms
<1>5. CASE StartOrStop
  <2>1. /\ early' = (early \/ at["main"] # "loop")
        /\ UNCHANGED <<files, at, job, save, algorithm, a1Pid, refused>>
    BY <1>5 DEF StartOrStop, Arrive, threads
  <2>2. /\ ~early' => ~early
        /\ \A q \in Threads : Label(q)' = Label(q)
        /\ \A f : Disk(f)' = Disk(f)
    BY <2>1 DEF Label, Disk, Saving
  <2> QED
    BY <2>1, <2>2, UsedView
<1> QED
  BY <1>1, <1>2, <1>3, <1>4, <1>5 DEF App

LEMMA ReplyUses == ASSUME SafeInv, UsedInv, Reply PROVE UsedInv'
<1>1. /\ at["wifi"] = "reply" /\ "wifi" \in Threads /\ Other("wifi") = "main" /\ Idle("wifi")
      /\ LifeTypeOK /\ KindInv /\ job \in [Threads -> Jobs]
  BY Two DEF Reply, Other, Idle, SafeInv, UsedInv, LifeTypeOK, ThreadsTypeOK
<1>2. /\ Goto("wifi", "ready") /\ UNCHANGED <<files, save, algorithm, a1Pid, early>>
      /\ job' = [job EXCEPT !["wifi"] = NoJob]
      /\ refused' = (refused /\ job["wifi"].kind # "setAlgorithm")
  BY DEF Reply, robot
<1>3. job'["wifi"].kind = "none" /\ job'["main"] = job["main"]
  BY <1>1, <1>2, NewJobs, Two
<1>4. "ready" \in KindLabels("none") /\ Lands("wifi", "ready")
  BY <1>2 DEF KindLabels, Lands
<1>5. KindInv'
  BY <1>1, <1>3, <1>4, KindStep
<1>6. CASE early
  BY <1>2, <1>5, <1>6 DEF UsedInv, PidInv, AppliedInv
<1>7. CASE ~early
  <2>1. /\ Label("wifi") = "reply" /\ Label("main") = "loop" /\ Disk("config") = config
        /\ config \in Configs /\ Follows(a1Pid, config.pid)
        /\ job["wifi"].kind # "setAlgorithm" => refused \/ Applied
    BY <1>1, <1>7, WifiKnows
  <2>2. \A f : Disk(f)' = Disk(f)
    BY <1>1, <1>2, <1>7, GotoDisk
  <2>3. Label("wifi")' = "ready" /\ Label("main")' = "loop"
    BY <1>1, <1>4, <2>1, LandsLabel
  <2>4. Applied => Applied'
    BY <1>2, <2>2, AppliedStays
  <2>5. job["wifi"].kind = "setAlgorithm" => Applied
    BY <1>7, <2>1 DEF UsedInv, AppliedInv
  <2> QED
    BY <1>2, <1>3, <1>5, <2>1, <2>2, <2>3, <2>4, <2>5, WifiUses DEF UsedInv
<1> QED
  BY <1>6, <1>7

LEMMA InitUses == Init => UsedInv
<1> SUFFICES ASSUME Init PROVE UsedInv
  OBVIOUS
<1>1. \A q \in Threads : Label(q) = "off" /\ job[q] = NoJob
  BY DEF Init, Label
<1>2. NoJob.kind = "none" /\ "off" \in KindLabels("none")
  BY DEF NoJob, KindLabels
<1>3. KindInv
  BY <1>1, <1>2 DEF KindInv
<1> QED
  BY <1>1, <1>3, Two DEF UsedInv, PidInv, AppliedInv, Configured

LEMMA NextUses == SafeInv /\ UsedInv /\ [Next]_vars => UsedInv'
<1> SUFFICES ASSUME SafeInv, UsedInv, [Next]_vars PROVE UsedInv'
  OBVIOUS
<1>1. CASE Boot
  BY <1>1, BootUses
<1>2. CASE Main
  BY <1>2, WorkUses, MainStepsUse, Two DEF Main
<1>3. CASE Wifi
  BY <1>3, WorkUses, ReplyUses, Two DEF Wifi
<1>4. CASE InitFails \/ BeepHangs
  BY <1>4, MainStepsUse
<1>5. CASE Ends
  BY <1>5, EndsOver, OverUses
<1>6. CASE App
  BY <1>6, AppUses
<1>7. CASE UNCHANGED <<files, threads, robot, history>>
  <2>1. /\ UNCHANGED <<files, at, job, save, algorithm, a1Pid, early, refused>>
        /\ \A q \in Threads : Label(q)' = Label(q)
        /\ \A f : Disk(f)' = Disk(f)
    BY <1>7 DEF threads, robot, history, Label, Disk, Saving
  <2> QED
    BY <2>1, UsedView
<1> QED
  BY <1>1, <1>2, <1>3, <1>4, <1>5, <1>6, <1>7, SyncLeaves DEF Next, vars

\* What A1 and the robot were told is what is saved, but for what a thread is about to tell.
THEOREM SettingsUsed == Spec => [](SafeInv /\ UsedInv)
<1>1. SafeInv /\ UsedInv /\ [Next]_vars => UsedInv'
  BY NextUses
<1> QED
  BY InitUses, FilesSafe, <1>1, PTL DEF Spec

LEMMA RestFacts ==
  ASSUME SafeInv, UsedInv, AtRest
  PROVE  /\ Follows(a1Pid, config.pid)
         /\ ~refused => /\ algorithm.name = config.algorithm
                        /\ files[algorithm.name] = Arguments(algorithm.value)
<1>1. at["main"] = "loop" /\ at["wifi"] = "ready" /\ ~early
  BY DEF AtRest
<1>2. Label("main") = "loop" /\ Label("wifi") = "ready" /\ Idle("wifi") /\ \A f : Disk(f) = files[f]
  BY <1>1 DEF Label, Idle, Disk, Saving
<1>3. Follows(a1Pid, Disk("config").pid)
  BY <1>1, <1>2, Two DEF UsedInv, PidInv, Configured
<1>4. job["wifi"].kind = "none"
  BY <1>1, <1>2, KindOf, Two DEF UsedInv
<1>5. refused \/ Applied
  BY <1>1, <1>2, <1>4 DEF UsedInv, AppliedInv
<1>6. PICK n : n = algorithm.name
  OBVIOUS
<1> QED
  BY <1>2, <1>3, <1>5, <1>6, AppliedIs DEF config

\* Whenever the core is in its loop and no request is served, A1 regulates with the PID
\* settings that the configuration holds, unless A1 refuses those (core.py, endpoints of the
\* PID settings).
THEOREM SavedPidInStep == Spec => []A1InStep
<1>1. SafeInv /\ UsedInv => A1InStep
  BY RestFacts DEF A1InStep, Follows
<1> QED
  BY SettingsUsed, <1>1, PTL

\* Then the selected algorithm is the one that the configuration names, with the arguments that
\* its file holds, unless set-algorithm was refused after it had saved others.
THEOREM SavedAlgorithmApplied == Spec => []AppliedIsSaved
<1>1. SafeInv /\ UsedInv => AppliedIsSaved
  BY RestFacts DEF AppliedIsSaved
<1> QED
  BY SettingsUsed, <1>1, PTL
=============================================================================
