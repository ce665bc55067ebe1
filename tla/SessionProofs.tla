--------------------------- MODULE SessionProofs ---------------------------
(***************************************************************************)
(* What the probe knows at each call of a script, whatever the options of  *)
(* the run: which sectors it may lose, which it has lost, what it has      *)
(* kept.  From it follow, for a chip of any size and any number of runs    *)
(* and interruptions, that the user's data are never lost and that a run   *)
(* that passes has restored the flash.                                     *)
(***************************************************************************)
EXTENDS Session, SequenceLemmas

Unknown == 0

(* The calls that scripts are made of. *)
CallSet ==
  [do : {"ask", "load"}]
    \cup [do : {"rate"}, rate : {Default, Fast}]
    \cup [do : {"erase"}, range : SUBSET Sectors]
    \cup [do : {"raw", "stream"}, range : SUBSET Sectors,
          from : {"pattern", "kept"}]
    \cup [do : {"read"}, range : SUBSET Sectors,
          want : {"erased", "pattern", "kept", "anything"}, keep : BOOLEAN]
    \cup [do : {"save"}, kind : Cycles]

(* What is known between two calls of a run:                               *)
(*   answered  the stub has answered, and before is what the flash held    *)
(*   restores  the run has --restore-compressed-backup                     *)
(*   loaded    it has read that backup                                     *)
(*   granted   these sectors were erased, or a complete backup has them    *)
(*   keeps     these sectors are in kept, as they should be at the end     *)
(*   dirty     these may now be different from what they should be         *)
(*   rate      the rate of both sides                                      *)
Notes ==
  [answered : BOOLEAN, restores : BOOLEAN, loaded : BOOLEAN,
   granted : SUBSET Sectors, keeps : SUBSET Sectors,
   dirty : SUBSET Sectors, rate : {Unknown, Default, Fast}]

(* What a call needs to be known. *)
Permits(a, c) ==
  /\ a.answered \/ c.do = "ask"
  /\ c.do \in Modifies => c.range \subseteq a.granted
  /\ c.do \in {"raw", "stream"} /\ c.from = "kept" => c.range \subseteq a.keeps
  /\ c.do = "read" /\ c.want = "kept" => c.range \subseteq a.keeps
  /\ c.do = "read" /\ c.keep => c.range \cap a.dirty = {}
  /\ c.do = "save" => a.keeps = Sectors /\ a.granted = {} /\ a.dirty = {}
                       /\ ~a.loaded
  /\ c.do = "load" => a.restores

(* What it adds to that. *)
Granted(a, c) ==
  CASE c.do \in {"save", "load"} -> Sectors
    [] c.do = "read" /\ c.want = "erased" -> a.granted \cup c.range
    [] OTHER -> a.granted
Keeps(a, c) ==
  CASE c.do = "load" -> Sectors
    [] c.do = "read" /\ c.keep -> c.range
    [] OTHER -> a.keeps
Dirty(a, c) ==
  CASE c.do \in Modifies -> a.dirty \cup c.range
    [] c.do = "read" /\ c.want = "kept" -> a.dirty \ c.range
    [] c.do = "load" -> Sectors
    [] c.do = "ask" /\ ~a.answered -> {}
    [] OTHER -> a.dirty
NewRate(a, c) == IF c.do = "rate" THEN c.rate ELSE a.rate

(* From a and the call c follows b. *)
Follows(a, c, b) ==
  /\ Permits(a, c)
  /\ b.answered /\ b.restores = a.restores
  /\ b.loaded = (a.loaded \/ c.do = "load")
  /\ b.granted \subseteq Granted(a, c)
  /\ b.keeps \subseteq Keeps(a, c)
  /\ Dirty(a, c) \subseteq b.dirty
  /\ b.rate \in {Unknown, NewRate(a, c)}

(* The notes between the calls of s. *)
Annotates(f, s) ==
  /\ f \in [0 .. Len(s) -> Notes]
  /\ \A i \in 1 .. Len(s) : Follows(f[i - 1], s[i], f[i])

(* The calls s lead from what a says to what b says. *)
Leads(a, s, b) ==
  /\ s \in Seq(CallSet)
  /\ \E f : Annotates(f, s) /\ f[0] = a /\ f[Len(s)] = b

(* At first nothing is known; later this is; and this when all is tidy.    *)
Start ==
  [answered |-> FALSE, restores |-> "restore" \in options, loaded |-> FALSE,
   granted |-> {}, keeps |-> {}, dirty |-> Sectors, rate |-> Unknown]
Between(restores, loaded, r, granted, keeps, dirty) ==
  [answered |-> TRUE, restores |-> restores, loaded |-> loaded,
   granted |-> granted, keeps |-> keeps, dirty |-> dirty, rate |-> r]
Tidy(restores, loaded, r) == Between(restores, loaded, r, {}, {}, {})

(* The notes of the script. *)
ScriptNotes ==
  CHOOSE f : /\ Annotates(f, Script) /\ f[0] = Start
             /\ f[Len(Script)].restores => f[Len(Script)].loaded
             /\ f[Len(Script)].dirty = {} /\ f[Len(Script)].rate = Default

-----------------------------------------------------------------------------
(* The inductive invariant. *)

(* The note before the call that the run is at. *)
Here == ScriptNotes[step - 1]

TaskSet == [sector : Sectors, holds : Contents, fed : BOOLEAN]

TypeOK ==
  /\ flash \in [Sectors -> Contents]
  /\ owed \in [Sectors -> Contents]
  /\ before \in [Sectors -> Contents]
  /\ files \in [Files -> Seq(Contents)]
  /\ work \in Seq(TaskSet)
  /\ runs \in 0 .. MaxRuns /\ out \in Dirs /\ backup \in Files
  /\ step \in 0 .. Len(Script) /\ waiting \in BOOLEAN
  /\ step # 0 => runs # 0

(* Nothing is lost with the sector: it held nothing, or a backup has it.   *)
Kept(s) ==
  \/ owed[s] = "erased"
  \/ \E f \in Files : Complete(f) /\ files[f][s] = owed[s]
Expendable == {s \in Sectors : Kept(s)}
Lossless(data, range) ==
  \A s \in range : s \in Expendable \/ data[s] = owed[s]

(* The sectors that the call in progress is changing. *)
Changing == IF waiting /\ Op.do \in Modifies THEN Op.range ELSE {}

(* What the flash is to hold when the run passes. *)
Wants == IF Here.loaded THEN files[backup] ELSE before

WorkSafe ==
  /\ \A i \in 1 .. Len(work) : work[i].sector \in Expendable
  /\ work # <<>> /\ step # 0 /\ Here.answered =>
       \A i \in 1 .. Len(work) : work[i].sector \in Changing

Knows ==
  /\ Here.answered = (step # 1)
  /\ Here.restores = ("restore" \in options)
  /\ Here.granted \subseteq Expendable
KeepsSafe ==
  /\ Here.keeps = Sectors => kept \in Seq(Contents) /\ Len(kept) = Size
  /\ \A s \in Here.keeps : kept[s] \in Contents /\ kept[s] = Wants[s]
  /\ Lossless(kept, Here.keeps)
Loaded == Here.loaded => "restore" \in options /\ Complete(backup)
Saving == waiting /\ Op.do = "save" => ~Complete(Target)
Restoring ==
  Here.answered =>
    \A s \in Sectors \ (Here.dirty \cup Changing) : flash[s] = Wants[s]
RateKnown ==
  IF waiting /\ Op.do = "rate" THEN stubRate = Op.rate
  ELSE Here.rate # Unknown => rate = Here.rate /\ stubRate = Here.rate

Passed == verdict = "passed" => step = 0 /\ work = <<>> /\ PassedMeansRestored

InRun == Knows /\ KeepsSafe /\ Loaded /\ Saving /\ Restoring /\ RateKnown

Inv ==
  /\ TypeOK /\ UserDataKept /\ WorkSafe /\ Passed
  /\ step # 0 => InRun

-----------------------------------------------------------------------------
(* What scripts are put together from.                                     *)

(* No calls lead nowhere. *)
LEMMA LeadsNowhere ==
  ASSUME NEW a \in Notes
  PROVE  Leads(a, <<>>, a)
<1> DEFINE f == [i \in 0 .. 0 |-> a]
<1>1. /\ f \in [0 .. Len(<<>>) -> Notes] /\ f[0] = a /\ f[Len(<<>>)] = a
      /\ <<>> \in Seq(CallSet) /\ 1 .. Len(<<>>) = {}
  OBVIOUS
<1> QED
  BY <1>1 DEF Leads, Annotates

(* One call leads to what follows it. *)
LEMMA LeadsOne ==
  ASSUME NEW a \in Notes, NEW c \in CallSet, NEW b \in Notes, Follows(a, c, b)
  PROVE  Leads(a, <<c>>, b)
<1> DEFINE f == [i \in 0 .. 1 |-> IF i = 0 THEN a ELSE b]
<1>1. /\ f \in [0 .. 1 -> Notes] /\ f[0] = a /\ f[1] = b
      /\ <<c>> \in Seq(CallSet) /\ Len(<<c>>) = 1 /\ <<c>>[1] = c
      /\ 1 .. 1 = {1} /\ 1 - 1 = 0
  OBVIOUS
<1> HIDE DEF f
<1>2. Annotates(f, <<c>>)
  <2>1. ASSUME NEW i \in 1 .. Len(<<c>>) PROVE Follows(f[i - 1], <<c>>[i], f[i])
    <3>1. i = 1
      BY <1>1
    <3> QED
      BY <1>1, <3>1
  <2> QED
    BY <1>1, <2>1 DEF Annotates
<1> QED
  BY <1>1, <1>2 DEF Leads

(* And so on. *)
LEMMA LeadsOn ==
  ASSUME NEW a, NEW b, NEW c, NEW s, NEW t, Leads(a, s, b), Leads(b, t, c)
  PROVE  Leads(a, s \o t, c)
<1>1. s \in Seq(CallSet) /\ t \in Seq(CallSet)
  BY DEF Leads
<1>2. PICK f : Annotates(f, s) /\ f[0] = a /\ f[Len(s)] = b
  BY DEF Leads
<1>3. PICK g : Annotates(g, t) /\ g[0] = b /\ g[Len(t)] = c
  BY DEF Leads
<1> DEFINE m == Len(s)
           n == Len(t)
           both == s \o t
           h == [i \in 0 .. m + n |-> IF i <= m THEN f[i] ELSE g[i - m]]
<1>4. /\ m \in Nat /\ n \in Nat
      /\ both \in Seq(CallSet) /\ Len(both) = m + n
      /\ \A i \in 1 .. m : both[i] = s[i]
      /\ \A i \in 1 .. n : both[m + i] = t[i]
  BY <1>1, Concatenation
<1>5. /\ f \in [0 .. m -> Notes] /\ f[0] = a /\ f[m] = b
      /\ g \in [0 .. n -> Notes] /\ g[0] = b /\ g[n] = c
  BY <1>2, <1>3 DEF Annotates
<1>6. /\ \A i \in 1 .. m : Follows(f[i - 1], s[i], f[i])
      /\ \A i \in 1 .. n : Follows(g[i - 1], t[i], g[i])
  BY <1>2, <1>3 DEF Annotates
<1> HIDE DEF m, n, both
<1>7. h \in [0 .. m + n -> Notes] /\ h[0] = a
  BY <1>4, <1>5
<1>8. /\ \A i \in 0 .. m : h[i] = f[i]
      /\ \A i \in 0 .. n : h[m + i] = g[i]
  <2>1. ASSUME NEW i \in 0 .. m PROVE h[i] = f[i]
    BY <1>4
  <2>2. ASSUME NEW i \in 0 .. n PROVE h[m + i] = g[i]
    <3>1. CASE i = 0
      BY <1>4, <1>5, <3>1
    <3>2. CASE i # 0
      <4>1. m + i \in 0 .. m + n /\ ~(m + i <= m) /\ (m + i) - m = i
        BY <1>4, <3>2
      <4> QED
        BY <4>1
    <3> QED
      BY <3>1, <3>2
  <2> QED
    BY <2>1, <2>2
<1> HIDE DEF h
<1>9. ASSUME NEW i \in 1 .. m + n
      PROVE  Follows(h[i - 1], both[i], h[i])
  <2>1. CASE i <= m
    <3>1. i \in 1 .. m /\ i \in 0 .. m /\ i - 1 \in 0 .. m
      BY <1>4, <2>1
    <3>2. h[i - 1] = f[i - 1] /\ both[i] = s[i] /\ h[i] = f[i]
      BY <1>4, <1>8, <3>1
    <3> QED
      BY <1>6, <3>1, <3>2
  <2>2. CASE ~(i <= m)
    <3>1. PICK j \in 1 .. n : i = m + j /\ j \in 0 .. n /\ j - 1 \in 0 .. n
                              /\ i - 1 = m + (j - 1)
      <4>1. /\ i - m \in 1 .. n /\ i = m + (i - m) /\ i - m \in 0 .. n
            /\ (i - m) - 1 \in 0 .. n /\ i - 1 = m + ((i - m) - 1)
        BY <1>4, <2>2
      <4> QED
        BY <4>1
    <3>2. h[i - 1] = g[j - 1] /\ both[i] = t[j] /\ h[i] = g[j]
      BY <1>4, <1>8, <3>1
    <3> QED
      BY <1>6, <3>2
  <2> QED
    BY <2>1, <2>2
<1>10. Annotates(h, both)
  BY <1>4, <1>7, <1>9 DEF Annotates
<1>11. h[m + n] = c
  BY <1>4, <1>5, <1>8
<1> QED
  BY <1>4, <1>7, <1>10, <1>11 DEF Leads, both

(* With an option or without. *)
LEMMA LeadsIf ==
  ASSUME NEW a \in Notes, NEW b, NEW s, NEW option, Leads(a, s, b)
  PROVE  Leads(a, If(option, s), IF option \in options THEN b ELSE a)
<1>1. CASE option \in options
  BY <1>1 DEF If
<1>2. CASE option \notin options
  BY <1>2, LeadsNowhere DEF If
<1> QED
  BY <1>1, <1>2

-----------------------------------------------------------------------------
(* What the calls lead to.                                                 *)

(* What ranges there are. *)
LEMMA Ranges ==
  /\ Scratch \in SUBSET Sectors /\ Scratch \in SUBSET Writable
  /\ Writable \in SUBSET Sectors /\ Protected \in SUBSET Sectors
  /\ Sectors \in SUBSET Sectors /\ {} \in SUBSET Sectors
BY SizeAssumption DEF Writable, Sectors, Protected

(* Between two calls there is a note. *)
LEMMA BetweenTyped ==
  ASSUME NEW R \in BOOLEAN, NEW L \in BOOLEAN,
         NEW r \in {Unknown, Default, Fast},
         NEW G \in SUBSET Sectors, NEW K \in SUBSET Sectors,
         NEW D \in SUBSET Sectors
  PROVE  Between(R, L, r, G, K, D) \in Notes
BY DEF Between, Notes

(* A command that changes nothing, and the first one. *)
LEMMA AskLeads ==
  ASSUME NEW R \in BOOLEAN, NEW L \in BOOLEAN,
         NEW r \in {Unknown, Default, Fast},
         NEW G \in SUBSET Sectors, NEW K \in SUBSET Sectors
  PROVE  Leads(Between(R, L, r, G, K, {}), Ask, Tidy(R, L, r))
<1> DEFINE c == [do |-> "ask"]
<1>1. c \in CallSet
  BY DEF CallSet
<1>2. Follows(Between(R, L, r, G, K, {}), c, Tidy(R, L, r))
  BY DEF Follows, Permits, Granted, Keeps, Dirty, NewRate, Between, Tidy,
         Modifies
<1> DEFINE a == Between(R, L, r, G, K, {})
           b == Tidy(R, L, r)
<1>3. a \in Notes /\ b \in Notes
  BY BetweenTyped DEF Tidy
<1> HIDE DEF a, b, c
<1>4. Leads(a, <<c>>, b)
  BY <1>1, <1>2, <1>3, LeadsOne DEF a, b
<1> QED
  BY <1>4 DEF Ask, a, b, c

(* The first one finds out what the flash holds. *)
LEMMA FirstAskLeads ==
  ASSUME NEW R \in BOOLEAN, R = ("restore" \in options)
  PROVE  Leads(Start, Ask, Tidy(R, FALSE, Unknown))
<1> DEFINE c == [do |-> "ask"]
           N == Tidy(R, FALSE, Unknown)
<1>1. c \in CallSet
  BY DEF CallSet
<1>2. Start \in Notes /\ N \in Notes
  BY DEF Start, Notes, Tidy, Between
<1>3. Follows(Start, c, N)
  BY DEF Follows, Permits, Granted, Keeps, Dirty, NewRate, Between, Tidy,
         Start, Modifies
<1> HIDE DEF c, N
<1>4. Leads(Start, <<c>>, N)
  BY <1>1, <1>2, <1>3, LeadsOne
<1> QED
  BY <1>4 DEF Ask, c, N

(* A change of the rate, after which the probe may forget what it kept. *)
LEMMA RateLeads ==
  ASSUME NEW R \in BOOLEAN, NEW L \in BOOLEAN,
         NEW r \in {Unknown, Default, Fast},
         NEW G \in SUBSET Sectors, NEW K \in SUBSET Sectors,
         NEW D \in SUBSET Sectors, NEW r2 \in {Default, Fast}
  PROVE  /\ Leads(Between(R, L, r, G, K, D), Rate(r2),
                  Between(R, L, r2, G, K, D))
         /\ Leads(Between(R, L, r, G, K, D), Rate(r2),
                  Between(R, L, r2, {}, {}, D))
<1> DEFINE c == [do |-> "rate", rate |-> r2]
<1>1. c \in CallSet
  BY DEF CallSet
<1>2. ASSUME NEW G2 \in SUBSET G, NEW K2 \in SUBSET K
      PROVE  Follows(Between(R, L, r, G, K, D), c,
                     Between(R, L, r2, G2, K2, D))
  BY DEF Follows, Permits, Granted, Keeps, Dirty, NewRate, Between,
         Modifies
<1>3. r2 \in {Unknown, Default, Fast}
  OBVIOUS
<1> HIDE DEF c
<1>4. ASSUME NEW G2 \in SUBSET G, NEW K2 \in SUBSET K
      PROVE  Leads(Between(R, L, r, G, K, D), <<c>>,
                   Between(R, L, r2, G2, K2, D))
  <2> DEFINE a == Between(R, L, r, G, K, D)
             b == Between(R, L, r2, G2, K2, D)
  <2>1. a \in Notes /\ b \in Notes
    BY <1>3, BetweenTyped
  <2>2. Follows(a, c, b)
    BY <1>2
  <2> HIDE DEF a, b
  <2>3. Leads(a, <<c>>, b)
    BY <1>1, <2>1, <2>2, LeadsOne
  <2> QED
    BY <2>3 DEF a, b
<1> QED
  BY <1>4 DEF Rate, c

(* Erasing and writing, where that is granted. *)
LEMMA EraseLeads ==
  ASSUME NEW R \in BOOLEAN, NEW L \in BOOLEAN,
         NEW r \in {Unknown, Default, Fast},
         NEW G \in SUBSET Sectors, NEW K \in SUBSET Sectors,
         NEW D \in SUBSET Sectors, NEW D2 \in SUBSET Sectors,
         NEW range \in SUBSET G, D \cup range \subseteq D2
  PROVE  Leads(Between(R, L, r, G, K, D), Erase(range),
               Between(R, L, r, G, K, D2))
<1> DEFINE c == [do |-> "erase", range |-> range]
<1>1. c \in CallSet
  BY DEF CallSet
<1>2. Follows(Between(R, L, r, G, K, D), c,
              Between(R, L, r, G, K, D2))
  BY DEF Follows, Permits, Granted, Keeps, Dirty, NewRate, Between,
         Modifies
<1> HIDE DEF c
<1>3. Leads(Between(R, L, r, G, K, D), <<c>>,
            Between(R, L, r, G, K, D2))
  <2> DEFINE a == Between(R, L, r, G, K, D)
             b == Between(R, L, r, G, K, D2)
  <2>1. a \in Notes /\ b \in Notes
    BY BetweenTyped
  <2>2. Follows(a, c, b)
    BY <1>2
  <2> HIDE DEF a, b
  <2>3. Leads(a, <<c>>, b)
    BY <1>1, <2>1, <2>2, LeadsOne
  <2> QED
    BY <2>3 DEF a, b
<1> QED
  BY <1>3 DEF Erase, c

(* Writing needs, besides, what it writes. *)
LEMMA WriteLeads ==
  ASSUME NEW R \in BOOLEAN, NEW L \in BOOLEAN,
         NEW r \in {Unknown, Default, Fast},
         NEW G \in SUBSET Sectors, NEW K \in SUBSET Sectors,
         NEW D \in SUBSET Sectors, NEW D2 \in SUBSET Sectors,
         NEW range \in SUBSET G, D \cup range \subseteq D2,
         NEW how \in {"raw", "stream"}, NEW from \in {"pattern", "kept"},
         from = "kept" => range \subseteq K
  PROVE  Leads(Between(R, L, r, G, K, D), Write(how, range, from),
               Between(R, L, r, G, K, D2))
<1> DEFINE c == [do |-> how, range |-> range, from |-> from]
<1>1. c \in CallSet
  BY DEF CallSet
<1>2. Follows(Between(R, L, r, G, K, D), c,
              Between(R, L, r, G, K, D2))
  BY DEF Follows, Permits, Granted, Keeps, Dirty, NewRate, Between,
         Modifies
<1> HIDE DEF c
<1>3. Leads(Between(R, L, r, G, K, D), <<c>>,
            Between(R, L, r, G, K, D2))
  <2> DEFINE a == Between(R, L, r, G, K, D)
             b == Between(R, L, r, G, K, D2)
  <2>1. a \in Notes /\ b \in Notes
    BY BetweenTyped
  <2>2. Follows(a, c, b)
    BY <1>2
  <2> HIDE DEF a, b
  <2>3. Leads(a, <<c>>, b)
    BY <1>1, <2>1, <2>2, LeadsOne
  <2> QED
    BY <2>3 DEF a, b
<1> QED
  BY <1>3 DEF Write, c

(* A comparison with what was kept cleans, another one changes nothing. *)
LEMMA SeeLeads ==
  ASSUME NEW R \in BOOLEAN, NEW L \in BOOLEAN,
         NEW r \in {Unknown, Default, Fast},
         NEW G \in SUBSET Sectors, NEW K \in SUBSET Sectors,
         NEW D \in SUBSET Sectors, NEW D2 \in SUBSET Sectors,
         NEW range \in SUBSET Sectors, NEW want \in {"erased", "pattern", "kept"},
         IF want = "kept" THEN range \subseteq K /\ D \ range \subseteq D2
         ELSE D \subseteq D2
  PROVE  Leads(Between(R, L, r, G, K, D), See(range, want),
               Between(R, L, r, G, K, D2))
<1> DEFINE c == [do |-> "read", range |-> range, want |-> want, keep |-> FALSE]
<1>1. c \in CallSet
  BY DEF CallSet
<1>2. Follows(Between(R, L, r, G, K, D), c,
              Between(R, L, r, G, K, D2))
  BY DEF Follows, Permits, Granted, Keeps, Dirty, NewRate, Between,
         Modifies
<1> HIDE DEF c
<1>3. Leads(Between(R, L, r, G, K, D), <<c>>,
            Between(R, L, r, G, K, D2))
  <2> DEFINE a == Between(R, L, r, G, K, D)
             b == Between(R, L, r, G, K, D2)
  <2>1. a \in Notes /\ b \in Notes
    BY BetweenTyped
  <2>2. Follows(a, c, b)
    BY <1>2
  <2> HIDE DEF a, b
  <2>3. Leads(a, <<c>>, b)
    BY <1>1, <2>1, <2>2, LeadsOne
  <2> QED
    BY <2>3 DEF a, b
<1> QED
  BY <1>3 DEF See, c

(* What is kept must not have been changed; what is erased may be. *)
LEMMA TakeLeads ==
  ASSUME NEW R \in BOOLEAN, NEW L \in BOOLEAN,
         NEW r \in {Unknown, Default, Fast},
         NEW G \in SUBSET Sectors, NEW K \in SUBSET Sectors,
         NEW range \in SUBSET Sectors, NEW want \in {"erased", "anything"},
         NEW G2 \in SUBSET Sectors,
         G2 \subseteq IF want = "erased" THEN G \cup range ELSE G
  PROVE  Leads(Between(R, L, r, G, K, {}), Take(range, want),
               Between(R, L, r, G2, range, {}))
<1> DEFINE c == [do |-> "read", range |-> range, want |-> want, keep |-> TRUE]
<1>1. c \in CallSet
  BY DEF CallSet
<1>2. Follows(Between(R, L, r, G, K, {}), c,
              Between(R, L, r, G2, range, {}))
  BY DEF Follows, Permits, Granted, Keeps, Dirty, NewRate, Between,
         Modifies
<1> HIDE DEF c
<1>3. Leads(Between(R, L, r, G, K, {}), <<c>>,
            Between(R, L, r, G2, range, {}))
  <2> DEFINE a == Between(R, L, r, G, K, {})
             b == Between(R, L, r, G2, range, {})
  <2>1. a \in Notes /\ b \in Notes
    BY BetweenTyped
  <2>2. Follows(a, c, b)
    BY <1>2
  <2> HIDE DEF a, b
  <2>3. Leads(a, <<c>>, b)
    BY <1>1, <2>1, <2>2, LeadsOne
  <2> QED
    BY <2>3 DEF a, b
<1> QED
  BY <1>3 DEF Take, c

(* A backup of everything grants everything; it is made of what the flash   *)
(* holds, when nothing has been granted yet.                               *)
LEMMA SaveLeads ==
  ASSUME NEW R \in BOOLEAN, NEW r \in {Unknown, Default, Fast},
         NEW kind \in Cycles
  PROVE  Leads(Between(R, FALSE, r, {}, Sectors, {}), Save(kind),
               Between(R, FALSE, r, Sectors, Sectors, {}))
<1> DEFINE c == [do |-> "save", kind |-> kind]
<1>1. c \in CallSet
  BY DEF CallSet
<1>2. Follows(Between(R, FALSE, r, {}, Sectors, {}), c,
              Between(R, FALSE, r, Sectors, Sectors, {}))
  BY DEF Follows, Permits, Granted, Keeps, Dirty, NewRate, Between, Modifies
<1> HIDE DEF c
<1>3. Leads(Between(R, FALSE, r, {}, Sectors, {}), <<c>>,
            Between(R, FALSE, r, Sectors, Sectors, {}))
  <2> DEFINE a == Between(R, FALSE, r, {}, Sectors, {})
             b == Between(R, FALSE, r, Sectors, Sectors, {})
  <2>1. a \in Notes /\ b \in Notes
    BY Ranges, BetweenTyped
  <2>2. Follows(a, c, b)
    BY <1>2
  <2> HIDE DEF a, b
  <2>3. Leads(a, <<c>>, b)
    BY <1>1, <2>1, <2>2, LeadsOne
  <2> QED
    BY <2>3 DEF a, b
<1> QED
  BY <1>3 DEF Save, c

(* And so does one that is read; what the flash should hold is then another *)
(* matter.                                                                 *)
LEMMA LoadLeads ==
  ASSUME NEW L \in BOOLEAN,
         NEW r \in {Unknown, Default, Fast},
         NEW G \in SUBSET Sectors, NEW K \in SUBSET Sectors,
         NEW D \in SUBSET Sectors
  PROVE  Leads(Between(TRUE, L, r, G, K, D), Load,
               Between(TRUE, TRUE, r, Sectors, Sectors, Sectors))
<1> DEFINE c == [do |-> "load"]
<1>1. c \in CallSet
  BY DEF CallSet
<1>2. Follows(Between(TRUE, L, r, G, K, D), c,
              Between(TRUE, TRUE, r, Sectors, Sectors, Sectors))
  BY DEF Follows, Permits, Granted, Keeps, Dirty, NewRate, Between,
         Modifies
<1> HIDE DEF c
<1>3. Leads(Between(TRUE, L, r, G, K, D), <<c>>,
            Between(TRUE, TRUE, r, Sectors, Sectors, Sectors))
  <2> DEFINE a == Between(TRUE, L, r, G, K, D)
             b == Between(TRUE, TRUE, r, Sectors, Sectors, Sectors)
  <2>1. a \in Notes /\ b \in Notes
    BY BetweenTyped
  <2>2. Follows(a, c, b)
    BY <1>2
  <2> HIDE DEF a, b
  <2>3. Leads(a, <<c>>, b)
    BY <1>1, <2>1, <2>2, LeadsOne
  <2> QED
    BY <2>3 DEF a, b
<1> QED
  BY <1>3 DEF Load, c

-----------------------------------------------------------------------------
(* What the test functions lead to, and the script.                        *)

(* The identification and the rates.                                       *)
LEMMA ProtocolLeads ==
  ASSUME NEW R \in BOOLEAN, R = ("restore" \in options)
  PROVE  Leads(Start, test_obk_protocol, Tidy(R, FALSE, Default))
<1> DEFINE n0 == Start
           n1 == Tidy(R, FALSE, Unknown)
           n2 == Tidy(R, FALSE, Fast)
           n3 == Tidy(R, FALSE, Default)
           n4 == Tidy(R, FALSE, Default)
           s1 == Ask
           s2 == s1 \o Rate(Fast)
           s3 == s2 \o Rate(Default)
           s4 == s3 \o Ask
<1>1. Leads(n0, Ask, n1)
  BY FirstAskLeads
<1>2. Leads(n1, Rate(Fast), n2)
  BY Ranges, RateLeads DEF Tidy
<1>3. Leads(n2, Rate(Default), n3)
  BY Ranges, RateLeads DEF Tidy
<1>4. Leads(n3, Ask, n4)
  BY Ranges, AskLeads DEF Tidy
<1> HIDE DEF n0, n1, n2, n3, n4
<1>5. Leads(n0, s2, n2)
  BY <1>1, <1>2, LeadsOn
<1>6. Leads(n0, s3, n3)
  BY <1>5, <1>3, LeadsOn
<1>7. Leads(n0, s4, n4)
  BY <1>6, <1>4, LeadsOn
<1> QED
  BY <1>7 DEF test_obk_protocol, n0, n4

(* A mutation test, at either rate.                                        *)
LEMMA MutationLeads ==
  ASSUME NEW R \in BOOLEAN, NEW L \in BOOLEAN,
         NEW r \in {Default, Fast}
  PROVE  Leads(Tidy(R, L, r), test_obk_flash_mutation,
               Tidy(R, L, r))
<1> DEFINE n0 == Tidy(R, L, r)
           n1 == Between(R, L, r, Scratch, Scratch, {})
           n2 == Between(R, L, r, Scratch, Scratch, Scratch)
           n3 == Between(R, L, r, Scratch, Scratch, Scratch)
           n4 == Between(R, L, r, Scratch, Scratch, Scratch)
           n5 == Between(R, L, r, Scratch, Scratch, {})
           n6 == Between(R, L, r, Scratch, Scratch, Scratch)
           n7 == Between(R, L, r, Scratch, Scratch, Scratch)
           n8 == Between(R, L, r, Scratch, Scratch, Scratch)
           n9 == Between(R, L, r, Scratch, Scratch, {})
           n10 == Tidy(R, L, r)
           s1 == Take(Scratch, "erased")
           s2 == s1 \o Write("raw", Scratch, "pattern")
           s3 == s2 \o See(Scratch, "pattern")
           s4 == s3 \o Erase(Scratch)
           s5 == s4 \o See(Scratch, "kept")
           s6 == s5 \o Write("stream", Scratch, "pattern")
           s7 == s6 \o See(Scratch, "pattern")
           s8 == s7 \o Erase(Scratch)
           s9 == s8 \o See(Scratch, "kept")
           s10 == s9 \o Ask
<1>1. Leads(n0, Take(Scratch, "erased"), n1)
  BY Ranges, TakeLeads DEF Tidy
<1>2. Leads(n1, Write("raw", Scratch, "pattern"), n2)
  BY Ranges, WriteLeads
<1>3. Leads(n2, See(Scratch, "pattern"), n3)
  BY Ranges, SeeLeads
<1>4. Leads(n3, Erase(Scratch), n4)
  BY Ranges, EraseLeads
<1>5. Leads(n4, See(Scratch, "kept"), n5)
  BY Ranges, SeeLeads
<1>6. Leads(n5, Write("stream", Scratch, "pattern"), n6)
  BY Ranges, WriteLeads
<1>7. Leads(n6, See(Scratch, "pattern"), n7)
  BY Ranges, SeeLeads
<1>8. Leads(n7, Erase(Scratch), n8)
  BY Ranges, EraseLeads
<1>9. Leads(n8, See(Scratch, "kept"), n9)
  BY Ranges, SeeLeads
<1>10. Leads(n9, Ask, n10)
  BY Ranges, AskLeads DEF Tidy
<1> HIDE DEF n0, n1, n2, n3, n4, n5, n6, n7, n8, n9, n10
<1>11. Leads(n0, s2, n2)
  BY <1>1, <1>2, LeadsOn
<1>12. Leads(n0, s3, n3)
  BY <1>11, <1>3, LeadsOn
<1>13. Leads(n0, s4, n4)
  BY <1>12, <1>4, LeadsOn
<1>14. Leads(n0, s5, n5)
  BY <1>13, <1>5, LeadsOn
<1>15. Leads(n0, s6, n6)
  BY <1>14, <1>6, LeadsOn
<1>16. Leads(n0, s7, n7)
  BY <1>15, <1>7, LeadsOn
<1>17. Leads(n0, s8, n8)
  BY <1>16, <1>8, LeadsOn
<1>18. Leads(n0, s9, n9)
  BY <1>17, <1>9, LeadsOn
<1>19. Leads(n0, s10, n10)
  BY <1>18, <1>10, LeadsOn
<1> QED
  BY <1>19 DEF test_obk_flash_mutation, n0, n10

(* A compression stress test.                                              *)
LEMMA StressLeads ==
  ASSUME NEW R \in BOOLEAN, NEW L \in BOOLEAN
  PROVE  Leads(Tidy(R, L, Default), test_obk_compression_stress,
               Tidy(R, L, Default))
<1> DEFINE n0 == Tidy(R, L, Default)
           n1 == Between(R, L, Default, Scratch, Scratch, {})
           n2 == Between(R, L, Fast, Scratch, Scratch, {})
           n3 == Between(R, L, Fast, Scratch, Scratch, Scratch)
           n4 == Between(R, L, Fast, Scratch, Scratch, Scratch)
           n5 == Between(R, L, Fast, Scratch, Scratch, Scratch)
           n6 == Between(R, L, Fast, Scratch, Scratch, {})
           n7 == Tidy(R, L, Default)
           s1 == Take(Scratch, "erased")
           s2 == s1 \o Rate(Fast)
           s3 == s2 \o Write("stream", Scratch, "pattern")
           s4 == s3 \o See(Scratch, "pattern")
           s5 == s4 \o Erase(Scratch)
           s6 == s5 \o See(Scratch, "kept")
           s7 == s6 \o Rate(Default)
<1>1. Leads(n0, Take(Scratch, "erased"), n1)
  BY Ranges, TakeLeads DEF Tidy
<1>2. Leads(n1, Rate(Fast), n2)
  BY Ranges, RateLeads
<1>3. Leads(n2, Write("stream", Scratch, "pattern"), n3)
  BY Ranges, WriteLeads
<1>4. Leads(n3, See(Scratch, "pattern"), n4)
  BY Ranges, SeeLeads
<1>5. Leads(n4, Erase(Scratch), n5)
  BY Ranges, EraseLeads
<1>6. Leads(n5, See(Scratch, "kept"), n6)
  BY Ranges, SeeLeads
<1>7. Leads(n6, Rate(Default), n7)
  BY Ranges, RateLeads DEF Tidy
<1> HIDE DEF n0, n1, n2, n3, n4, n5, n6, n7
<1>8. Leads(n0, s2, n2)
  BY <1>1, <1>2, LeadsOn
<1>9. Leads(n0, s3, n3)
  BY <1>8, <1>3, LeadsOn
<1>10. Leads(n0, s4, n4)
  BY <1>9, <1>4, LeadsOn
<1>11. Leads(n0, s5, n5)
  BY <1>10, <1>5, LeadsOn
<1>12. Leads(n0, s6, n6)
  BY <1>11, <1>6, LeadsOn
<1>13. Leads(n0, s7, n7)
  BY <1>12, <1>7, LeadsOn
<1> QED
  BY <1>13 DEF test_obk_compression_stress, n0, n7

(* A full cycle, before anything is restored.                              *)
LEMMA FullCycleLeads ==
  ASSUME NEW R \in BOOLEAN
  PROVE  Leads(Tidy(R, FALSE, Default), test_full_chip_cycle,
               Tidy(R, FALSE, Default))
<1> DEFINE n0 == Tidy(R, FALSE, Default)
           n1 == Tidy(R, FALSE, Fast)
           n2 == Between(R, FALSE, Fast, {}, Sectors, {})
           n3 == Between(R, FALSE, Fast, Sectors, Sectors, {})
           n4 == Between(R, FALSE, Fast, Sectors, Sectors, Writable)
           n5 == Between(R, FALSE, Fast, Sectors, Sectors, Writable)
           n6 == Between(R, FALSE, Fast, Sectors, Sectors, Writable)
           n7 == Between(R, FALSE, Fast, Sectors, Sectors, Writable)
           n8 == Between(R, FALSE, Fast, Sectors, Sectors, {})
           n9 == Tidy(R, FALSE, Default)
           s1 == Rate(Fast)
           s2 == s1 \o Take(Sectors, "anything")
           s3 == s2 \o Save("full")
           s4 == s3 \o Erase(Writable)
           s5 == s4 \o See(Protected, "kept")
           s6 == s5 \o See(Writable, "erased")
           s7 == s6 \o Write("raw", Writable, "kept")
           s8 == s7 \o See(Sectors, "kept")
           s9 == s8 \o Rate(Default)
<1>0. "full" \in Cycles
  BY DEF Cycles
<1>1. Leads(n0, Rate(Fast), n1)
  BY Ranges, RateLeads DEF Tidy
<1>2. Leads(n1, Take(Sectors, "anything"), n2)
  BY Ranges, TakeLeads DEF Tidy
<1>3. Leads(n2, Save("full"), n3)
  BY <1>0, SaveLeads
<1>4. Leads(n3, Erase(Writable), n4)
  BY Ranges, EraseLeads
<1>5. Leads(n4, See(Protected, "kept"), n5)
  BY Ranges, SeeLeads
<1>6. Leads(n5, See(Writable, "erased"), n6)
  BY Ranges, SeeLeads
<1>7. Leads(n6, Write("raw", Writable, "kept"), n7)
  BY Ranges, WriteLeads
<1>8. Leads(n7, See(Sectors, "kept"), n8)
  BY Ranges, SeeLeads
<1>9. Leads(n8, Rate(Default), n9)
  BY Ranges, RateLeads DEF Tidy
<1> HIDE DEF n0, n1, n2, n3, n4, n5, n6, n7, n8, n9
<1>10. Leads(n0, s2, n2)
  BY <1>1, <1>2, LeadsOn
<1>11. Leads(n0, s3, n3)
  BY <1>10, <1>3, LeadsOn
<1>12. Leads(n0, s4, n4)
  BY <1>11, <1>4, LeadsOn
<1>13. Leads(n0, s5, n5)
  BY <1>12, <1>5, LeadsOn
<1>14. Leads(n0, s6, n6)
  BY <1>13, <1>6, LeadsOn
<1>15. Leads(n0, s7, n7)
  BY <1>14, <1>7, LeadsOn
<1>16. Leads(n0, s8, n8)
  BY <1>15, <1>8, LeadsOn
<1>17. Leads(n0, s9, n9)
  BY <1>16, <1>9, LeadsOn
<1> QED
  BY <1>17 DEF test_full_chip_cycle, n0, n9

(* A compressed one.                                                       *)
LEMMA CompressedCycleLeads ==
  ASSUME NEW R \in BOOLEAN
  PROVE  Leads(Tidy(R, FALSE, Default), test_compressed_full_chip_cycle,
               Tidy(R, FALSE, Default))
<1> DEFINE n0 == Tidy(R, FALSE, Default)
           n1 == Tidy(R, FALSE, Fast)
           n2 == Between(R, FALSE, Fast, {}, Sectors, {})
           n3 == Between(R, FALSE, Fast, Sectors, Sectors, {})
           n4 == Between(R, FALSE, Fast, Sectors, Sectors, Writable)
           n5 == Between(R, FALSE, Fast, Sectors, Sectors, Writable)
           n6 == Between(R, FALSE, Fast, Sectors, Sectors, Writable)
           n7 == Between(R, FALSE, Fast, Sectors, Sectors, {})
           n8 == Tidy(R, FALSE, Default)
           s1 == Rate(Fast)
           s2 == s1 \o Take(Sectors, "anything")
           s3 == s2 \o Save("compressed")
           s4 == s3 \o Erase(Writable)
           s5 == s4 \o See(Protected, "kept")
           s6 == s5 \o Write("stream", Writable, "kept")
           s7 == s6 \o See(Sectors, "kept")
           s8 == s7 \o Rate(Default)
<1>0. "compressed" \in Cycles
  BY DEF Cycles
<1>1. Leads(n0, Rate(Fast), n1)
  BY Ranges, RateLeads DEF Tidy
<1>2. Leads(n1, Take(Sectors, "anything"), n2)
  BY Ranges, TakeLeads DEF Tidy
<1>3. Leads(n2, Save("compressed"), n3)
  BY <1>0, SaveLeads
<1>4. Leads(n3, Erase(Writable), n4)
  BY Ranges, EraseLeads
<1>5. Leads(n4, See(Protected, "kept"), n5)
  BY Ranges, SeeLeads
<1>6. Leads(n5, Write("stream", Writable, "kept"), n6)
  BY Ranges, WriteLeads
<1>7. Leads(n6, See(Sectors, "kept"), n7)
  BY Ranges, SeeLeads
<1>8. Leads(n7, Rate(Default), n8)
  BY Ranges, RateLeads DEF Tidy
<1> HIDE DEF n0, n1, n2, n3, n4, n5, n6, n7, n8
<1>9. Leads(n0, s2, n2)
  BY <1>1, <1>2, LeadsOn
<1>10. Leads(n0, s3, n3)
  BY <1>9, <1>3, LeadsOn
<1>11. Leads(n0, s4, n4)
  BY <1>10, <1>4, LeadsOn
<1>12. Leads(n0, s5, n5)
  BY <1>11, <1>5, LeadsOn
<1>13. Leads(n0, s6, n6)
  BY <1>12, <1>6, LeadsOn
<1>14. Leads(n0, s7, n7)
  BY <1>13, <1>7, LeadsOn
<1>15. Leads(n0, s8, n8)
  BY <1>14, <1>8, LeadsOn
<1> QED
  BY <1>15 DEF test_compressed_full_chip_cycle, n0, n8

(* A restore, in a run that has the option.                                *)
LEMMA RestoreLeads ==
  ASSUME NEW L \in BOOLEAN
  PROVE  Leads(Tidy(TRUE, L, Default), restore_compressed_backup,
               Tidy(TRUE, TRUE, Default))
<1> DEFINE n0 == Tidy(TRUE, L, Default)
           n1 == Between(TRUE, TRUE, Default, Sectors, Sectors, Sectors)
           n2 == Between(TRUE, TRUE, Default, Sectors, Sectors, Sectors)
           n3 == Between(TRUE, TRUE, Fast, Sectors, Sectors, Sectors)
           n4 == Between(TRUE, TRUE, Fast, Sectors, Sectors, Sectors)
           n5 == Between(TRUE, TRUE, Fast, Sectors, Sectors, {})
           n6 == Tidy(TRUE, TRUE, Default)
           s1 == Load
           s2 == s1 \o See(Protected, "kept")
           s3 == s2 \o Rate(Fast)
           s4 == s3 \o Write("stream", Writable, "kept")
           s5 == s4 \o See(Sectors, "kept")
           s6 == s5 \o Rate(Default)
<1>1. Leads(n0, Load, n1)
  BY Ranges, LoadLeads DEF Tidy
<1>2. Leads(n1, See(Protected, "kept"), n2)
  BY Ranges, SeeLeads
<1>3. Leads(n2, Rate(Fast), n3)
  BY Ranges, RateLeads
<1>4. Leads(n3, Write("stream", Writable, "kept"), n4)
  BY Ranges, WriteLeads
<1>5. Leads(n4, See(Sectors, "kept"), n5)
  BY Ranges, SeeLeads
<1>6. Leads(n5, Rate(Default), n6)
  BY Ranges, RateLeads DEF Tidy
<1> HIDE DEF n0, n1, n2, n3, n4, n5, n6
<1>7. Leads(n0, s2, n2)
  BY <1>1, <1>2, LeadsOn
<1>8. Leads(n0, s3, n3)
  BY <1>7, <1>3, LeadsOn
<1>9. Leads(n0, s4, n4)
  BY <1>8, <1>4, LeadsOn
<1>10. Leads(n0, s5, n5)
  BY <1>9, <1>5, LeadsOn
<1>11. Leads(n0, s6, n6)
  BY <1>10, <1>6, LeadsOn
<1> QED
  BY <1>11 DEF restore_compressed_backup, n0, n6

(* The whole script, with any options. *)
LEMMA ScriptLeads ==
  ASSUME NEW R \in BOOLEAN, R = ("restore" \in options)
  PROVE  Leads(Start, Script, Tidy(R, R, Default))
<1> DEFINE n1 == Tidy(R, FALSE, Default)
           n2 == Tidy(R, R, Default)
           twice == test_obk_flash_mutation \o Rate(Fast)
                      \o test_obk_flash_mutation \o Rate(Default)
           s1 == test_obk_protocol
           s2 == s1 \o If("benchmark", benchmark_crc32)
           s3 == s2 \o If("mutation", test_obk_flash_mutation)
           s4 == s3 \o If("bauds", twice)
           s5 == s4 \o If("stress", test_obk_compression_stress)
           s6 == s5 \o If("full", test_full_chip_cycle)
           s7 == s6 \o If("compressed", test_compressed_full_chip_cycle)
           s8 == s7 \o If("restore", restore_compressed_backup)
<1>1. n1 \in Notes /\ n2 \in Notes
  BY Ranges, BetweenTyped DEF Tidy
<1>2. Leads(Start, s1, n1)
  BY ProtocolLeads
<1>3. Leads(n1, benchmark_crc32, n1)
  BY Ranges, AskLeads DEF Tidy, benchmark_crc32
<1>4. Leads(n1, test_obk_flash_mutation, n1)
  BY MutationLeads
<1>5. Leads(n1, twice, n1)
  <2> DEFINE fast == Tidy(R, FALSE, Fast)
             t2 == test_obk_flash_mutation \o Rate(Fast)
             t3 == t2 \o test_obk_flash_mutation
  <2>1. Leads(n1, Rate(Fast), fast) /\ Leads(fast, Rate(Default), n1)
    BY Ranges, RateLeads DEF Tidy
  <2>2. Leads(fast, test_obk_flash_mutation, fast)
    BY MutationLeads
  <2> HIDE DEF n1, fast
  <2>3. Leads(n1, t2, fast)
    BY <1>4, <2>1, LeadsOn
  <2>4. Leads(n1, t3, fast)
    BY <2>2, <2>3, LeadsOn
  <2>5. Leads(n1, t3 \o Rate(Default), n1)
    BY <2>1, <2>4, LeadsOn
  <2> QED
    BY <2>5
<1>6. Leads(n1, test_obk_compression_stress, n1)
  BY StressLeads
<1>7. Leads(n1, test_full_chip_cycle, n1)
  BY FullCycleLeads
<1>8. Leads(n1, test_compressed_full_chip_cycle, n1)
  BY CompressedCycleLeads
<1>9. Leads(n1, If("restore", restore_compressed_backup), n2)
  <2>1. CASE R
    <3>1. Leads(Tidy(TRUE, FALSE, Default), restore_compressed_backup,
                Tidy(TRUE, TRUE, Default))
      BY RestoreLeads
    <3>2. n1 = Tidy(TRUE, FALSE, Default) /\ n2 = Tidy(TRUE, TRUE, Default)
          /\ If("restore", restore_compressed_backup) = restore_compressed_backup
      BY <2>1 DEF If
    <3> HIDE DEF n1, n2
    <3> QED
      BY <3>1, <3>2
  <2>2. CASE ~R
    <3>1. n1 = n2 /\ If("restore", restore_compressed_backup) = <<>>
      BY <2>2 DEF If
    <3> HIDE DEF n1, n2
    <3> QED
      BY <1>1, <3>1, LeadsNowhere
  <2> QED
    BY <2>1, <2>2
<1>10. Leads(n2, Ask, n2)
  BY Ranges, AskLeads DEF Tidy
<1> HIDE DEF n1, n2, twice
<1>11. Leads(Start, s2, n1)
  BY <1>1, <1>2, <1>3, LeadsIf, LeadsOn
<1>12. Leads(Start, s3, n1)
  <2>1. Leads(n1, If("mutation", test_obk_flash_mutation), n1)
    BY <1>1, <1>4, LeadsIf
  <2> QED
    BY <1>11, <2>1, LeadsOn
<1>13. Leads(Start, s4, n1)
  <2>1. Leads(n1, If("bauds", twice), n1)
    BY <1>1, <1>5, LeadsIf
  <2> QED
    BY <1>12, <2>1, LeadsOn
<1>14. Leads(Start, s5, n1)
  <2>1. Leads(n1, If("stress", test_obk_compression_stress), n1)
    BY <1>1, <1>6, LeadsIf
  <2> QED
    BY <1>13, <2>1, LeadsOn
<1>15. Leads(Start, s6, n1)
  <2>1. Leads(n1, If("full", test_full_chip_cycle), n1)
    BY <1>1, <1>7, LeadsIf
  <2> QED
    BY <1>14, <2>1, LeadsOn
<1>16. Leads(Start, s7, n1)
  <2>1. Leads(n1, If("compressed", test_compressed_full_chip_cycle), n1)
    BY <1>1, <1>8, LeadsIf
  <2> QED
    BY <1>15, <2>1, LeadsOn
<1>17. Leads(Start, s8, n2)
  BY <1>16, <1>9, LeadsOn
<1>18. Leads(Start, s8 \o Ask, n2)
  BY <1>17, <1>10, LeadsOn
<1> QED
  BY <1>18 DEF Script, twice, n2

(* The probe therefore has its notes at every call.                        *)
LEMMA NotesExist ==
  /\ Script \in Seq(CallSet)
  /\ Annotates(ScriptNotes, Script) /\ ScriptNotes[0] = Start
  /\ ScriptNotes[Len(Script)].restores => ScriptNotes[Len(Script)].loaded
  /\ ScriptNotes[Len(Script)].dirty = {}
  /\ ScriptNotes[Len(Script)].rate = Default
<1> DEFINE R == "restore" \in options
           last == Tidy(R, R, Default)
           Good(f) == /\ Annotates(f, Script) /\ f[0] = Start
                      /\ f[Len(Script)].restores => f[Len(Script)].loaded
                      /\ f[Len(Script)].dirty = {}
                      /\ f[Len(Script)].rate = Default
<1>1. Leads(Start, Script, last)
  <2>1. R \in BOOLEAN
    OBVIOUS
  <2> HIDE DEF R
  <2>2. R = ("restore" \in options)
    BY DEF R
  <2> QED
    BY <2>1, <2>2, ScriptLeads
<1>2. (last.restores => last.loaded) /\ last.dirty = {} /\ last.rate = Default
  BY DEF Tidy, Between
<1> HIDE DEF last
<1>3. Script \in Seq(CallSet) /\ \E f : Good(f)
  BY <1>1, <1>2 DEF Leads
<1>4. Good(CHOOSE f : Good(f))
  <2> HIDE DEF Good
  <2> QED
    BY <1>3
<1> QED
  BY <1>3, <1>4 DEF ScriptNotes

-----------------------------------------------------------------------------
(* Steps of a run.                                                         *)

(* What a call of the script is, and what is known of it.                  *)
LEMMA AtCall ==
  ASSUME TypeOK, step # 0
  PROVE  /\ step \in 1 .. Len(Script) /\ Len(Script) \in Nat
         /\ Op \in CallSet /\ Here \in Notes /\ ScriptNotes[step] \in Notes
         /\ Follows(Here, Op, ScriptNotes[step])
         /\ step = 1 => Here = Start
<1>1. /\ Script \in Seq(CallSet) /\ Annotates(ScriptNotes, Script)
      /\ ScriptNotes[0] = Start
  BY NotesExist
<1>2. Len(Script) \in Nat /\ step \in 1 .. Len(Script)
  BY <1>1 DEF TypeOK
<1>3. step \in 0 .. Len(Script) /\ step - 1 \in 0 .. Len(Script)
      /\ (step = 1 => step - 1 = 0)
  BY <1>2
<1>4. Script[step] \in CallSet
  BY <1>1, <1>2
<1> QED
  BY <1>1, <1>2, <1>3, <1>4 DEF Annotates, Here, Op

(* The options of a run determine its script. *)
LEMMA SameScript ==
  ASSUME options' = options
  PROVE  Script' = Script /\ ScriptNotes' = ScriptNotes
BY DEF Script, ScriptNotes, If, Start

(* Nothing becomes less expendable while the files stay. *)
LEMMA SameFiles ==
  ASSUME files' = files, owed' = owed
  PROVE  Expendable' = Expendable
BY DEF Expendable, Kept, Complete

(* What the property says of the sectors that are not expendable.          *)
LEMMA DataKept ==
  UserDataKept
  <=> \A s \in Sectors : s \in Expendable \/ flash[s] = owed[s]
BY DEF UserDataKept, Expendable, Kept

(* One sector at most changes, and only what may.                          *)
FlashMayChange ==
  \/ flash' = flash
  \/ /\ work # <<>>
     /\ \E c \in Contents : flash' = [flash EXCEPT ![Head(work).sector] = c]

(* The stub works on sectors that are expendable.                          *)
LEMMA FlashChange ==
  ASSUME TypeOK, WorkSafe, FlashMayChange
  PROVE  /\ flash' \in [Sectors -> Contents]
         /\ \A s \in Sectors :
              flash'[s] # flash[s] =>
                /\ s \in Expendable
                /\ step # 0 /\ Here.answered => s \in Changing
<1>1. CASE flash' = flash
  BY <1>1 DEF TypeOK
<1>2. CASE flash' # flash
  <2>1. work # <<>> /\ work \in Seq(TaskSet) /\ flash \in [Sectors -> Contents]
    BY <1>2 DEF FlashMayChange, TypeOK
  <2>2. PICK c \in Contents : flash' = [flash EXCEPT ![Head(work).sector] = c]
    BY <1>2 DEF FlashMayChange
  <2>3. Head(work) = work[1] /\ 1 \in 1 .. Len(work) /\ work[1] \in TaskSet
    BY <2>1
  <2>4. work[1].sector \in Sectors
    BY <2>3 DEF TaskSet
  <2>5. /\ work[1].sector \in Expendable
        /\ step # 0 /\ Here.answered => work[1].sector \in Changing
    BY <2>1, <2>3 DEF WorkSafe
  <2>6. flash' = [flash EXCEPT ![work[1].sector] = c]
    BY <2>2, <2>3
  <2> QED
    BY <2>1, <2>4, <2>5, <2>6
<1> QED
  BY <1>1, <1>2

(* Therefore the data are kept while the files stay.                       *)
LEMMA DataStayKept ==
  ASSUME TypeOK, WorkSafe, UserDataKept, FlashMayChange,
         files' = files, owed' = owed
  PROVE  UserDataKept'
<1>1. \A s \in Sectors : s \in Expendable \/ flash[s] = owed[s]
  BY DataKept
<1>2. \A s \in Sectors : flash'[s] # flash[s] => s \in Expendable
  BY FlashChange
<1>3. Expendable' = Expendable
  BY SameFiles
<1>4. UserDataKept'
      <=> \A s \in Sectors : s \in Expendable' \/ flash'[s] = owed'[s]
  BY DEF UserDataKept, Expendable, Kept
<1> QED
  BY <1>1, <1>2, <1>3, <1>4

(* What the stub is given to do is in the range of the call.               *)
LEMMA TasksInRange ==
  ASSUME TypeOK, step # 0, KeepsSafe, Op.do \in Modifies
  PROVE  Tasks \in Seq({t \in TaskSet : t.sector \in Op.range})
<1> DEFINE T == {t \in TaskSet : t.sector \in Op.range}
<1>1. /\ Op \in CallSet /\ Follows(Here, Op, ScriptNotes[step])
  BY AtCall
<1>2. Op.range \in SUBSET Sectors
  BY <1>1 DEF CallSet, Modifies
<1>3. ASSUME NEW s \in Op.range, Op.do \in {"raw", "stream"}
      PROVE  Source(s) \in Contents
  <2>1. Op.from = "kept" => s \in Here.keeps
    BY <1>1, <1>3 DEF Follows, Permits
  <2> QED
    BY <2>1 DEF KeepsSafe, Source, Contents
<1>4. ASSUME NEW s \in Op.range, NEW fed \in BOOLEAN
      PROVE  /\ Task(s, "erased", fed) \in T
             /\ Op.do \in {"raw", "stream"} => Task(s, Source(s), TRUE) \in T
  BY <1>2, <1>3 DEF Task, TaskSet, Contents
<1> HIDE DEF T
<1>5. ASSUME NEW tasks \in [Op.range -> Seq(T)]
      PROVE  InOrder(Op.range, tasks) \in Seq(T)
  <2> DEFINE seqs == [s \in Sectors |-> IF s \in Op.range THEN tasks[s] ELSE <<>>]
  <2>1. \A s \in Sectors : seqs[s] \in Seq(T)
    OBVIOUS
  <2>2. seqs \in [1 .. Size -> Seq(T)] /\ Size \in Nat
    BY <2>1, SizeAssumption DEF Sectors
  <2> DEFINE TT == Seq(T)
  <2> HIDE DEF seqs, TT
  <2>3. seqs \in Seq(TT)
    BY <2>2 DEF TT
  <2>4. Seqs!FlattenSeq(seqs) \in Seq(T)
    BY <2>3, FlattenTyped DEF TT
  <2> QED
    BY <2>4 DEF InOrder, FlattenSeq, Seqs!FlattenSeq, seqs
<1> DEFINE Erasing(fed) == [s \in Op.range |-> <<Task(s, "erased", fed)>>]
           Programming == [s \in Op.range |-> <<Task(s, Source(s), TRUE)>>]
<1>6. /\ \A fed \in BOOLEAN : Erasing(fed) \in [Op.range -> Seq(T)]
      /\ Op.do \in {"raw", "stream"} => Programming \in [Op.range -> Seq(T)]
  <2>1. \A x \in T : <<x>> \in Seq(T)
    OBVIOUS
  <2>2. ASSUME NEW fed \in BOOLEAN
        PROVE  Erasing(fed) \in [Op.range -> Seq(T)]
    BY <1>4, <2>1
  <2>3. ASSUME Op.do \in {"raw", "stream"}
        PROVE  Programming \in [Op.range -> Seq(T)]
    <3>1. \A s \in Op.range : Task(s, Source(s), TRUE) \in T
      BY <1>4, <2>3
    <3> QED
      BY <2>1, <3>1
  <2> QED
    BY <2>2, <2>3
<1>7. CASE Op.do = "erase"
  <2>1. Tasks = InOrder(Op.range, Erasing(FALSE))
    BY <1>7 DEF Tasks
  <2> QED
    BY <1>5, <1>6, <2>1 DEF T
<1>8. CASE Op.do = "raw"
  <2>1. Tasks = InOrder(Op.range, Erasing(FALSE))
                  \o InOrder(Op.range, Programming)
    BY <1>8 DEF Tasks
  <2>2. InOrder(Op.range, Erasing(FALSE)) \in Seq(T)
        /\ InOrder(Op.range, Programming) \in Seq(T)
    BY <1>5, <1>6, <1>8
  <2> HIDE DEF Erasing, Programming
  <2>3. Tasks \in Seq(T)
    BY <2>1, <2>2, Concatenation
  <2> QED
    BY <2>3 DEF T
<1>9. CASE Op.do = "stream"
  <2> DEFINE both == [s \in Op.range |-> Erasing(TRUE)[s] \o Programming[s]]
  <2>1. Tasks = InOrder(Op.range, both)
    BY <1>9 DEF Tasks
  <2>2. both \in [Op.range -> Seq(T)]
    <3>1. ASSUME NEW s \in Op.range
          PROVE  Erasing(TRUE)[s] \o Programming[s] \in Seq(T)
      <4>1. Erasing(TRUE)[s] \in Seq(T) /\ Programming[s] \in Seq(T)
        BY <1>6, <1>9
      <4> HIDE DEF Erasing, Programming
      <4> QED
        BY <4>1, Concatenation
    <3> HIDE DEF Erasing, Programming
    <3> QED
      BY <3>1
  <2> HIDE DEF both
  <2> QED
    BY <1>5, <2>1, <2>2 DEF T
<1> QED
  BY <1>7, <1>8, <1>9 DEF Modifies

(* When the call returns with these data kept, all is as the next note has *)
(* it.                                                                     *)
After == ScriptNotes[step]
WantsAfter == IF After.loaded THEN files'[backup] ELSE before'
FilesAttained ==
  /\ After.granted \subseteq Expendable'
  /\ After.loaded => "restore" \in options /\ Len(files'[backup]) = Size
KeepsAttained(data) ==
  /\ After.keeps = Sectors => data \in Seq(Contents) /\ Len(data) = Size
  /\ \A s \in After.keeps :
       /\ data[s] \in Contents /\ data[s] = WantsAfter[s]
       /\ s \in Expendable' \/ data[s] = owed'[s]
FlashAttained ==
  \A s \in Sectors \ After.dirty : flash'[s] = WantsAfter[s]
RateAttained ==
  After.rate # Unknown => rate' = After.rate /\ stubRate' = After.rate
Attains(data) ==
  FilesAttained /\ KeepsAttained(data) /\ FlashAttained /\ RateAttained

(* The next call, or the end of a run that passes.                         *)
LEMMA Onward ==
  ASSUME TypeOK, Passed, step # 0, InRun, TypeOK', NEW data,
         ProceedKeeping(data), run' = run,
         work' = <<>>, Attains(data)
  PROVE  WorkSafe' /\ Passed' /\ (step # 0 => InRun)'
<1>1. /\ step \in 1 .. Len(Script) /\ Len(Script) \in Nat
      /\ Follows(Here, Op, After)
  BY AtCall DEF After
<1>2. /\ runs' = runs /\ options' = options /\ backup' = backup
      /\ waiting' = FALSE
  BY DEF run, ProceedKeeping
<1>3. ScriptNotes' = ScriptNotes
  BY <1>2, SameScript
<1>4. Changing' = {}
  BY <1>2 DEF Changing
<1>5. WorkSafe'
  BY DEF WorkSafe
<1>6. /\ After.answered = TRUE
      /\ After.restores = ("restore" \in options)
  BY <1>1 DEF Follows, InRun, Knows
<1>7. CASE step < Len(Script)
  <2>1. step' = step + 1 /\ kept' = data /\ verdict' = verdict
    BY <1>7 DEF ProceedKeeping
  <2>2. step' # 0 /\ step' # 1 /\ step' - 1 = step
    BY <1>1, <2>1
  <2>3. Here' = After
    BY <1>3, <2>2 DEF Here, After
  <2>4. Wants' = WantsAfter
    BY <1>2, <2>3 DEF Wants, WantsAfter
  <2>5. Knows'
    BY <1>2, <1>6, <2>2, <2>3 DEF Knows, Attains, FilesAttained, Complete
  <2>6. KeepsSafe'
    BY <2>1, <2>3, <2>4 DEF KeepsSafe, Attains, KeepsAttained, Lossless
  <2>7. Loaded'
    BY <1>2, <2>3 DEF Loaded, InRun, Attains, FilesAttained, Complete
  <2>8. Restoring'
    BY <1>4, <2>3, <2>4 DEF Restoring, Attains, FlashAttained
  <2>9. RateKnown'
    BY <1>2, <2>3 DEF RateKnown, Attains, RateAttained
  <2>10. Saving'
    BY <1>2 DEF Saving
  <2>11. Passed'
    BY <2>1 DEF Passed
  <2> QED
    BY <1>5, <2>5, <2>6, <2>7, <2>8, <2>9, <2>10, <2>11 DEF InRun
<1>8. CASE ~(step < Len(Script))
  <2>1. step = Len(Script) /\ step' = 0
    BY <1>1, <1>8 DEF ProceedKeeping
  <2>2. /\ After.restores => After.loaded
        /\ After.dirty = {} /\ After.rate = Default
    BY <2>1, NotesExist DEF After
  <2>3. After.loaded <=> "restore" \in options
    <3>1. After.loaded => "restore" \in options
      BY DEF Attains, FilesAttained
    <3>2. "restore" \in options => After.loaded
      BY <1>6, <2>2, Zenon
    <3> QED
      BY <3>1, <3>2, Zenon
  <2>4. WantsAfter = IF "restore" \in options' THEN files'[backup'] ELSE before'
    BY <1>2, <2>3 DEF WantsAfter
  <2>5. \A s \in Sectors : flash'[s] = WantsAfter[s]
    BY <2>2 DEF Attains, FlashAttained
  <2>6. WantsAfter \in [Sectors -> Contents]
    <3>1. CASE After.loaded
      <4>1. files'[backup] \in Seq(Contents) /\ Len(files'[backup]) = Size
        BY <1>2, <3>1 DEF TypeOK, Attains, FilesAttained
      <4>2. files'[backup] \in [Sectors -> Contents]
        BY <4>1 DEF Sectors
      <4> QED
        BY <3>1, <4>2 DEF WantsAfter
    <3>2. CASE ~After.loaded
      BY <3>2 DEF WantsAfter, TypeOK
    <3> QED
      BY <3>1, <3>2
  <2>7. flash' \in [Sectors -> Contents]
    BY DEF TypeOK
  <2>8. flash' = WantsAfter
    BY <2>5, <2>6, <2>7
  <2>9. rate' = Default /\ stubRate' = Default
    <3>1. Default # Unknown
      BY DEF Default, Unknown
    <3> QED
      BY <2>2, <3>1 DEF Attains, RateAttained
  <2>10. PassedMeansRestored'
    BY <2>4, <2>8, <2>9 DEF PassedMeansRestored
  <2>11. Passed'
    BY <2>1, <2>10 DEF Passed
  <2> QED
    BY <1>5, <2>1, <2>11
<1> QED
  BY <1>7, <1>8

(* What is left of the work.                                               *)
WorkMayShrink ==
  \/ work' = work \/ work' = <<>>
  \/ work # <<>> /\ work' = Tail(work)

(* What is left of it was there.                                           *)
LEMMA WorkLeft ==
  ASSUME TypeOK, WorkMayShrink
  PROVE  /\ work' \in Seq(TaskSet)
         /\ \A i \in 1 .. Len(work') :
              \E j \in 1 .. Len(work) : work'[i] = work[j]
<1>1. work \in Seq(TaskSet)
  BY DEF TypeOK
<1>2. CASE work' = work
  BY <1>1, <1>2
<1>3. CASE work' = <<>>
  BY <1>1, <1>3
<1>4. CASE work # <<>> /\ work' = Tail(work)
  <2>1. /\ work' \in Seq(TaskSet) /\ Len(work') = Len(work) - 1
        /\ \A i \in 1 .. Len(work') : work'[i] = work[i + 1]
    BY <1>1, <1>4
  <2>2. \A i \in 1 .. Len(work') : i + 1 \in 1 .. Len(work)
    BY <1>1, <2>1
  <2> QED
    BY <2>1, <2>2
<1> QED
  BY <1>2, <1>3, <1>4 DEF WorkMayShrink

(* An exception ends the run, whatever happens to the board at that time.  *)
LEMMA Raising ==
  ASSUME Inv, Raise, FlashMayChange, WorkMayShrink,
         files' = files, owed' = owed, before' = before, run' = run
  PROVE  Inv'
<1>1. /\ step' = 0 /\ waiting' = FALSE /\ verdict' = "failed"
      /\ runs' = runs /\ out' = out /\ backup' = backup /\ options' = options
  BY DEF Raise, run
<1>2. flash' \in [Sectors -> Contents] /\ UserDataKept'
  BY FlashChange, DataStayKept DEF Inv
<1>3. Expendable' = Expendable
  BY SameFiles
<1>4. /\ work' \in Seq(TaskSet)
      /\ \A i \in 1 .. Len(work') :
           \E j \in 1 .. Len(work) : work'[i] = work[j]
  BY WorkLeft DEF Inv
<1>5. Len(Script') \in Nat
  <2>1. Script' = Script
    BY <1>1, SameScript
  <2> QED
    BY <2>1, NotesExist
<1>6. TypeOK'
  <2>1. step' \in 0 .. Len(Script')
    BY <1>1, <1>5
  <2>2. waiting' \in BOOLEAN /\ (step' # 0 => runs' # 0)
    BY <1>1, Zenon
  <2>3. /\ owed' \in [Sectors -> Contents]
        /\ before' \in [Sectors -> Contents]
        /\ files' \in [Files -> Seq(Contents)]
        /\ runs' \in 0 .. MaxRuns /\ out' \in Dirs /\ backup' \in Files
    BY <1>1 DEF Inv, TypeOK
  <2> QED
    BY <1>2, <1>4, <2>1, <2>2, <2>3 DEF TypeOK
<1>7. WorkSafe'
  BY <1>1, <1>3, <1>4 DEF Inv, WorkSafe
<1>8. Passed'
  BY <1>1 DEF Passed
<1> QED
  BY <1>1, <1>2, <1>6, <1>7, <1>8 DEF Inv

(* What happens to the board alone.                                        *)
LEMMA BoardSteps ==
  ASSUME Inv, probe' = probe, FlashMayChange, WorkMayShrink,
         stubRate' = stubRate, files' = files, owed' = owed,
         before' = before, run' = run
  PROVE  Inv'
<1>1. /\ step' = step /\ waiting' = waiting /\ verdict' = verdict
      /\ kept' = kept /\ rate' = rate
      /\ runs' = runs /\ out' = out /\ backup' = backup /\ options' = options
  BY DEF probe, run
<1>2. flash' \in [Sectors -> Contents] /\ UserDataKept'
  BY FlashChange, DataStayKept DEF Inv
<1>3. Expendable' = Expendable
  BY SameFiles
<1>4. /\ work' \in Seq(TaskSet)
      /\ \A i \in 1 .. Len(work') :
           \E j \in 1 .. Len(work) : work'[i] = work[j]
  BY WorkLeft DEF Inv
<1>5. Script' = Script /\ ScriptNotes' = ScriptNotes
  BY <1>1, SameScript
<1>6. TypeOK'
  BY <1>1, <1>2, <1>4, <1>5 DEF Inv, TypeOK
<1>7. Here' = Here /\ Op' = Op /\ Changing' = Changing /\ Wants' = Wants
  <2>1. Here' = Here /\ Op' = Op
    BY <1>1, <1>5 DEF Here, Op
  <2> QED
    BY <1>1, <2>1 DEF Changing, Wants
<1>8. work = <<>> => work' = <<>>
  BY DEF WorkMayShrink
<1>9. WorkSafe'
  BY <1>1, <1>3, <1>4, <1>7, <1>8 DEF Inv, WorkSafe
<1>10. Passed'
  <2>1. verdict = "passed" => flash' = flash /\ work' = <<>>
    BY <1>8 DEF Inv, Passed, FlashMayChange
  <2> QED
    BY <1>1, <2>1 DEF Inv, Passed, PassedMeansRestored
<1>11. ASSUME step # 0 PROVE InRun'
  <2>1. Knows'
    BY <1>1, <1>3, <1>7, <1>11 DEF Inv, InRun, Knows, Complete
  <2>2. KeepsSafe'
    BY <1>1, <1>3, <1>7, <1>11 DEF Inv, InRun, KeepsSafe, Lossless
  <2>3. Loaded'
    BY <1>1, <1>7, <1>11 DEF Inv, InRun, Loaded, Complete
  <2>4. Restoring'
    <3>1. Here.answered =>
            \A s \in Sectors : flash'[s] # flash[s] => s \in Changing
      BY <1>11, FlashChange DEF Inv
    <3> QED
      BY <1>7, <1>11, <3>1 DEF Inv, InRun, Restoring
  <2>5. RateKnown'
    BY <1>1, <1>7, <1>11 DEF Inv, InRun, RateKnown
  <2>6. Saving'
    BY <1>1, <1>7, <1>11 DEF Inv, InRun, Saving, Target, Complete
  <2> QED
    BY <2>1, <2>2, <2>3, <2>4, <2>5, <2>6 DEF InRun
<1> QED
  BY <1>1, <1>2, <1>6, <1>9, <1>10, <1>11 DEF Inv

(* A call that leaves the files alone returns.                             *)
LEMMA Returning ==
  ASSUME Inv, step # 0, NEW data, ProceedKeeping(data), run' = run,
         files' = files, before' \in [Sectors -> Contents],
         owed' \in [Sectors -> Contents],
         owed' = owed \/ Expendable' = Sectors,
         FlashMayChange, work' = <<>>, Attains(data)
  PROVE  Inv'
<1>1. flash' \in [Sectors -> Contents] /\ UserDataKept'
  <2>1. CASE owed' = owed
    BY <2>1, FlashChange, DataStayKept DEF Inv
  <2>2. CASE Expendable' = Sectors
    BY <2>2, FlashChange DEF Inv, UserDataKept, Expendable, Kept
  <2> QED
    BY <2>1, <2>2
<1>2. runs' = runs /\ out' = out /\ backup' = backup /\ options' = options
  BY DEF run
<1>3. Script' = Script
  BY <1>2, SameScript
<1>4. TypeOK'
  <2>1. step' \in 0 .. Len(Script')
    <3>1. step \in 1 .. Len(Script) /\ Len(Script) \in Nat
      BY AtCall DEF Inv
    <3> QED
      BY <1>3, <3>1 DEF ProceedKeeping
  <2>2. waiting' \in BOOLEAN /\ (step' # 0 => runs' # 0)
    <3>1. waiting' = FALSE /\ runs # 0
      BY DEF ProceedKeeping, Inv, TypeOK
    <3> QED
      BY <1>2, <3>1, Zenon
  <2>3. /\ files' \in [Files -> Seq(Contents)]
        /\ runs' \in 0 .. MaxRuns /\ out' \in Dirs /\ backup' \in Files
    BY <1>2 DEF Inv, TypeOK
  <2>4. work' \in Seq(TaskSet)
    OBVIOUS
  <2> QED
    BY <1>1, <2>1, <2>2, <2>3, <2>4 DEF TypeOK
<1>5. WorkSafe' /\ Passed' /\ (step # 0 => InRun)'
  BY <1>4, Onward DEF Inv
<1> QED
  BY <1>1, <1>4, <1>5 DEF Inv

(* What was known of the files, or is with an erased sector.               *)
LEMMA FilesCarry ==
  ASSUME Inv, step # 0, files' = files, owed' = owed,
         Op.do \notin {"save", "load"},
         Op.do = "read" /\ Op.want = "erased" => Op.range \subseteq Expendable
  PROVE  FilesAttained
<1>1. Follows(Here, Op, After)
  BY AtCall DEF Inv, After
<1>2. After.granted \subseteq Expendable
  <2>1. After.granted \subseteq Granted(Here, Op)
    BY <1>1 DEF Follows
  <2>2. Here.granted \subseteq Expendable
    BY DEF Inv, InRun, Knows
  <2>3. Granted(Here, Op) \subseteq Expendable
    BY <2>2 DEF Granted
  <2> QED
    BY <2>1, <2>3
<1>3. After.loaded <=> Here.loaded
  BY <1>1 DEF Follows
<1>4. Expendable' = Expendable
  BY SameFiles
<1>5. After.loaded => "restore" \in options /\ Len(files'[backup]) = Size
  BY <1>3 DEF Inv, InRun, Loaded, Complete
<1> QED
  BY <1>2, <1>4, <1>5 DEF FilesAttained

(* What was kept and is not replaced.                                      *)
LEMMA KeepsCarry ==
  ASSUME Inv, step # 0, Expendable \subseteq Expendable', owed' = owed,
         files'[backup] = files[backup], before' = before \/ step = 1,
         Op.do # "load", Op.do = "read" => ~Op.keep
  PROVE  KeepsAttained(kept)
<1>1. /\ Follows(Here, Op, After) /\ Here \in Notes
      /\ step = 1 => Here = Start
  BY AtCall DEF Inv, After
<1>2. After.keeps \subseteq Here.keeps
  BY <1>1 DEF Follows, Keeps
<1>3. After.loaded <=> Here.loaded
  BY <1>1 DEF Follows
<1>4. CASE step = 1
  <2>1. After.keeps = {}
    BY <1>1, <1>2, <1>4 DEF Start
  <2>2. Sectors # {}
    BY SizeAssumption DEF Sectors
  <2> QED
    BY <2>1, <2>2 DEF KeepsAttained
<1>5. CASE step # 1
  <2>1. WantsAfter = Wants
    BY <1>3, <1>5 DEF WantsAfter, Wants
  <2>2. After.keeps = Sectors => Here.keeps = Sectors
    BY <1>1, <1>2 DEF Notes
  <2>3. KeepsSafe
    BY DEF Inv, InRun
  <2> QED
    BY <1>2, <2>1, <2>2, <2>3 DEF KeepsAttained, KeepsSafe, Lossless
<1> QED
  BY <1>4, <1>5

(* What was known of the flash and may not have changed. *)
LEMMA FlashCarry ==
  ASSUME Inv, step # 0, FlashMayChange, Here.answered,
         files'[backup] = files[backup], before' = before,
         Op.do # "load", ~(Op.do = "read" /\ Op.want = "kept")
  PROVE  FlashAttained
<1>1. Follows(Here, Op, After)
  BY AtCall DEF Inv, After
<1>2. Here.dirty \cup Changing \subseteq After.dirty
  BY <1>1 DEF Follows, Dirty, Changing, Modifies
<1>3. After.loaded <=> Here.loaded
  BY <1>1 DEF Follows
<1>4. WantsAfter = Wants
  BY <1>3 DEF WantsAfter, Wants
<1>5. \A s \in Sectors : flash'[s] # flash[s] => s \in Changing
  BY FlashChange DEF Inv
<1>6. \A s \in Sectors \ (Here.dirty \cup Changing) : flash[s] = Wants[s]
  BY DEF Inv, InRun, Restoring
<1> QED
  BY <1>2, <1>4, <1>5, <1>6 DEF FlashAttained

(* The rate, if the call was not to change it.                             *)
LEMMA RateCarry ==
  ASSUME Inv, step # 0, rate' = rate, stubRate' = stubRate, Op.do # "rate"
  PROVE  RateAttained
<1>1. Follows(Here, Op, After)
  BY AtCall DEF Inv, After
<1>2. After.rate \in {Unknown, Here.rate}
  BY <1>1 DEF Follows, NewRate
<1> QED
  BY <1>2 DEF Inv, InRun, RateKnown, RateAttained

-----------------------------------------------------------------------------
(* The steps of the probe.                                                 *)

(* The stub is idle but for commands that change the flash, and when the   *)
(* probe has not yet heard of it.                                          *)
LEMMA Idle ==
  ASSUME Inv, step # 0, Op.do # "ask", Op.do \notin Modifies
  PROVE  work = <<>> /\ Here.answered
<1>1. Here.answered
  BY AtCall DEF Inv, Follows, Permits
<1>2. Changing = {}
  BY DEF Changing
<1>3. \A i \in 1 .. Len(work) : FALSE
  BY <1>1, <1>2 DEF Inv, WorkSafe
<1>4. work \in Seq(TaskSet)
  BY DEF Inv, TypeOK
<1> QED
  BY <1>1, <1>3, <1>4

(* The first answer is the one that says what the flash holds. *)
LEMMA AnsweredSafe ==
  ASSUME Inv, Answered
  PROVE  Inv'
<1>1. /\ step # 0 /\ Op.do = "ask" /\ ~waiting /\ work' = <<>>
      /\ flash' = flash /\ stubRate' = stubRate /\ rate' = rate
      /\ owed' = owed /\ files' = files /\ run' = run
      /\ ProceedKeeping(kept)
      /\ before' = IF step = 1 THEN flash ELSE before
  BY DEF Answered, Calls, At, Running, Op, Reachable, board, Proceed
<1>2. FlashMayChange
  BY <1>1 DEF FlashMayChange
<1>3. before' \in [Sectors -> Contents] /\ owed' \in [Sectors -> Contents]
  BY <1>1 DEF Inv, TypeOK
<1>4. FilesAttained
  BY <1>1, FilesCarry
<1>5. KeepsAttained(kept)
  BY <1>1, SameFiles, KeepsCarry
<1>6. FlashAttained
  <2>1. CASE step = 1
    <3>1. Follows(Here, Op, After) /\ Here = Start
      BY <1>1, <2>1, AtCall DEF Inv, After
    <3>2. After.loaded <=> FALSE
      BY <1>1, <3>1 DEF Follows, Start
    <3> QED
      BY <1>1, <2>1, <3>2 DEF FlashAttained, WantsAfter
  <2>2. CASE step # 1
    <3>1. Here.answered
      BY <1>1, <2>2 DEF Inv, InRun, Knows
    <3> QED
      BY <1>1, <1>2, <2>2, <3>1, FlashCarry
  <2> QED
    BY <2>1, <2>2
<1>7. RateAttained
  BY <1>1, RateCarry
<1> QED
  BY <1>1, <1>2, <1>3, <1>4, <1>5, <1>6, <1>7, Returning DEF Attains

(* The probe follows the rate that the stub has. *)
LEMMA FollowRateSafe ==
  ASSUME Inv, FollowRate
  PROVE  Inv'
<1>1. /\ step # 0 /\ Op.do = "rate" /\ waiting /\ work' = work
      /\ flash' = flash /\ stubRate' = stubRate /\ rate' = Op.rate
      /\ owed' = owed /\ files' = files /\ run' = run
      /\ before' = before /\ ProceedKeeping(kept)
  BY DEF FollowRate, Returns, At, Running, Op, board, Proceed
<1>2. FlashMayChange
  BY <1>1 DEF FlashMayChange
<1>3. before' \in [Sectors -> Contents] /\ owed' \in [Sectors -> Contents]
  BY <1>1 DEF Inv, TypeOK
<1>4. work = <<>> /\ Here.answered
  BY <1>1, Idle DEF Modifies
<1>5. FilesAttained
  BY <1>1, FilesCarry
<1>6. KeepsAttained(kept)
  BY <1>1, SameFiles, KeepsCarry
<1>7. FlashAttained
  BY <1>1, <1>2, <1>4, FlashCarry
<1>8. RateAttained
  <2>1. Follows(Here, Op, After)
    BY <1>1, AtCall DEF Inv, After
  <2>2. After.rate \in {Unknown, Op.rate}
    BY <1>1, <2>1 DEF Follows, NewRate
  <2>3. stubRate = Op.rate
    BY <1>1 DEF Inv, InRun, RateKnown
  <2> QED
    BY <1>1, <2>2, <2>3 DEF RateAttained
<1>9. work' = <<>>
  BY <1>1, <1>4
<1> QED
  BY <1>1, <1>2, <1>3, <1>5, <1>6, <1>7, <1>8, <1>9, Returning DEF Attains

(* What was read is erased, or as kept, or is kept from now on. *)
LEMMA ReadSafe ==
  ASSUME Inv, ReadAsWanted
  PROVE  Inv'
<1> DEFINE data == IF Op.keep THEN Data(Op.range) ELSE kept
<1>1. /\ step # 0 /\ Op.do = "read" /\ ~waiting /\ work' = <<>>
      /\ flash' = flash /\ stubRate' = stubRate /\ rate' = rate
      /\ owed' = owed /\ files' = files /\ run' = run
      /\ before' = before /\ ProceedKeeping(data)
      /\ Wanted(Data(Op.range), Op.want)
  BY DEF ReadAsWanted, Calls, At, Running, Op, Reachable, board
<1>2. FlashMayChange
  BY <1>1 DEF FlashMayChange
<1>3. before' \in [Sectors -> Contents] /\ owed' \in [Sectors -> Contents]
  BY <1>1 DEF Inv, TypeOK
<1>4. /\ Follows(Here, Op, After) /\ Here.answered
      /\ After \in Notes /\ Op \in CallSet
  <2>1. Here.answered
    BY <1>1, Idle DEF Modifies
  <2> QED
    BY <1>1, <2>1, AtCall DEF Inv, After
<1>5. Op.range \in SUBSET Sectors
  BY <1>1, <1>4 DEF CallSet
<1>6. WantsAfter = Wants
  <2>1. After.loaded <=> Here.loaded
    BY <1>1, <1>4 DEF Follows
  <2> QED
    BY <1>1, <2>1 DEF WantsAfter, Wants
<1>7. /\ \A s \in Sectors \ Here.dirty : flash[s] = Wants[s]
      /\ \A s \in Sectors : s \in Expendable \/ flash[s] = owed[s]
  BY <1>1, <1>4, DataKept DEF Inv, InRun, Restoring, Changing
<1>8. FilesAttained
  <2>1. ASSUME Op.want = "erased" PROVE Op.range \subseteq Expendable
    <3>1. \A s \in Op.range : flash[s] = "erased"
      BY <1>1, <2>1 DEF Wanted, Data
    <3> QED
      BY <1>5, <1>7, <3>1 DEF Expendable, Kept
  <2> QED
    BY <1>1, <2>1, FilesCarry
<1>9. KeepsAttained(data)
  <2>1. CASE Op.keep
    <3>1. After.keeps \subseteq Op.range /\ Op.range \cap Here.dirty = {}
      BY <1>1, <1>4, <2>1 DEF Follows, Permits, Keeps
    <3>2. \A s \in Op.range : data[s] = flash[s] /\ flash[s] \in Contents
      BY <1>5, <2>1 DEF Data, Inv, TypeOK
    <3>3. ASSUME After.keeps = Sectors
          PROVE  data \in Seq(Contents) /\ Len(data) = Size
      <4>1. Op.range = Sectors
        BY <1>5, <3>1, <3>3
      <4>2. data \in [1 .. Size -> Contents] /\ Size \in Nat
        BY <2>1, <3>2, <4>1, SizeAssumption DEF Data, Sectors
      <4> QED
        BY <4>2
    <3>4. Expendable' = Expendable /\ owed' = owed
      BY <1>1, SameFiles
    <3> QED
      BY <1>5, <1>6, <1>7, <3>1, <3>2, <3>3, <3>4 DEF KeepsAttained
  <2>2. CASE ~Op.keep
    BY <1>1, <2>2, SameFiles, KeepsCarry
  <2> QED
    BY <2>1, <2>2
<1>10. FlashAttained
  <2>1. CASE Op.want = "kept"
    <3>1. /\ Op.range \subseteq Here.keeps
          /\ Here.dirty \ Op.range \subseteq After.dirty
      BY <1>1, <1>4, <2>1 DEF Follows, Permits, Dirty, Modifies
    <3>2. \A s \in Op.range : flash[s] = kept[s]
      BY <1>1, <2>1 DEF Wanted, Data
    <3>3. \A s \in Here.keeps : kept[s] = Wants[s]
      BY <1>1 DEF Inv, InRun, KeepsSafe
    <3> QED
      BY <1>1, <1>6, <1>7, <3>1, <3>2, <3>3 DEF FlashAttained
  <2>2. CASE Op.want # "kept"
    BY <1>1, <1>2, <1>4, <2>2, FlashCarry
  <2> QED
    BY <2>1, <2>2
<1>11. RateAttained
  BY <1>1, RateCarry
<1> HIDE DEF data
<1> QED
  BY <1>1, <1>2, <1>3, <1>8, <1>9, <1>10, <1>11, Returning DEF Attains

(* A command has changed what it was to change, or so the probe believes. *)
LEMMA TaskReturns ==
  ASSUME Inv, TaskDone \/ SentButNotTaken
  PROVE  Inv'
<1>1. /\ step # 0 /\ Op.do \in Modifies /\ work' = <<>>
      /\ stubRate' = stubRate /\ rate' = rate
      /\ owed' = owed /\ files' = files /\ run' = run
      /\ before' = before /\ ProceedKeeping(kept)
  BY DEF TaskDone, SentButNotTaken, Returns, At, Running, Op, board, Proceed,
         Feeding
<1>2. FlashMayChange
  <2>1. CASE TaskDone
    BY <2>1 DEF TaskDone, board, FlashMayChange
  <2>2. CASE SentButNotTaken
    BY <2>2 DEF SentButNotTaken, Broken, FlashMayChange, Contents
  <2> QED
    BY <2>1, <2>2
<1>3. before' \in [Sectors -> Contents] /\ owed' \in [Sectors -> Contents]
  BY <1>1 DEF Inv, TypeOK
<1>4. Here.answered
  BY <1>1, AtCall DEF Inv, Follows, Permits, Modifies
<1>5. FilesAttained
  BY <1>1, FilesCarry DEF Modifies
<1>6. KeepsAttained(kept)
  BY <1>1, SameFiles, KeepsCarry DEF Modifies
<1>7. FlashAttained
  BY <1>1, <1>2, <1>4, FlashCarry DEF Modifies
<1>8. RateAttained
  BY <1>1, RateCarry DEF Modifies
<1> QED
  BY <1>1, <1>2, <1>3, <1>5, <1>6, <1>7, <1>8, Returning DEF Attains

(* A command for another rate, or one that changes the flash, is on its way. *)
LEMMA SendSafe ==
  ASSUME Inv, SendRate \/ SendTask
  PROVE  Inv'
<1>1. /\ step # 0 /\ ~waiting /\ work = <<>> /\ waiting' = TRUE
      /\ flash' = flash /\ owed' = owed /\ before' = before
      /\ files' = files /\ runs' = runs /\ options' = options
      /\ out' = out /\ backup' = backup /\ step' = step /\ kept' = kept /\ rate' = rate
      /\ verdict' = verdict
  BY DEF SendRate, SendTask, Calls, At, Running, Reachable, run
<1>2. \/ /\ Op.do = "rate" /\ work' = <<>> /\ stubRate' = Op.rate
      \/ /\ Op.do \in Modifies /\ work' = Tasks /\ stubRate' = stubRate
  BY <1>1 DEF SendRate, SendTask, Calls, At, Op
<1>3. Script' = Script /\ ScriptNotes' = ScriptNotes
  BY <1>1, SameScript
<1>4. Here' = Here /\ Op' = Op /\ Wants' = Wants
  <2>1. Here' = Here /\ Op' = Op
    BY <1>1, <1>3 DEF Here, Op
  <2> QED
    BY <1>1, <2>1 DEF Wants
<1>5. Expendable' = Expendable
  BY <1>1, SameFiles
<1>6. /\ work' \in Seq(TaskSet)
      /\ \A i \in 1 .. Len(work') :
           work'[i].sector \in Expendable /\ work'[i].sector \in Changing'
  <2>1. CASE Op.do = "rate" /\ work' = <<>>
    BY <2>1
  <2>2. CASE Op.do \in Modifies /\ work' = Tasks
    <3> DEFINE T == {t \in TaskSet : t.sector \in Op.range}
    <3>1. work' \in Seq(T)
      BY <1>1, <2>2, TasksInRange DEF Inv, InRun
    <3>2. \A t \in T : t \in TaskSet /\ t.sector \in Op.range
      OBVIOUS
    <3> HIDE DEF T
    <3>3. /\ work' \in Seq(TaskSet)
          /\ \A i \in 1 .. Len(work') : work'[i].sector \in Op.range
      BY <3>1, <3>2
    <3>4. Changing' = Op.range
      BY <1>1, <1>4, <2>2 DEF Changing
    <3>5. Op.range \subseteq Expendable
      <4>1. Op.range \subseteq Here.granted
        BY <1>1, <2>2, AtCall DEF Inv, Follows, Permits
      <4> QED
        BY <1>1, <4>1 DEF Inv, InRun, Knows
    <3> QED
      BY <3>3, <3>4, <3>5
  <2> QED
    BY <1>2, <2>1, <2>2
<1>7. TypeOK'
  <2>1. waiting' \in BOOLEAN
    BY <1>1, Zenon
  <2>2. step' \in 0 .. Len(Script') /\ (step' # 0 => runs' # 0)
    BY <1>1, <1>3 DEF Inv, TypeOK
  <2>3. /\ flash' \in [Sectors -> Contents]
        /\ owed' \in [Sectors -> Contents]
        /\ before' \in [Sectors -> Contents]
        /\ files' \in [Files -> Seq(Contents)]
        /\ runs' \in 0 .. MaxRuns /\ out' \in Dirs /\ backup' \in Files
    BY <1>1 DEF Inv, TypeOK
  <2> QED
    BY <1>6, <2>1, <2>2, <2>3 DEF TypeOK
<1>8. UserDataKept'
  BY <1>1 DEF Inv, UserDataKept, Complete
<1>9. WorkSafe'
  BY <1>5, <1>6 DEF WorkSafe
<1>10. Passed'
  BY <1>1 DEF Inv, Passed
<1>11. InRun'
  <2>1. InRun
    BY <1>1 DEF Inv
  <2>2. Knows'
    BY <1>1, <1>4, <1>5, <2>1 DEF InRun, Knows, Complete
  <2>3. KeepsSafe'
    BY <1>1, <1>4, <1>5, <2>1 DEF InRun, KeepsSafe, Lossless
  <2>4. Loaded'
    BY <1>1, <1>4, <2>1 DEF InRun, Loaded, Complete
  <2>5. Restoring'
    <3>1. Changing = {}
      BY <1>1 DEF Changing
    <3> QED
      BY <1>1, <1>4, <2>1, <3>1 DEF InRun, Restoring
  <2>6. RateKnown'
    <3>1. CASE Op.do = "rate" /\ stubRate' = Op.rate
      BY <1>1, <1>4, <3>1 DEF RateKnown
    <3>2. CASE Op.do \in Modifies /\ stubRate' = stubRate
      BY <1>1, <1>4, <2>1, <3>2 DEF InRun, RateKnown, Modifies
    <3> QED
      BY <1>2, <3>1, <3>2
  <2>7. Saving'
    BY <1>2, <1>4 DEF Saving, Modifies
  <2> QED
    BY <2>2, <2>3, <2>4, <2>5, <2>6, <2>7 DEF InRun
<1> QED
  BY <1>7, <1>8, <1>9, <1>10, <1>11 DEF Inv

(* A backup is made of what the flash holds, and nothing has been loaded or *)
(* granted by then.                                                        *)
LEMMA BeforeSave ==
  ASSUME Inv, step # 0, Op.do = "save"
  PROVE  /\ Op.kind \in Cycles /\ Target \in Files
         /\ Here.keeps = Sectors /\ Here.granted = {} /\ ~Here.loaded
         /\ kept \in Seq(Contents) /\ Len(kept) = Size
         /\ work = <<>> /\ Here.answered
         /\ \A s \in Sectors : kept[s] = Wants[s] /\ flash[s] = kept[s]
<1>1. /\ Op \in CallSet /\ Follows(Here, Op, After) /\ InRun
  BY AtCall DEF Inv, After
<1>2. Op.kind \in Cycles
  BY <1>1 DEF CallSet
<1>3. Target \in Files
  BY <1>2 DEF Files, Target, Inv, TypeOK
<1>4. /\ Here.keeps = Sectors /\ Here.granted = {} /\ Here.dirty = {}
      /\ ~Here.loaded
  BY <1>1 DEF Follows, Permits
<1>5. kept \in Seq(Contents) /\ Len(kept) = Size
  BY <1>1, <1>4 DEF InRun, KeepsSafe
<1>6. work = <<>> /\ Here.answered /\ Changing = {}
  BY Idle DEF Modifies, Changing
<1>7. \A s \in Sectors : kept[s] = Wants[s]
  BY <1>1, <1>4 DEF InRun, KeepsSafe
<1>8. \A s \in Sectors : flash[s] = Wants[s]
  BY <1>1, <1>4, <1>6 DEF InRun, Restoring
<1> QED
  BY <1>2, <1>3, <1>4, <1>5, <1>6, <1>7, <1>8

(* The file is truncated, or all is written.                               *)
LEMMA SaveFile ==
  ASSUME Inv, step # 0, Op.do = "save", NEW n \in {1, Size},
         files' = [files EXCEPT ![Target] = SubSeq(kept, 1, n)]
  PROVE  /\ files' \in [Files -> Seq(Contents)]
         /\ Len(files'[Target]) = n
         /\ n = Size => files'[Target] = kept
         /\ owed' = owed /\ ~Complete(Target) => Expendable \subseteq Expendable'
<1>1. /\ Target \in Files /\ kept \in Seq(Contents) /\ Len(kept) = Size
  BY BeforeSave
<1> DEFINE data == SubSeq(kept, 1, n)
<1>2. /\ data \in Seq(Contents) /\ Len(data) = n
      /\ n = Size => data = kept
  BY <1>1, SizeAssumption
<1>3. files \in [Files -> Seq(Contents)]
  BY DEF Inv, TypeOK
<1>4. files' = [files EXCEPT ![Target] = data]
  OBVIOUS
<1> HIDE DEF data
<1>5. /\ files' \in [Files -> Seq(Contents)] /\ files'[Target] = data
      /\ \A f \in Files : f # Target => files'[f] = files[f]
  BY <1>1, <1>2, <1>3, <1>4
<1>6. ASSUME owed' = owed, ~Complete(Target)
      PROVE  Expendable \subseteq Expendable'
  <2>1. ASSUME NEW s \in Sectors, Kept(s)
        PROVE  \/ owed'[s] = "erased"
               \/ \E f \in Files :
                    Len(files'[f]) = Size /\ files'[f][s] = owed'[s]
    BY <1>5, <1>6, <2>1 DEF Kept, Complete
  <2> QED
    BY <2>1 DEF Expendable, Kept, Complete
<1> QED
  BY <1>2, <1>5, <1>6

(* While it is being written it is not complete.  If it was, the user is   *)
(* owed what the flash still holds.                                        *)
LEMMA StartSaveSafe ==
  ASSUME Inv, StartSave
  PROVE  Inv'
<1>1. /\ step # 0 /\ Op.do = "save" /\ ~waiting /\ waiting' = TRUE
      /\ flash' = flash /\ work' = work /\ stubRate' = stubRate
      /\ before' = before /\ runs' = runs /\ options' = options
      /\ out' = out /\ backup' = backup
      /\ step' = step /\ kept' = kept /\ rate' = rate /\ verdict' = verdict
      /\ files' = [files EXCEPT ![Target] = SubSeq(kept, 1, 1)]
      /\ owed' = IF Complete(Target) THEN kept ELSE owed
  BY DEF StartSave, At, Running, Op, board, run
<1>2. /\ Here.keeps = Sectors /\ Here.granted = {} /\ ~Here.loaded
      /\ kept \in Seq(Contents) /\ Len(kept) = Size
      /\ work = <<>> /\ Here.answered
      /\ \A s \in Sectors : kept[s] = Wants[s] /\ flash[s] = kept[s]
  BY <1>1, BeforeSave
<1>3. /\ files' \in [Files -> Seq(Contents)] /\ Len(files'[Target]) = 1
      /\ owed' = owed /\ ~Complete(Target) => Expendable \subseteq Expendable'
  BY <1>1, SaveFile
<1>4. Script' = Script /\ ScriptNotes' = ScriptNotes
  BY <1>1, SameScript
<1>5. Here' = Here /\ Op' = Op /\ Target' = Target /\ Changing' = {}
      /\ Changing = {}
  <2>1. Here' = Here /\ Op' = Op
    BY <1>1, <1>4 DEF Here, Op
  <2> QED
    BY <1>1, <2>1 DEF Changing, Modifies, Target
<1>6. InRun
  BY <1>1 DEF Inv
<1>7. Wants' = Wants
  BY <1>1, <1>2, <1>5 DEF Wants
<1>8. \A s \in Sectors : s \in Expendable' \/ kept[s] = owed'[s]
  <2>1. CASE Complete(Target)
    BY <1>1, <2>1
  <2>2. CASE ~Complete(Target)
    <3>1. \A s \in Sectors : s \in Expendable \/ kept[s] = owed[s]
      BY <1>2, <1>6 DEF InRun, KeepsSafe, Lossless
    <3> QED
      BY <1>1, <1>3, <2>2, <3>1
  <2> QED
    BY <2>1, <2>2
<1>9. TypeOK'
  <2>1. waiting' \in BOOLEAN
    BY <1>1, Zenon
  <2>2. step' \in 0 .. Len(Script') /\ (step' # 0 => runs' # 0)
    BY <1>1, <1>4 DEF Inv, TypeOK
  <2>3. /\ flash' \in [Sectors -> Contents]
        /\ before' \in [Sectors -> Contents]
        /\ runs' \in 0 .. MaxRuns /\ out' \in Dirs /\ backup' \in Files
        /\ work' \in Seq(TaskSet)
    BY <1>1 DEF Inv, TypeOK
  <2>4. owed' \in [Sectors -> Contents]
    <3>1. kept \in [Sectors -> Contents]
      BY <1>2 DEF Sectors
    <3> QED
      BY <1>1, <3>1 DEF Inv, TypeOK
  <2> QED
    BY <1>3, <2>1, <2>2, <2>3, <2>4 DEF TypeOK
<1>10. UserDataKept'
  <2>1. UserDataKept'
        <=> \A s \in Sectors : s \in Expendable' \/ flash'[s] = owed'[s]
    BY DEF UserDataKept, Expendable, Kept
  <2> QED
    BY <1>1, <1>2, <1>8, <2>1
<1>11. WorkSafe'
  BY <1>1, <1>2 DEF WorkSafe
<1>12. Passed'
  BY <1>1 DEF Inv, Passed
<1>13. Knows'
  BY <1>1, <1>2, <1>5, <1>6 DEF InRun, Knows
<1>14. KeepsSafe'
  BY <1>1, <1>2, <1>5, <1>6, <1>7, <1>8 DEF InRun, KeepsSafe, Lossless
<1>15. Loaded'
  BY <1>2, <1>5 DEF Loaded
<1>16. Saving'
  <2>1. 1 # Size
    BY SizeAssumption
  <2>2. ~Complete(Target)'
    BY <1>3, <1>5, <2>1 DEF Complete
  <2> QED
    BY <1>5, <2>2 DEF Saving
<1>17. Restoring'
  BY <1>1, <1>5, <1>6, <1>7 DEF InRun, Restoring
<1>18. RateKnown'
  BY <1>1, <1>5, <1>6 DEF InRun, RateKnown
<1> QED
  BY <1>9, <1>10, <1>11, <1>12, <1>13, <1>14, <1>15, <1>16, <1>17, <1>18
  DEF Inv, InRun

(* Then it is, and everything is expendable.                               *)
LEMMA SavedSafe ==
  ASSUME Inv, Saved
  PROVE  Inv'
<1>1. /\ step # 0 /\ Op.do = "save" /\ waiting /\ work' = work
      /\ flash' = flash /\ stubRate' = stubRate /\ rate' = rate
      /\ owed' = owed /\ before' = before /\ run' = run
      /\ runs' = runs /\ options' = options /\ out' = out /\ backup' = backup
      /\ ProceedKeeping(kept)
      /\ files' = [files EXCEPT ![Target] = SubSeq(kept, 1, Size)]
  BY DEF Saved, Returns, At, Running, Op, board, run, Proceed
<1>2. /\ Here.keeps = Sectors /\ ~Here.loaded /\ Target \in Files
      /\ kept \in Seq(Contents) /\ Len(kept) = Size
      /\ work = <<>> /\ Here.answered
      /\ \A s \in Sectors : kept[s] = Wants[s] /\ flash[s] = kept[s]
  BY <1>1, BeforeSave
<1>3. /\ InRun /\ Follows(Here, Op, After)
  BY <1>1, AtCall DEF Inv, After
<1>4. /\ files' \in [Files -> Seq(Contents)]
      /\ files'[Target] = kept /\ Len(files'[Target]) = Size
      /\ Expendable \subseteq Expendable'
  <2>1. ~Complete(Target)
    BY <1>1, <1>3 DEF InRun, Saving
  <2> QED
    BY <1>1, <2>1, SaveFile
<1>5. Expendable' = Sectors
  <2>1. ASSUME NEW s \in Sectors PROVE s \in Expendable'
    <3>1. s \in Expendable \/ kept[s] = owed[s]
      BY <1>2, <1>3 DEF InRun, KeepsSafe, Lossless
    <3>2. CASE s \in Expendable
      BY <1>4, <3>2
    <3>3. CASE kept[s] = owed[s]
      <4>1. Len(files'[Target]) = Size /\ files'[Target][s] = owed'[s]
        BY <1>1, <1>4, <3>3
      <4> QED
        BY <1>2, <4>1 DEF Expendable, Kept, Complete
    <3> QED
      BY <3>1, <3>2, <3>3
  <2> QED
    BY <2>1 DEF Expendable
<1>6. Len(Script) \in Nat /\ step \in 1 .. Len(Script) /\ After \in Notes
  BY <1>1, AtCall DEF Inv, After
<1>7. Script' = Script
  BY <1>1, SameScript
<1>8. TypeOK'
  <2>1. step' \in 0 .. Len(Script')
    BY <1>1, <1>6, <1>7 DEF ProceedKeeping
  <2>2. waiting' \in BOOLEAN /\ (step' # 0 => runs' # 0)
    <3>1. waiting' = FALSE /\ runs # 0
      BY <1>1 DEF ProceedKeeping, Inv, TypeOK
    <3> QED
      BY <1>1, <3>1, Zenon
  <2>3. /\ flash' \in [Sectors -> Contents]
        /\ owed' \in [Sectors -> Contents]
        /\ before' \in [Sectors -> Contents]
        /\ runs' \in 0 .. MaxRuns /\ out' \in Dirs /\ backup' \in Files
        /\ work' \in Seq(TaskSet)
    BY <1>1 DEF Inv, TypeOK
  <2> QED
    BY <1>4, <2>1, <2>2, <2>3 DEF TypeOK
<1>9. UserDataKept'
  BY <1>5 DEF UserDataKept, Expendable, Kept
<1>10. ~After.loaded
  BY <1>1, <1>2, <1>3 DEF Follows
<1>11. FilesAttained
  BY <1>5, <1>6, <1>10 DEF FilesAttained, Notes
<1>12. WantsAfter = Wants
  BY <1>1, <1>2, <1>10 DEF WantsAfter, Wants
<1>13. KeepsAttained(kept)
  <2>1. After.keeps \subseteq Sectors
    BY <1>6 DEF Notes
  <2>2. \A s \in Sectors : kept[s] \in Contents
    BY <1>2 DEF Sectors
  <2> QED
    BY <1>2, <1>5, <1>12, <2>1, <2>2 DEF KeepsAttained
<1>14. FlashAttained
  BY <1>1, <1>2, <1>12 DEF FlashAttained
<1>15. RateAttained
  BY <1>1, RateCarry
<1>16. work' = <<>>
  BY <1>1, <1>2
<1>17. WorkSafe' /\ Passed' /\ (step # 0 => InRun)'
  BY <1>1, <1>8, <1>11, <1>13, <1>14, <1>15, <1>16, Onward DEF Inv, Attains
<1> QED
  BY <1>8, <1>9, <1>17 DEF Inv

(* A complete backup is what the flash is to hold from now on.             *)
LEMMA LoadSafe ==
  ASSUME Inv, LoadBackup
  PROVE  Inv'
<1>1. /\ step # 0 /\ Op.do = "load" /\ work' = work
      /\ flash' = flash /\ stubRate' = stubRate /\ rate' = rate
      /\ owed' = files[backup] /\ before' = before /\ run' = run
      /\ files' = files /\ Len(files[backup]) = Size
      /\ ProceedKeeping(files[backup])
  BY DEF LoadBackup, At, Running, Op, board, Complete
<1>2. work' = <<>>
  BY <1>1, Idle DEF Modifies
<1>3. FlashMayChange
  BY <1>1 DEF FlashMayChange
<1>4. /\ files[backup] \in Seq(Contents) /\ backup \in Files
      /\ before' \in [Sectors -> Contents]
  BY <1>1 DEF Inv, TypeOK
<1>5. owed' \in [Sectors -> Contents]
  BY <1>1, <1>4 DEF Sectors
<1>6. Follows(Here, Op, After) /\ After \in Notes
  BY <1>1, AtCall DEF Inv, After
<1>7. Here.restores /\ (After.loaded <=> TRUE) /\ Sectors \subseteq After.dirty
  BY <1>1, <1>6 DEF Follows, Permits, Dirty, Modifies
<1>8. Expendable' = Sectors
  BY <1>1, <1>4 DEF Expendable, Kept, Complete
<1>9. FilesAttained
  <2>1. After.granted \subseteq Expendable'
    BY <1>6, <1>8 DEF Notes
  <2>2. "restore" \in options
    BY <1>1, <1>7 DEF Inv, InRun, Knows
  <2> QED
    BY <1>1, <2>1, <2>2 DEF FilesAttained
<1>10. KeepsAttained(files[backup])
  <2>1. \A s \in Sectors : files[backup][s] \in Contents
    BY <1>1, <1>4 DEF Sectors
  <2>2. After.keeps \subseteq Sectors
    BY <1>6 DEF Notes
  <2>3. WantsAfter = files[backup]
    BY <1>1, <1>7 DEF WantsAfter
  <2> QED
    BY <1>1, <1>4, <1>8, <2>1, <2>2, <2>3 DEF KeepsAttained
<1>11. FlashAttained
  BY <1>7 DEF FlashAttained
<1>12. RateAttained
  BY <1>1, RateCarry
<1> QED
  BY <1>1, <1>2, <1>3, <1>4, <1>5, <1>8, <1>9, <1>10, <1>11, <1>12, Returning
  DEF Attains

-----------------------------------------------------------------------------
(* The other steps, and all of them.                                       *)

(* Exceptions, at the probe alone or with what the chip does. *)
LEMMA RaiseSafe ==
  ASSUME Inv, ReadDiffers \/ BackupTooShort \/ Unanswered \/ Interrupted
  PROVE  Inv'
<1>1. /\ Raise /\ flash' = flash /\ work' = work
      /\ files' = files /\ owed' = owed /\ before' = before
      /\ run' = run
  BY DEF ReadDiffers, BackupTooShort, Unanswered, Interrupted, board
<1>2. FlashMayChange /\ WorkMayShrink
  BY <1>1 DEF FlashMayChange, WorkMayShrink
<1> QED
  BY <1>1, <1>2, Raising

(* The stub at work, or stopped. *)
LEMMA StubSafe ==
  ASSUME Inv, StubSteps \/ ChipFails \/ PowerLost
  PROVE  Inv'
<1>1. /\ stubRate' = stubRate /\ files' = files /\ owed' = owed
      /\ before' = before /\ run' = run
  BY DEF StubSteps, StubWorks, StubGivesUp, ChipFails, PowerLost
<1>2. probe' = probe \/ Raise
  BY DEF StubSteps, StubWorks, StubGivesUp, ChipFails, PowerLost
<1>3. FlashMayChange /\ WorkMayShrink
  <2>1. CASE StubWorks
    <3>1. /\ work # <<>> /\ work' = Tail(work)
          /\ flash' = [flash EXCEPT ![Head(work).sector] = Head(work).holds]
      BY <2>1 DEF StubWorks
    <3>2. Head(work).holds \in Contents
      <4>1. work \in Seq(TaskSet)
        BY DEF Inv, TypeOK
      <4>2. Head(work) \in TaskSet
        BY <3>1, <4>1
      <4> QED
        BY <4>2 DEF TaskSet
    <3> QED
      BY <3>1, <3>2 DEF FlashMayChange, WorkMayShrink
  <2>2. CASE StubGivesUp \/ ChipFails \/ PowerLost
    <3>1. flash' \in Broken /\ work' = <<>>
      BY <2>2 DEF StubGivesUp, ChipFails, PowerLost
    <3>2. "torn" \in Contents
      BY DEF Contents
    <3> QED
      BY <3>1, <3>2 DEF Broken, FlashMayChange, WorkMayShrink
  <2> QED
    BY <2>1, <2>2 DEF StubSteps
<1> QED
  BY <1>1, <1>2, <1>3, BoardSteps, Raising

(* What NotesExist says, for the next run too. *)
NotesGood ==
  /\ Script \in Seq(CallSet) /\ Annotates(ScriptNotes, Script)
  /\ ScriptNotes[0] = Start /\ ScriptNotes[Len(Script)].dirty = {}

(* The notes are good in every state. *)
LEMMA AlwaysGood == NotesGood
BY NotesExist DEF NotesGood

(* At the start of a run nothing is known.                                 *)
LEMMA StartSafe ==
  ASSUME Inv, StartRun
  PROVE  Inv'
<1>1. /\ step = 0 /\ runs < MaxRuns /\ runs' = runs + 1
      /\ step' = 1 /\ waiting' = FALSE /\ verdict' = "running"
      /\ flash' = flash /\ work' = work /\ owed' = owed
      /\ before' = before /\ files' = files
  BY DEF StartRun
<1>2. out' \in Dirs /\ backup' \in Files
  <2>1. NoBackup \in Files
    BY DirAssumption DEF NoBackup, Files, Cycles
  <2> QED
    BY <2>1, DirAssumption DEF StartRun
<1>3. runs \in 0 .. MaxRuns /\ MaxRuns \in Nat
  BY SessionBounds DEF Inv, TypeOK
<1>4. /\ Script' \in Seq(CallSet) /\ Annotates(ScriptNotes', Script')
      /\ ScriptNotes'[0] = Start' /\ ScriptNotes'[Len(Script')].dirty = {}
  <2>1. NotesGood'
    BY AlwaysGood, PTL
  <2> QED
    BY <2>1 DEF NotesGood
<1>5. Expendable' = Expendable
  BY <1>1, SameFiles
<1>6. Len(Script') # 0
  <2>1. Start'.dirty = Sectors /\ Sectors # {}
    BY SizeAssumption DEF Start, Sectors
  <2> QED
    BY <1>4, <2>1
<1>7. Here' = Start'
  <2>1. step' - 1 = 0
    BY <1>1
  <2> QED
    BY <1>4, <2>1 DEF Here
<1>8. /\ Start'.answered = FALSE /\ Start'.loaded = FALSE
      /\ Start'.restores = ("restore" \in options')
      /\ Start'.granted = {} /\ Start'.keeps = {} /\ Start'.rate = Unknown
  BY DEF Start
<1>9. TypeOK'
  <2>1. waiting' \in BOOLEAN
    BY <1>1, Zenon
  <2>2. step' \in 0 .. Len(Script')
    BY <1>1, <1>4, <1>6
  <2>3. runs' \in 0 .. MaxRuns /\ (step' # 0 => runs' # 0)
    BY <1>1, <1>3
  <2>4. /\ flash' \in [Sectors -> Contents]
        /\ owed' \in [Sectors -> Contents]
        /\ before' \in [Sectors -> Contents]
        /\ files' \in [Files -> Seq(Contents)]
        /\ work' \in Seq(TaskSet)
    BY <1>1 DEF Inv, TypeOK
  <2> QED
    BY <1>2, <2>1, <2>2, <2>3, <2>4 DEF TypeOK
<1>10. UserDataKept'
  BY <1>1 DEF Inv, UserDataKept, Complete
<1>11. WorkSafe'
  BY <1>1, <1>5, <1>7, <1>8 DEF Inv, WorkSafe
<1>12. Passed'
  BY <1>1 DEF Passed
<1>13. Knows'
  <2>1. (step' # 1) = FALSE
    BY <1>1
  <2> QED
    BY <1>7, <1>8, <2>1 DEF Knows
<1>14. KeepsSafe'
  <2>1. Sectors # {}
    BY SizeAssumption DEF Sectors
  <2> QED
    BY <1>7, <1>8, <2>1 DEF KeepsSafe, Lossless
<1>15. Loaded'
  BY <1>7, <1>8 DEF Loaded
<1>16. Saving'
  BY <1>1 DEF Saving
<1>17. Restoring'
  BY <1>7, <1>8 DEF Restoring
<1>18. RateKnown'
  BY <1>1, <1>7, <1>8 DEF RateKnown
<1> QED
  BY <1>9, <1>10, <1>11, <1>12, <1>13, <1>14, <1>15, <1>16, <1>17, <1>18
  DEF Inv, InRun

(* Before the first run everything is as it was.                           *)
LEMMA SessionInit == Init => Inv
<1> SUFFICES ASSUME Init PROVE Inv
  OBVIOUS
<1>1. flash \in [Sectors -> Contents] /\ owed = flash /\ before = flash
  BY DEF Init, Contents
<1>2. /\ files = [f \in Files |-> <<>>] /\ work = <<>> /\ runs = 0
      /\ out = DefaultDir /\ backup = NoBackup /\ step = 0 /\ verdict = "none"
  BY DEF Init
<1>3. waiting \in BOOLEAN
  BY DEF Init
<1>4. backup \in Files /\ out \in Dirs /\ runs \in 0 .. MaxRuns
  BY <1>2, SessionBounds, DirAssumption DEF Files, Cycles, NoBackup
<1>5. files \in [Files -> Seq(Contents)] /\ work \in Seq(TaskSet)
  BY <1>2
<1>6. Len(Script) \in Nat
  BY NotesExist
<1>7. TypeOK
  BY <1>1, <1>2, <1>3, <1>4, <1>5, <1>6 DEF TypeOK
<1>8. UserDataKept
  BY <1>1 DEF UserDataKept
<1>9. WorkSafe /\ Passed
  BY <1>2 DEF WorkSafe, Passed
<1> QED
  BY <1>2, <1>7, <1>8, <1>9 DEF Inv

(* And every step keeps it so.                                             *)
LEMMA SessionStep == Inv /\ [Next]_vars => Inv'
<1> SUFFICES ASSUME Inv, [Next]_vars PROVE Inv'
  OBVIOUS
<1>1. CASE StartRun
  BY <1>1, StartSafe
<1>2. CASE ProbeSteps
  BY <1>2, AnsweredSafe, FollowRateSafe, ReadSafe, TaskReturns, SendSafe,
     StartSaveSafe, SavedSafe, LoadSafe, RaiseSafe DEF ProbeSteps
<1>3. CASE StubSteps
  BY <1>3, StubSafe
<1>4. CASE Interruption
  BY <1>4, RaiseSafe, StubSafe, TaskReturns DEF Interruption
<1>5. CASE UNCHANGED vars
  <2>1. /\ probe' = probe /\ flash' = flash /\ work' = work
        /\ stubRate' = stubRate /\ files' = files /\ owed' = owed
        /\ before' = before /\ run' = run
    BY <1>5 DEF vars, board
  <2>2. FlashMayChange /\ WorkMayShrink
    BY <2>1 DEF FlashMayChange, WorkMayShrink
  <2> QED
    BY <2>1, <2>2, BoardSteps
<1> QED
  BY <1>1, <1>2, <1>3, <1>4, <1>5 DEF Next

(* A sector that does not hold what is owed to the user was erased at      *)
(* first, or has it in a complete backup: whatever the options of the runs *)
(* and their --out, wherever they are interrupted.  What is owed is what   *)
(* the flash held at first as long as no run overwrites a complete backup  *)
(* or restores one; a cycle repeated with the --out of an interrupted one  *)
(* overwrites its backup, and from then on only what it found is owed.     *)
THEOREM DataSafety == Spec => []UserDataKept
<1>1. Inv => UserDataKept
  BY DEF Inv
<1> QED
  BY SessionInit, SessionStep, <1>1, PTL DEF Spec

(* A run that passes leaves the flash as its first answer found it, or as  *)
(* the backup has it, and both sides at the usual rate.                    *)
THEOREM Restoration == Spec => []PassedMeansRestored
<1>1. Inv => PassedMeansRestored
  BY DEF Inv, Passed, PassedMeansRestored
<1> QED
  BY SessionInit, SessionStep, <1>1, PTL DEF Spec

=============================================================================
