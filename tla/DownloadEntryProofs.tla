------------------------ MODULE DownloadEntryProofs ------------------------
(***************************************************************************)
(* As long as nothing goes wrong on the line, the probe uploads the stub   *)
(* to nobody but the mask ROM: proved for every start of the board, any    *)
(* number of prompts waiting and every set of options.                     *)
(***************************************************************************)
EXTENDS DownloadEntry, SequenceLemmas

Bytes == {"C", "R", ":", "8", "W", "id"}
Commands == {"version", "flash id", "reset", "AT+Z", "ESC"}
Places == {"check", "version", "ack", "esc", "synced", "flash id",
           "rom version", "upload", "post", "ready", "failed"}

Has(s, b) == \E i \in 1 .. Len(s) : s[i] = b

Typed ==
  /\ mode \in AllModes /\ raced \in BOOLEAN
  /\ rx \in Seq(Commands) /\ tx \in Seq(Bytes) /\ got \in Seq(Bytes)
  /\ pc \in Places /\ count \in Nat /\ faults \in Nat

(* A downloader that has named itself is that downloader, and has read the *)
(* question: its answer ends in the byte that names it.                    *)
Named ==
  pc = "version" =>
    /\ rx \in {<<>>, <<"version">>}
    /\ Has(tx, "8") \/ Has(got, "8") => mode = "rom"
    /\ Has(tx, "W") \/ Has(got, "W") => mode = "secondary" /\ rx = <<>>

(* How many prompts the board may still send in front of its reset. *)
Surplus == IF raced THEN 0 ELSE 1

(* Before the ROM prompts, too few bytes come to be taken for its prompts. *)
TooFew ==
  /\ pc = "ack" =>
       \/ /\ mode = "secondary" /\ rx = <<"reset">>
          /\ Len(tx) + Len(got) + Surplus <= 2
       \/ mode = "boot" /\ rx = <<>> /\ Len(tx) + Len(got) <= 3
  /\ pc = "esc" =>
       \/ mode = "rom"
       \/ /\ mode = "secondary" /\ rx = <<"reset">>
          /\ count + Len(tx) + Surplus <= 1
       \/ mode \in {"boot", "app", "silent stub"} /\ count + Len(tx) <= 3

Entered ==
  /\ pc = "check" => rx = <<>> /\ ~Has(tx, "8") /\ ~Has(tx, "W")
  /\ pc \in {"synced", "flash id", "rom version", "upload"} => mode = "rom"
  /\ pc \in {"post", "ready"} => mode = "stub"

Inv == Typed /\ (faults = 0 => Named /\ TooFew /\ Entered)

-----------------------------------------------------------------------------
(* What the steps do to the two lines. *)

(* Of the input, reset_buffers leaves one byte at most. *)
LEMMA Leftover ==
  ASSUME NEW s \in Seq(Bytes), NEW t \in ResetBuffers(s)
  PROVE  /\ t \in Seq(Bytes) /\ Len(t) <= 1 /\ Len(t) <= Len(s)
         /\ \A b : Has(t, b) => Has(s, b)
<1>1. CASE t = <<>>
  BY <1>1 DEF Has
<1>2. CASE s # <<>> /\ t = Suffix(s, 1)
  <2>1. t = SubSeq(s, Len(s), Len(s)) /\ Len(s) \in Nat \ {0}
    BY <1>2 DEF Suffix
  <2>2. t \in Seq(Bytes) /\ Len(t) = 1 /\ t[1] = s[Len(s)]
    BY <2>1
  <2> QED
    BY <2>1, <2>2 DEF Has
<1> QED
  BY <1>1, <1>2 DEF ResetBuffers

(* What the board says is added to what it said before. *)
LEMMA Added ==
  ASSUME NEW s \in Seq(Bytes), NEW t \in Seq(Bytes)
  PROVE  /\ s \o t \in Seq(Bytes) /\ Len(s \o t) = Len(s) + Len(t)
         /\ \A b : Has(s \o t, b) => Has(s, b) \/ Has(t, b)
<1>1. /\ s \o t \in Seq(Bytes) /\ Len(s \o t) = Len(s) + Len(t)
      /\ \A i \in 1 .. Len(s) : (s \o t)[i] = s[i]
      /\ \A i \in 1 .. Len(t) : (s \o t)[Len(s) + i] = t[i]
  BY Concatenation
<1>2. ASSUME NEW b, NEW i \in 1 .. Len(s) + Len(t), (s \o t)[i] = b
      PROVE  Has(s, b) \/ Has(t, b)
  <2>1. CASE i <= Len(s)
    <3>1. s[i] = b /\ i \in 1 .. Len(s)
      BY <1>1, <1>2, <2>1
    <3> QED
      BY <3>1 DEF Has
  <2>2. CASE i > Len(s)
    <3>1. i - Len(s) \in 1 .. Len(t) /\ Len(s) + (i - Len(s)) = i
      BY <2>2
    <3>2. t[i - Len(s)] = b
      BY <1>1, <1>2, <3>1
    <3> QED
      BY <3>1, <3>2 DEF Has
  <2> QED
    BY <2>1, <2>2
<1> QED
  BY <1>1, <1>2 DEF Has

(* What is sent one by one. *)
LEMMA OneAdded ==
  ASSUME NEW s \in Seq(Bytes), NEW x \in Bytes
  PROVE  /\ Append(s, x) \in Seq(Bytes) /\ Len(Append(s, x)) = Len(s) + 1
         /\ \A b : Has(Append(s, x), b) => Has(s, b) \/ b = x
BY DEF Has

(* A byte that is read was on the line, and the others still are. *)
LEMMA OneRead ==
  ASSUME NEW s \in Seq(Bytes), s # <<>>
  PROVE  /\ Tail(s) \in Seq(Bytes) /\ Head(s) \in Bytes
         /\ Len(s) \in Nat \ {0} /\ Len(Tail(s)) = Len(s) - 1
         /\ Has(s, Head(s))
         /\ \A b : Has(Tail(s), b) => Has(s, b)
<1>1. /\ Tail(s) \in Seq(Bytes) /\ Head(s) \in Bytes /\ Head(s) = s[1]
      /\ Len(s) \in Nat \ {0} /\ Len(Tail(s)) = Len(s) - 1
      /\ \A i \in 1 .. Len(Tail(s)) : Tail(s)[i] = s[i + 1]
  BY Shortened
<1>2. Has(s, Head(s))
  BY <1>1 DEF Has
<1>3. ASSUME NEW b, NEW i \in 1 .. Len(Tail(s)), Tail(s)[i] = b
      PROVE  Has(s, b)
  BY <1>1, <1>3, i + 1 \in 1 .. Len(s) DEF Has
<1> QED
  BY <1>1, <1>2, <1>3 DEF Has

(* The replies. *)
LEMMA Replies ==
  /\ \A m : Version(m) \in Seq(Bytes)
  /\ \A m : Has(Version(m), "8") => m = "rom"
  /\ \A m \in Downloaders : Has(Version(m), "W") => m = "secondary"
  /\ Has(Version("rom"), "8") /\ Has(Version("secondary"), "W")
  /\ FlashId \in Seq(Bytes) /\ Len(FlashId) = 2
<1>1. ASSUME NEW m PROVE /\ Version(m) \in Seq(Bytes) /\ Len(Version(m)) = 3
                         /\ Version(m)[1] = "R" /\ Version(m)[2] = ":"
                         /\ Version(m)[3] = IF m = "rom" THEN "8" ELSE "W"
  <2>1. "R" \in Bytes /\ ":" \in Bytes /\ "8" \in Bytes /\ "W" \in Bytes
    BY DEF Bytes
  <2>2. CASE m = "rom"
    <3>1. Version(m) = <<"R", ":", "8">>
      BY <2>2 DEF Version
    <3>2. <<"R", ":", "8">> \in Seq(Bytes)
      BY <2>1
    <3> QED
      BY <2>2, <3>1, <3>2
  <2>3. CASE m # "rom"
    <3>1. Version(m) = <<"R", ":", "W">>
      BY <2>3 DEF Version
    <3>2. <<"R", ":", "W">> \in Seq(Bytes)
      BY <2>1
    <3> QED
      BY <2>3, <3>1, <3>2
  <2> QED
    BY <2>2, <2>3
<1>2. ASSUME NEW m, NEW b, Has(Version(m), b), b \notin {"R", ":"}
      PROVE  b = IF m = "rom" THEN "8" ELSE "W"
  <2>1. PICK i \in 1 .. 3 : Version(m)[i] = b
    BY <1>1, <1>2 DEF Has
  <2>2. i = 3
    BY <1>1, <1>2, <2>1
  <2> QED
    BY <1>1, <2>1, <2>2
<1>3. /\ Has(Version("rom"), "8") /\ Has(Version("secondary"), "W")
  BY <1>1 DEF Has
<1>4. FlashId \in Seq(Bytes) /\ Len(FlashId) = 2
  BY DEF FlashId, Bytes
<1> QED
  BY <1>1, <1>2, <1>3, <1>4 DEF Downloaders
-----------------------------------------------------------------------------
(* Types. *)

(* A step of the probe that sends a command. *)
LEMMA ExecuteTyped ==
  ASSUME Typed, NEW c \in Commands, NEW place \in Places, Execute(c, place)
  PROVE  /\ tx' \in Seq(Bytes) /\ Len(tx') <= 1 /\ Len(tx') <= Len(tx)
         /\ \A b : Has(tx', b) => Has(tx, b)
         /\ rx' = Append(rx, c) /\ rx' \in Seq(Commands)
         /\ raced' = FALSE /\ mode' = mode
         /\ pc' = place /\ count' = 0 /\ got' = <<>>
BY Leftover DEF Typed, Execute, GoTo

(* A board that sends a prompt, an answer or nothing. *)
LEMMA BoardTyped ==
  ASSUME Typed, BoardWork \/ UserWork
  PROVE  /\ rx' \in Seq(Commands) /\ tx' \in Seq(Bytes)
         /\ mode' \in AllModes /\ raced' \in BOOLEAN
         /\ UNCHANGED <<conditions, pc, count, got, faults>>
<1>1. UNCHANGED <<conditions, pc, count, got, faults>>
  BY DEF BoardWork, UserWork, probe
<1>2. rx # <<>> => Tail(rx) \in Seq(Commands)
  BY Shortened DEF Typed
<1>3. rx' \in Seq(Commands) /\ raced' \in BOOLEAN
  <2>1. /\ rx' = rx \/ (rx # <<>> /\ rx' = Tail(rx)) \/ rx' = <<>>
        /\ raced' \in {raced, FALSE, CommandPending}
    BY DEF BoardWork, UserWork, SendPrompt, TellVersion, TellFlashId,
       ResetByCommand, ResetByAtZ, CaughtByEsc, Ignores, WindowCloses,
       PressReset, Command
  <2>2. CommandPending \in BOOLEAN /\ raced \in BOOLEAN
    BY DEF CommandPending, Typed
  <2>3. <<>> \in Seq(Commands) /\ rx \in Seq(Commands)
    BY DEF Typed
  <2>4. raced' \in BOOLEAN
    BY <2>1, <2>2, Zenon
  <2> QED
    BY <1>2, <2>1, <2>3, <2>4, Zenon
<1>4. mode' \in AllModes
  BY DEF Typed, BoardWork, UserWork, SendPrompt, TellVersion, TellFlashId,
     ResetByCommand, ResetByAtZ, CaughtByEsc, Ignores, WindowCloses,
     PressReset, AllModes, Prompting, Downloaders
<1>5. tx' \in Seq(Bytes)
  <2>1. tx' \in {tx, Append(tx, "C"), tx \o Version(mode), tx \o FlashId}
    BY DEF BoardWork, UserWork, SendPrompt, TellVersion, TellFlashId,
       ResetByCommand, ResetByAtZ, CaughtByEsc, Ignores, WindowCloses,
       PressReset
  <2>2. "C" \in Bytes /\ tx \in Seq(Bytes)
    BY DEF Bytes, Typed
  <2>3. Append(tx, "C") \in Seq(Bytes)
    BY <2>2, OneAdded
  <2>4. tx \o Version(mode) \in Seq(Bytes) /\ tx \o FlashId \in Seq(Bytes)
    BY <2>2, Replies, Added
  <2> QED
    BY <2>1, <2>2, <2>3, <2>4
<1> QED
  BY <1>1, <1>3, <1>4, <1>5

(* A fault of the line is counted. *)
LEMMA LineTyped ==
  ASSUME Typed, Line
  PROVE  /\ Typed' /\ faults' # 0
<1>1. /\ rx # <<>> => Tail(rx) \in Seq(Commands)
      /\ tx # <<>> => Tail(tx) \in Seq(Bytes)
  BY Shortened DEF Typed
<1>2. faults' = faults + 1 /\ faults \in Nat
  BY DEF Line, LoseCommand, LoseByte, Fault, Typed
<1>3. UNCHANGED <<mode, raced, pc, count, got>>
  BY DEF Line, board, probe
<1>4. \/ rx # <<>> /\ rx' = Tail(rx) /\ tx' = tx
      \/ tx # <<>> /\ tx' = Tail(tx) /\ rx' = rx
  BY DEF Line, LoseCommand, LoseByte
<1>5. rx' \in Seq(Commands) /\ tx' \in Seq(Bytes)
  <2>1. rx \in Seq(Commands) /\ tx \in Seq(Bytes)
    BY DEF Typed
  <2> QED
    BY <1>1, <1>4, <2>1, Zenon
<1>6. faults' \in Nat /\ faults' # 0
  BY <1>2
<1> QED
  BY <1>3, <1>5, <1>6, Zenon DEF Typed

(* The probe at each point of its code, as long as nothing goes wrong. *)
LEMMA ProbeTyped ==
  ASSUME Typed, ProbeWork
  PROVE  Typed'
<1>1. rx \in Seq(Commands) /\ tx \in Seq(Bytes) /\ got \in Seq(Bytes)
      /\ mode \in AllModes /\ raced \in BOOLEAN /\ count \in Nat
      /\ faults \in Nat /\ pc \in Places
  BY DEF Typed
<1>2. faults' \in Nat
  <2>1. faults' \in {faults, faults + 1, faults + 2}
    BY DEF ProbeWork, NoPrompts, ReplyTimeout, Uploads, UploadFails,
       UploadsInVain, NoStubPrompts
  <2> QED
    BY <1>1, <2>1
<1>3. tx # <<>> => Tail(tx) \in Seq(Bytes) /\ Append(got, Head(tx)) \in Seq(Bytes)
  BY <1>1, OneRead, OneAdded
<1>4. \A t \in ResetBuffers(tx) : t \in Seq(Bytes)
  BY <1>1, Leftover
<1>5. <<>> \in Seq(Bytes) /\ <<>> \in Seq(Commands)
  OBVIOUS
<1>6. CASE CountPrompt \/ ReadByte
  <2>1. mode' = mode /\ raced' = raced /\ rx' = rx /\ pc' = pc
    BY <1>6 DEF CountPrompt, ReadByte, board
  <2>2. tx' \in Seq(Bytes) /\ got' \in Seq(Bytes)
    BY <1>1, <1>3, <1>6 DEF CountPrompt, ReadByte
  <2>3. count' \in Nat
    BY <1>1, <1>6 DEF CountPrompt, ReadByte
  <2> QED
    BY <1>1, <1>2, <2>1, <2>2, <2>3 DEF Typed
<1>7. ASSUME NEW c \in Commands, NEW place \in Places, Execute(c, place)
      PROVE  Typed'
  <2>1. /\ tx' \in Seq(Bytes) /\ rx' \in Seq(Commands)
        /\ raced' = FALSE /\ mode' = mode
        /\ pc' = place /\ count' = 0 /\ got' = <<>>
    BY <1>7, ExecuteTyped
  <2>2. got' \in Seq(Bytes)
    BY <1>5, <2>1, Zenon
  <2>3. count' \in Nat /\ raced' \in BOOLEAN
    BY <2>1
  <2> QED
    BY <1>1, <1>2, <1>7, <2>1, <2>2, <2>3, Zenon DEF Typed
<1>8. CASE AskVersion \/ SecondaryAnswers \/ StartPreflight \/ ContinuePreflight
  <2>1. PICK c \in Commands, place \in Places : Execute(c, place)
    BY <1>8 DEF AskVersion, SecondaryAnswers, StartPreflight,
       ContinuePreflight, Commands, Places
  <2> QED
    BY <1>7, <2>1
<1>9. ASSUME NEW place \in Places, GoTo(place), UNCHANGED board,
             rx' \in Seq(Commands), tx' \in Seq(Bytes)
      PROVE  Typed'
  <2>1. pc' = place /\ count' = 0 /\ got' = <<>> /\ mode' = mode /\ raced' = raced
    BY <1>9 DEF GoTo, board
  <2>2. got' \in Seq(Bytes)
    BY <1>5, <2>1, Zenon
  <2>3. count' \in Nat
    BY <2>1
  <2> QED
    BY <1>1, <1>2, <1>9, <2>1, <2>2, <2>3, Zenon DEF Typed
<1>10. ASSUME Fails PROVE Typed'
  BY <1>1, <1>9, <1>10 DEF Fails, Places
<1>11. CASE EntryTimeout \/ UnknownAnswer \/ UploadFails \/ NoStubPrompts
  BY <1>10, <1>11 DEF EntryTimeout, UnknownAnswer, UploadFails,
     NoStubPrompts
<1>12. CASE CaughtRom \/ RomAnswers \/ StubPrompts \/ EndPreflight
            \/ UploadsInVain
  BY <1>1, <1>4, <1>9, <1>12 DEF CaughtRom, RomAnswers, StubPrompts,
     EndPreflight, UploadsInVain, Places
<1>13. ASSUME NEW c \in {<<>>, <<"AT+Z">>}, EnterByEsc(c)
       PROVE  Typed'
  <2>1. CASE Fails
    BY <1>10, <2>1
  <2>2. CASE GoTo("esc") /\ rx' = rx \o c /\ UNCHANGED <<board, tx>>
    <3>1. c \in Seq(Commands)
      <4>1. "AT+Z" \in Commands
        BY DEF Commands
      <4>2. <<"AT+Z">> \in Seq(Commands)
        BY <4>1
      <4> QED
        BY <1>5, <4>2, Zenon
    <3>2. rx \o c \in Seq(Commands)
      BY <1>1, <3>1, Concatenation
    <3> QED
      BY <1>1, <1>9, <2>2, <3>2 DEF Places
  <2> QED
    BY <1>13, <2>1, <2>2 DEF EnterByEsc
<1>14. CASE NoPrompts \/ ResetAcknowledged
  BY <1>13, <1>14 DEF NoPrompts, ResetAcknowledged
<1>15. CASE ReplyTimeout
  BY <1>1, <1>7, <1>9, <1>10, <1>15 DEF ReplyTimeout, Commands, Places
<1>16. CASE SendEsc
  <2>1. <<"ESC">> \in Seq(Commands)
    BY DEF Commands
  <2> QED
    BY <1>1, <1>2, <1>16, <2>1 DEF SendEsc, probe, Typed
<1>17. CASE Uploads
  BY <1>1, <1>2, <1>4, <1>5, <1>17 DEF Uploads, GoTo, Typed, AllModes, Prompting,
     Places
<1> QED
  BY <1>6, <1>8, <1>11, <1>12, <1>14, <1>15, <1>16, <1>17 DEF ProbeWork

(* No program has started yet. *)
LEMMA InitInv == Init => Inv
<1> SUFFICES ASSUME Init PROVE Inv
  OBVIOUS
<1>1. Typed
  <2>1. mode \in AllModes /\ raced \in BOOLEAN /\ count \in Nat /\ faults \in Nat
    BY EntryBounds DEF Init
  <2>2. <<>> \in Seq(Commands) /\ <<>> \in Seq(Bytes)
    OBVIOUS
  <2>3. rx \in Seq(Commands) /\ tx \in Seq(Bytes) /\ got \in Seq(Bytes)
    BY <2>2, Zenon DEF Init
  <2>4. pc \in Places
    BY DEF Init, Places
  <2> QED
    BY <2>1, <2>3, <2>4 DEF Typed
<1>2. pc = "check" /\ rx = <<>> /\ tx = <<>>
  BY DEF Init
<1>3. ~Has(tx, "8") /\ ~Has(tx, "W")
  BY <1>2 DEF Has
<1> QED
  BY <1>1, <1>2, <1>3 DEF Inv, Named, TooFew, Entered

-----------------------------------------------------------------------------
(* The board: it becomes another one only by what it is sent. *)

(* A command that the board takes is the first one of rx. *)
LEMMA Taken ==
  ASSUME Typed, NEW c \in Commands, Command(c)
  PROVE  /\ rx # <<>> /\ Head(rx) = c /\ rx' = Tail(rx)
         /\ \A d : rx = <<d>> => d = c /\ rx' = <<>>
<1>1. rx # <<>> /\ Head(rx) = c /\ rx' = Tail(rx)
  BY DEF Command
<1>2. ASSUME NEW d, rx = <<d>> PROVE d = c /\ rx' = <<>>
  BY <1>1, <1>2
<1> QED
  BY <1>1, <1>2

(* Of the modes only these give way to others. *)
LEMMA BoardModes ==
  ASSUME Typed, BoardWork \/ UserWork
  PROVE  \/ mode' = mode
         \/ mode = "secondary" /\ Command("reset") /\ mode' = "boot"
         \/ mode = "app" /\ Command("AT+Z") /\ mode' = "boot"
         \/ mode = "boot" /\ Command("ESC") /\ mode' = "rom"
         \/ mode = "boot" /\ pc \notin {"ack", "esc"} /\ rx' = rx /\ mode' = "app"
         \/ mode # "rom" /\ pc = "esc" /\ rx' = <<>> /\ mode' = "boot"
BY DEF BoardWork, UserWork, SendPrompt, TellVersion, TellFlashId,
   ResetByCommand, ResetByAtZ, CaughtByEsc, Ignores, WindowCloses, PressReset

(* What the board says: a prompt, its version, two bytes or nothing; only  *)
(* a prompt may come without a command, and only one in front of one.      *)
LEMMA BoardSays ==
  ASSUME Typed, BoardWork \/ UserWork
  PROVE  \/ /\ mode \in Prompting /\ tx' = Append(tx, "C") /\ rx' = rx
            /\ mode' = mode
            /\ CommandPending => ~raced /\ raced' = TRUE
         \/ /\ mode \in Downloaders /\ Command("version")
            /\ tx' = tx \o Version(mode) /\ mode' = mode
         \/ /\ mode \in Downloaders /\ Command("flash id")
            /\ tx' = tx \o FlashId /\ mode' = mode
         \/ /\ mode = "secondary" /\ Command("reset")
            /\ tx' = Append(tx, "C") /\ mode' = "boot"
         \/ /\ tx' = tx
            /\ \/ \E c \in Commands :
                    /\ Command(c)
                    /\ c \in {"version", "flash id"} => mode \notin Downloaders
                    /\ c = "reset" => mode # "secondary"
               \/ mode = "boot" /\ pc \notin {"ack", "esc"} /\ rx' = rx
               \/ pc = "esc" /\ mode \notin {"boot", "rom"}
                    /\ mode' = "boot" /\ rx' = <<>>
<1>1. CASE SendPrompt
  BY <1>1 DEF SendPrompt
<1>2. CASE TellVersion \/ TellFlashId \/ ResetByCommand
  BY <1>2 DEF TellVersion, TellFlashId, ResetByCommand
<1>3. CASE ResetByAtZ \/ CaughtByEsc \/ Ignores
  BY <1>3 DEF ResetByAtZ, CaughtByEsc, Ignores, Commands
<1>4. CASE WindowCloses \/ PressReset
  BY <1>4 DEF WindowCloses, PressReset
<1> QED
  BY <1>1, <1>2, <1>3, <1>4 DEF BoardWork, UserWork

(* The board keeps to its name. *)
LEMMA BoardNamed ==
  ASSUME Typed, Named, BoardWork \/ UserWork
  PROVE  Named'
<1> SUFFICES ASSUME pc = "version" PROVE Named'
  BY BoardTyped DEF Named
<1>1. /\ rx \in {<<>>, <<"version">>} /\ pc' = pc /\ got' = got
      /\ Has(tx, "8") \/ Has(got, "8") => mode = "rom"
      /\ Has(tx, "W") \/ Has(got, "W") => mode = "secondary" /\ rx = <<>>
      /\ tx \in Seq(Bytes)
  BY BoardTyped DEF Named, Typed
<1>2. ASSUME NEW c \in Commands, Command(c)
      PROVE  c = "version" /\ rx = <<"version">> /\ rx' = <<>>
  <2>1. rx # <<>>
    BY <1>2, Taken
  <2>2. rx = <<"version">>
    BY <1>1, <2>1
  <2> QED
    BY <1>2, <2>2, Taken
<1>3. "version" \in Commands /\ "flash id" \in Commands /\ "reset" \in Commands
      /\ "C" \in Bytes
  BY DEF Commands, Bytes
<1>4. CASE mode \in Downloaders /\ Command("version")
           /\ tx' = tx \o Version(mode) /\ mode' = mode
  <2>1. rx # <<>> /\ rx' = <<>>
    BY <1>2, <1>3, <1>4, Taken
  <2>2. \A b : Has(tx', b) => Has(tx, b) \/ Has(Version(mode), b)
    BY <1>1, <1>4, Added, Replies
  <2>3. ~Has(tx, "W") /\ ~Has(got, "W")
    BY <1>1, <2>1
  <2>4. Has(tx', "8") \/ Has(got', "8") => mode' = "rom"
    BY <1>1, <1>4, <2>2, Replies
  <2>5. Has(tx', "W") \/ Has(got', "W") => mode' = "secondary"
    BY <1>1, <1>4, <2>2, <2>3, Replies
  <2> QED
    BY <2>1, <2>4, <2>5 DEF Named
<1>5. CASE tx' = Append(tx, "C") /\ rx' = rx /\ mode' = mode
  <2>1. \A b : Has(tx', b) => Has(tx, b) \/ b = "C"
    BY <1>1, <1>3, <1>5, OneAdded
  <2>2. Has(tx', "8") \/ Has(got', "8") => mode' = "rom"
    BY <1>1, <1>5, <2>1
  <2>3. Has(tx', "W") \/ Has(got', "W") => mode' = "secondary" /\ rx' = <<>>
    BY <1>1, <1>5, <2>1
  <2> QED
    BY <1>1, <1>5, <2>2, <2>3 DEF Named
<1>6. CASE tx' = tx /\ mode \notin Downloaders
  <2>1. ~Has(tx, "8") /\ ~Has(got, "8") /\ ~Has(tx, "W") /\ ~Has(got, "W")
    BY <1>1, <1>6 DEF Downloaders
  <2>2. rx' \in {<<>>, <<"version">>}
    <3>1. rx' = rx \/ \E c \in Commands : Command(c)
      BY <1>1, BoardSays, <1>6, <1>3 DEF Downloaders
    <3> QED
      BY <1>1, <1>2, <3>1
  <2> QED
    BY <1>1, <1>6, <2>1, <2>2 DEF Named
<1>7. ~Command("flash id") /\ ~Command("reset")
  BY <1>2, <1>3
<1>8. ASSUME NEW c \in Commands, Command(c), tx' = tx,
             c \in {"version", "flash id"} => mode \notin Downloaders
      PROVE  mode \notin Downloaders
  BY <1>2, <1>8
<1> QED
  BY <1>4, <1>5, <1>6, <1>7, <1>8, BoardSays DEF Downloaders

(* A secondary downloader waits for its reset: one prompt at most comes    *)
(* before that, and the boot that follows sends none.                      *)
LEMMA BoardTooFew ==
  ASSUME Typed, TooFew, BoardWork \/ UserWork
  PROVE  TooFew'
<1>1. /\ tx \in Seq(Bytes) /\ Len(tx) \in Nat /\ Len(got) \in Nat
      /\ count \in Nat /\ rx \in Seq(Commands)
      /\ pc' = pc /\ count' = count /\ got' = got
  BY BoardTyped DEF Typed
<1>2. "version" \in Commands /\ "flash id" \in Commands /\ "reset" \in Commands
      /\ "C" \in Bytes /\ "ESC" \in Commands /\ "AT+Z" \in Commands
  BY DEF Commands, Bytes
<1>3. ASSUME tx' = Append(tx, "C") PROVE Len(tx') = Len(tx) + 1
  BY <1>1, <1>2, <1>3, OneAdded
<1>4. Surplus \in {0, 1}
  BY DEF Surplus
<1>5. ASSUME mode = "secondary", rx = <<"reset">>, pc \in {"ack", "esc"}
      PROVE  \/ /\ tx' = Append(tx, "C") /\ rx' = rx /\ mode' = mode
                /\ Surplus = 1 /\ Surplus' = 0
             \/ /\ tx' = Append(tx, "C") /\ mode' = "boot" /\ rx' = <<>>
             \/ /\ tx' = tx /\ pc = "esc" /\ mode' = "boot" /\ rx' = <<>>
  <2>1. ASSUME NEW c \in Commands, Command(c) PROVE c = "reset" /\ rx' = <<>>
    BY <1>5, <2>1, Taken
  <2>2. CommandPending
    <3>1. 1 \in DOMAIN rx /\ rx[1] = "reset"
      BY <1>5
    <3> QED
      BY <3>1 DEF CommandPending
  <2>3. ~Command("version") /\ ~Command("flash id")
    BY <1>2, <2>1
  <2>4. ASSUME NEW c \in Commands, Command(c), c = "reset" => mode # "secondary"
        PROVE  FALSE
    BY <1>5, <2>1, <2>4
  <2>5. mode # "boot"
    BY <1>5
  <2>6. \/ /\ tx' = Append(tx, "C") /\ rx' = rx /\ mode' = mode
           /\ ~raced /\ raced' = TRUE
        \/ tx' = Append(tx, "C") /\ mode' = "boot" /\ Command("reset")
        \/ tx' = tx /\ pc = "esc" /\ mode' = "boot" /\ rx' = <<>>
    BY <2>2, <2>3, <2>4, <2>5, BoardSays, Zenon
  <2> QED
    BY <1>2, <2>1, <2>6 DEF Surplus
<1>6. ASSUME pc = "ack" PROVE TooFew'
  <2>1. CASE /\ mode = "secondary" /\ rx = <<"reset">>
             /\ Len(tx) + Len(got) + Surplus <= 2
    BY <1>1, <1>3, <1>4, <1>5, <1>6, <2>1 DEF TooFew
  <2>2. CASE mode = "boot" /\ rx = <<>> /\ Len(tx) + Len(got) <= 3
    <3>1. ASSUME NEW c, Command(c) PROVE FALSE
      BY <2>2, <3>1 DEF Command
    <3>2. FALSE
      BY <1>6, <2>2, <3>1, BoardSays DEF Prompting, Downloaders
    <3> QED
      BY <3>2
  <2> QED
    BY <1>6, <2>1, <2>2 DEF TooFew
<1>7. ASSUME pc = "esc" PROVE TooFew'
  <2>1. CASE mode = "rom"
    <3>1. mode' = "rom"
      BY <1>7, <2>1, BoardModes
    <3> QED
      BY <1>1, <1>7, <3>1 DEF TooFew
  <2>2. CASE /\ mode = "secondary" /\ rx = <<"reset">>
             /\ count + Len(tx) + Surplus <= 1
    <3>1. CASE /\ tx' = Append(tx, "C") /\ rx' = rx /\ mode' = mode
               /\ Surplus = 1 /\ Surplus' = 0
      <4>1. count' + Len(tx') + Surplus' <= 1
        BY <1>1, <1>3, <2>2, <3>1
      <4> QED
        BY <1>1, <1>7, <2>2, <3>1, <4>1, Zenon DEF TooFew
    <3>2. CASE /\ tx' = Append(tx, "C") \/ tx' = tx
               /\ mode' = "boot" /\ rx' = <<>>
      <4>1. count' + Len(tx') <= 3
        BY <1>1, <1>3, <1>4, <2>2, <3>2
      <4> QED
        BY <1>1, <1>7, <3>2, <4>1 DEF TooFew
    <3> QED
      BY <1>5, <1>7, <2>2, <3>1, <3>2, Zenon
  <2>3. CASE mode \in {"boot", "app", "silent stub"} /\ count + Len(tx) <= 3
    <3>1. tx' = tx
      BY <2>3, BoardSays DEF Prompting, Downloaders
    <3>2. mode' \in {"boot", "app", "silent stub", "rom"}
      BY <2>3, BoardModes
    <3> QED
      BY <1>1, <1>7, <2>3, <3>1, <3>2 DEF TooFew
  <2> QED
    BY <1>7, <2>1, <2>2, <2>3 DEF TooFew
<1> QED
  BY <1>1, <1>6, <1>7 DEF TooFew

(* Nobody answers before a question, and what runs goes on running. *)
LEMMA BoardEntered ==
  ASSUME Typed, Entered, BoardWork \/ UserWork
  PROVE  Entered'
<1>1. pc' = pc /\ tx \in Seq(Bytes) /\ "C" \in Bytes
  BY BoardTyped DEF Typed, Bytes
<1>2. CASE pc = "check"
  <2>1. rx = <<>> /\ ~Has(tx, "8") /\ ~Has(tx, "W")
    BY <1>2 DEF Entered
  <2>2. ASSUME NEW c, Command(c) PROVE FALSE
    BY <2>1, <2>2 DEF Command
  <2>3. rx' = rx /\ (tx' = tx \/ tx' = Append(tx, "C"))
    BY <1>2, <2>2, BoardSays
  <2>4. \A b : Has(tx', b) => Has(tx, b) \/ b = "C"
    BY <1>1, <2>3, OneAdded
  <2> QED
    BY <1>1, <1>2, <2>1, <2>3, <2>4 DEF Entered
<1>3. CASE pc \in {"synced", "flash id", "rom version", "upload"}
  BY <1>1, <1>3, BoardModes DEF Entered
<1>4. CASE pc \in {"post", "ready"}
  BY <1>1, <1>4, BoardModes DEF Entered
<1> QED
  BY <1>1, <1>2, <1>3, <1>4 DEF Entered

-----------------------------------------------------------------------------
(* The probe. *)

(* Prompts that are counted are no longer on the line. *)
LEMMA Counted ==
  ASSUME Typed, Named, TooFew, Entered, CountPrompt
  PROVE  Named' /\ TooFew' /\ Entered'
<1>1. /\ tx \in Seq(Bytes) /\ tx # <<>> /\ tx' = Tail(tx) /\ count \in Nat
      /\ pc \in Counting /\ count' \in {count + 1, 0}
      /\ pc' = pc /\ rx' = rx /\ mode' = mode /\ raced' = raced /\ got' = got
  BY DEF Typed, CountPrompt, board
<1>2. /\ Len(tx) \in Nat \ {0} /\ Len(tx') = Len(tx) - 1
      /\ \A b : Has(tx', b) => Has(tx, b)
  BY <1>1, OneRead
<1>3. Surplus' = Surplus /\ Surplus \in {0, 1}
  BY <1>1 DEF Surplus
<1>4. count' + Len(tx') <= count + Len(tx)
      /\ count' + Len(tx') + Surplus <= count + Len(tx) + Surplus
  BY <1>1, <1>2, <1>3
<1>5. pc # "version" /\ pc # "ack"
  BY <1>1 DEF Counting
<1>6. Named' /\ Entered'
  BY <1>1, <1>2, <1>5 DEF Named, Entered
<1>7. TooFew'
  <2>1. ASSUME pc = "esc", count + Len(tx) + Surplus <= 1
        PROVE  count' + Len(tx') + Surplus' <= 1
    BY <1>1, <1>2, <1>3, <2>1
  <2>2. ASSUME pc = "esc", count + Len(tx) <= 3
        PROVE  count' + Len(tx') <= 3
    BY <1>1, <1>2, <2>2
  <2> QED
    BY <1>1, <1>5, <2>1, <2>2, Zenon DEF TooFew
<1> QED
  BY <1>6, <1>7

(* A byte that is read is no longer on the line. *)
LEMMA OneByteRead ==
  ASSUME Typed, Named, TooFew, Entered, ReadByte
  PROVE  Named' /\ TooFew' /\ Entered'
<1>1. /\ tx \in Seq(Bytes) /\ got \in Seq(Bytes) /\ tx # <<>>
      /\ tx' = Tail(tx) /\ got' = Append(got, Head(tx))
      /\ pc' = pc /\ rx' = rx /\ mode' = mode /\ raced' = raced /\ count' = count
  BY DEF Typed, ReadByte, board
<1>2. /\ Len(tx) \in Nat \ {0} /\ Len(tx') = Len(tx) - 1
      /\ Has(tx, Head(tx)) /\ Head(tx) \in Bytes
      /\ \A b : Has(tx', b) => Has(tx, b)
  BY <1>1, OneRead
<1>3. /\ Len(got') = Len(got) + 1 /\ Len(got) \in Nat
      /\ \A b : Has(got', b) => Has(got, b) \/ Has(tx, b)
  BY <1>1, <1>2, OneAdded
<1>4. Len(tx') + Len(got') = Len(tx) + Len(got)
  BY <1>2, <1>3
<1>5. pc \in {"version", "rom version", "ack", "flash id"}
  <2>1. ASSUME pc \notin {"version", "rom version", "ack", "flash id"}
        PROVE  Expected = 0
    BY <2>1 DEF Expected
  <2>2. ~(0 > 0)
    OBVIOUS
  <2> QED
    BY <2>1, <2>2, Zenon DEF ReadByte
<1>6. Surplus' = Surplus /\ Surplus \in {0, 1}
  BY <1>1 DEF Surplus
<1>7. Named'
  BY <1>1, <1>2, <1>3 DEF Named
<1>8. Entered'
  BY <1>1, <1>5 DEF Entered
<1>9. TooFew'
  BY <1>1, <1>4, <1>5, <1>6, Zenon DEF TooFew
<1> QED
  BY <1>7, <1>8, <1>9

(* The downloader in the mask ROM goes on running, and no other is at      *)
(* these places.                                                           *)
LEMMA WithRom ==
  ASSUME Entered, pc \in {"synced", "flash id", "rom version"},
         mode' = mode, pc' \in {"flash id", "rom version", "upload"}
  PROVE  Named' /\ TooFew' /\ Entered'
BY DEF Entered, Named, TooFew

(* A failed entry, and a stub that runs. *)
LEMMA Elsewhere ==
  ASSUME \/ pc' = "failed"
         \/ pc' = "ready" /\ pc = "post" /\ mode' = mode /\ Entered
         \/ pc' = "post" /\ mode' = "stub"
         \/ pc' = "synced" /\ mode' = "rom"
  PROVE  Named' /\ TooFew' /\ Entered'
BY DEF Entered, Named, TooFew

(* The ESC loop is entered without a prompt on the line, or after the      *)
(* acknowledgement of the secondary downloader, and with a prompt that was *)
(* taken for it.                                                           *)
LEMMA EscEntered ==
  ASSUME Typed, Named, TooFew, Entered,
         ResetAcknowledged \/ (NoPrompts /\ faults' = faults)
  PROVE  Named' /\ TooFew' /\ Entered'
<1> SUFFICES ASSUME pc' # "failed" PROVE Named' /\ TooFew' /\ Entered'
  BY Elsewhere
<1>1. /\ tx \in Seq(Bytes) /\ rx \in Seq(Commands) /\ faults \in Nat
      /\ mode \in AllModes
  BY DEF Typed
<1>2. pc' = "esc" /\ count' = 0 /\ UNCHANGED <<board, tx>>
  BY DEF NoPrompts, ResetAcknowledged, EnterByEsc, Fails, GoTo
<1>3. mode' = mode /\ raced' = raced /\ tx' = tx /\ count' = 0
  BY <1>2 DEF board
<1>4. Named' /\ Entered'
  BY <1>2 DEF Named, Entered
<1>5. CASE NoPrompts /\ faults' = faults
  <2>1. mode \notin Prompting /\ tx = <<>>
    <3>1. faults' # faults + 1
      BY <1>1, <1>5
    <3> QED
      BY <1>5, <3>1, Zenon DEF NoPrompts
  <2>2. mode' \in {"boot", "app", "silent stub"} /\ count' + Len(tx') <= 3
    <3>1. mode \in {"boot", "app", "silent stub"}
      BY <1>1, <2>1 DEF AllModes, Prompting, Downloaders
    <3>2. Len(tx) = 0
      BY <2>1
    <3>3. Len(tx') = 0
      BY <1>3, <3>2
    <3>4. count' + Len(tx') <= 3
      BY ONLY <1>3, <3>3
    <3> QED
      BY <1>3, <3>1, <3>4, Zenon
  <2>3. TooFew'
    BY <1>2, <2>2, Zenon DEF TooFew
  <2> QED
    BY <1>4, <2>3
<1>6. CASE ResetAcknowledged
  <2>1. pc = "ack" /\ Len(got) = 1
    BY <1>6 DEF ResetAcknowledged, ReadAll, Expected
  <2>2. rx' = rx \o <<>>
    BY <1>6, <1>2 DEF ResetAcknowledged, EnterByEsc, Fails, GoTo
  <2>3. rx' = rx
    BY <1>1, <2>2
  <2>4. Len(tx) \in Nat /\ Surplus \in {0, 1} /\ Surplus' = Surplus
    BY <1>1, <1>3 DEF Surplus
  <2>5. CASE /\ mode = "secondary" /\ rx = <<"reset">>
             /\ Len(tx) + Len(got) + Surplus <= 2
    <3>1. count' + Len(tx') + Surplus' <= 1
      BY <1>2, <1>3, <2>1, <2>4, <2>5
    <3>2. TooFew'
      BY <1>2, <1>3, <2>3, <2>5, <3>1, Zenon DEF TooFew
    <3> QED
      BY <1>4, <3>2
  <2>6. CASE mode = "boot" /\ rx = <<>> /\ Len(tx) + Len(got) <= 3
    <3>1. count' + Len(tx') <= 3
      BY <1>2, <1>3, <2>1, <2>4, <2>6
    <3>2. TooFew'
      BY <1>2, <1>3, <2>6, <3>1 DEF TooFew
    <3> QED
      BY <1>4, <3>2
  <2> QED
    BY <2>1, <2>5, <2>6 DEF TooFew
<1> QED
  BY <1>5, <1>6

(* The probe takes nobody else for the mask ROM. *)
LEMMA ProbeCalm ==
  ASSUME Typed, Named, TooFew, Entered, ProbeWork, faults' = faults
  PROVE  Named' /\ TooFew' /\ Entered'
<1>1. /\ tx \in Seq(Bytes) /\ rx \in Seq(Commands) /\ got \in Seq(Bytes)
      /\ faults \in Nat /\ count \in Nat
  BY DEF Typed
<1>2. faults' # faults + 1 /\ faults' # faults + 2
  BY <1>1
<1>3. CASE CountPrompt \/ ReadByte
  BY <1>3, Counted, OneByteRead
<1>4. CASE AskVersion
  <2>1. pc = "check" /\ Execute("version", "version")
    BY <1>4 DEF AskVersion
  <2>2. "version" \in Commands /\ "version" \in Places
    BY DEF Commands, Places
  <2>3. /\ pc' = "version" /\ got' = <<>> /\ rx' = Append(rx, "version")
        /\ \A b : Has(tx', b) => Has(tx, b)
    BY <2>1, <2>2, ExecuteTyped
  <2>4. rx = <<>> /\ ~Has(tx, "8") /\ ~Has(tx, "W")
    BY <2>1 DEF Entered
  <2>5. rx' = <<"version">>
    BY <2>3, <2>4
  <2>6. ~Has(got', "8") /\ ~Has(got', "W")
    BY <2>3 DEF Has
  <2> QED
    BY <2>3, <2>4, <2>5, <2>6 DEF Named, TooFew, Entered
<1>5. CASE SendEsc
  <2>1. /\ pc = "esc" /\ rx = <<>> /\ rx' = <<"ESC">>
        /\ UNCHANGED <<mode, tx, pc, count, got>>
    BY <1>5 DEF SendEsc, probe
  <2>2. rx # <<"reset">>
    BY <2>1
  <2>3. \/ mode = "rom"
        \/ mode \in {"boot", "app", "silent stub"} /\ count + Len(tx) <= 3
    BY <2>1, <2>2, Zenon DEF TooFew
  <2> QED
    BY <2>1, <2>3 DEF Named, TooFew, Entered
<1>6. CASE CaughtRom
  <2>1. pc = "esc" /\ count = 3 /\ tx # <<>> /\ mode' = mode /\ pc' = "synced"
    BY <1>6 DEF CaughtRom, Synchronised, GoTo, board
  <2>2. Len(tx) \in Nat \ {0}
    BY <1>1, <2>1
  <2>3. ~(count + Len(tx) <= 3) /\ ~(count + Len(tx) + Surplus <= 1)
    BY <2>1, <2>2 DEF Surplus
  <2>4. mode = "rom"
    BY <2>1, <2>3, Zenon DEF TooFew
  <2> QED
    BY <2>1, <2>4, Elsewhere
<1>7. CASE RomAnswers
  <2>1. /\ pc = "version" /\ got = Version("rom") /\ mode' = mode
        /\ pc' = "synced"
    BY <1>7 DEF RomAnswers, GoTo, board
  <2>2. mode = "rom"
    BY <2>1, Replies DEF Named
  <2> QED
    BY <2>1, <2>2, Elsewhere
<1>8. CASE SecondaryAnswers
  <2>1. pc = "version" /\ got = Version("secondary") /\ Execute("reset", "ack")
    BY <1>8 DEF SecondaryAnswers
  <2>2. mode = "secondary" /\ rx = <<>>
    BY <2>1, Replies DEF Named
  <2>3. "reset" \in Commands /\ "ack" \in Places
    BY DEF Commands, Places
  <2>4. /\ pc' = "ack" /\ got' = <<>> /\ rx' = Append(rx, "reset")
        /\ mode' = mode /\ raced' = FALSE
        /\ tx' \in Seq(Bytes) /\ Len(tx') <= 1
    BY <2>1, <2>3, ExecuteTyped
  <2>5. rx' = <<"reset">>
    BY <2>2, <2>4
  <2>6. Len(got') = 0 /\ Surplus' = 1 /\ Len(tx') \in Nat
    BY <2>4 DEF Surplus
  <2>7. Len(tx') + Len(got') + Surplus' <= 2
    BY <2>4, <2>6
  <2> QED
    BY <2>2, <2>4, <2>5, <2>7 DEF Named, TooFew, Entered
<1>9. CASE NoPrompts \/ ResetAcknowledged
  BY <1>9, EscEntered
<1>10. CASE EntryTimeout \/ UnknownAnswer \/ UploadFails \/ NoStubPrompts
  BY <1>10, Elsewhere DEF EntryTimeout, UnknownAnswer, UploadFails,
     NoStubPrompts, Fails, GoTo
<1>11. CASE StartPreflight \/ ContinuePreflight \/ EndPreflight
  BY <1>11, WithRom DEF StartPreflight, ContinuePreflight, EndPreflight,
     Execute, GoTo, board
<1>12. CASE ReplyTimeout
  <2>1. CASE pc = "flash id" /\ Execute("version", "rom version")
    BY <2>1, WithRom DEF Execute, GoTo
  <2>2. CASE pc = "rom version" /\ GoTo("upload") /\ UNCHANGED <<board, rx, tx>>
    BY <2>2, WithRom DEF GoTo, board
  <2>3. CASE Fails
    BY <2>3, Elsewhere DEF Fails, GoTo
  <2> QED
    BY <1>12, <2>1, <2>2, <2>3 DEF ReplyTimeout
<1>13. CASE Uploads \/ StubPrompts
  BY <1>13, Elsewhere DEF Uploads, StubPrompts, GoTo, board
<1>14. ~UploadsInVain
  BY <1>2 DEF UploadsInVain
<1> QED
  BY <1>3, <1>4, <1>5, <1>6, <1>7, <1>8, <1>9, <1>10, <1>11, <1>12, <1>13,
     <1>14, Zenon DEF ProbeWork

-----------------------------------------------------------------------------
(* Every step keeps the invariant; a fault ends what it promises. *)
LEMMA StepInv == Inv /\ [Next]_vars => Inv'
<1> SUFFICES ASSUME Inv, [Next]_vars PROVE Inv'
  OBVIOUS
<1>1. Typed /\ faults \in Nat
  BY DEF Inv, Typed
<1>2. CASE UNCHANGED vars
  <2>1. /\ mode' = mode /\ raced' = raced /\ rx' = rx /\ tx' = tx /\ pc' = pc
        /\ count' = count /\ got' = got /\ faults' = faults
    BY <1>2 DEF vars, board, probe
  <2>2. Typed'
    BY <1>1, <2>1, Zenon DEF Typed
  <2>3. Surplus' = Surplus
    BY <2>1 DEF Surplus
  <2>4. Named /\ TooFew /\ Entered => Named' /\ TooFew' /\ Entered'
    BY <2>1, <2>3, Zenon DEF Named, TooFew, Entered
  <2> QED
    BY <2>1, <2>2, <2>4 DEF Inv
<1>3. CASE BoardWork \/ UserWork
  <2>1. /\ UNCHANGED <<conditions, pc, count, got, faults>>
        /\ rx' \in Seq(Commands) /\ tx' \in Seq(Bytes)
        /\ mode' \in AllModes /\ raced' \in BOOLEAN
    BY <1>1, <1>3, BoardTyped
  <2>2. pc' = pc /\ count' = count /\ got' = got /\ faults' = faults
    BY <2>1
  <2>3. Typed'
    BY <1>1, <2>1, <2>2, Zenon DEF Typed
  <2>4. Named /\ TooFew /\ Entered => Named' /\ TooFew' /\ Entered'
    BY <1>1, <1>3, BoardNamed, BoardTooFew, BoardEntered
  <2> QED
    BY <2>2, <2>3, <2>4 DEF Inv
<1>4. CASE ProbeWork
  <2>1. Typed'
    BY <1>1, <1>4, ProbeTyped
  <2>2. faults' \in {faults, faults + 1, faults + 2}
    BY <1>4 DEF ProbeWork, NoPrompts, ReplyTimeout, Uploads, UploadFails,
       UploadsInVain, NoStubPrompts
  <2>3. faults' = 0 => faults = 0 /\ faults' = faults
    BY <1>1, <2>2
  <2>4. faults' = 0 => Named' /\ TooFew' /\ Entered'
    BY <1>1, <1>4, <2>3, ProbeCalm DEF Inv
  <2> QED
    BY <2>1, <2>4 DEF Inv
<1>5. CASE Line
  BY <1>1, <1>5, LineTyped DEF Inv
<1> QED
  BY <1>2, <1>3, <1>4, <1>5 DEF Next

(* As long as nothing goes wrong on the line, the image goes to the mask   *)
(* ROM and the tests to a running stub: for every start of the board, any  *)
(* number of waiting prompts, prompts that cross commands, and all the     *)
(* options.                                                                *)
THEOREM EntrySafety == Spec => []ImageGoesToRom
<1>1. Inv => ImageGoesToRom
  BY DEF Inv, Entered, ImageGoesToRom
<1> QED
  BY InitInv, StepInv, <1>1, PTL DEF Spec


=============================================================================
