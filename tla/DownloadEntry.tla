--------------------------- MODULE DownloadEntry ---------------------------
(***************************************************************************)
(* How the probe gets its stub to run: Probe.sync_w800_download_mode,      *)
(* rom_preflight, the upload and sync_after_stub_upload of                 *)
(* src/w800_custom_stub_probe.py, as main calls them.                      *)
(*                                                                         *)
(* The other side is the board: its firmware, its boot window, the         *)
(* downloader in its mask ROM, a secondary downloader that the flash may   *)
(* hold instead, or a stub that still runs.  None of their code but the    *)
(* stub's is in the repository; they are what the probe takes them for.    *)
(* rx holds the commands on the way to the board, tx the bytes on the way  *)
(* back.  A command is one element, a reply one element for each byte that *)
(* the probe counts.  Of the upload itself (XmodemSend) only the outcome   *)
(* is left.                                                                *)
(***************************************************************************)
EXTENDS Naturals, Sequences

CONSTANTS
  Modes,        \* what the board may be doing at first
  MaxQueue,     \* prompts waiting for the probe
  MaxFaults,    \* how often something may go wrong
  Conditions    \* the circumstances, see ConditionsAssumption

Downloaders == {"rom", "secondary"}
Prompting == Downloaders \cup {"stub"}
AllModes == Prompting \cup {"silent stub", "app", "boot"}
Kinds == {"lost command", "lost byte", "slow prompts", "slow reply",
          "broken upload", "surplus answers"}

(* kinds: what may go wrong; race: a prompt may be sent while a command is *)
(* on the way or survive reset_buffers; atz: no --no-atz-esc; reset:       *)
(* --reset-esc-only, with a user who resets the board.                     *)
ASSUME ConditionsAssumption ==
  Conditions \subseteq [kinds : SUBSET Kinds, race : BOOLEAN,
                        atz : BOOLEAN, reset : BOOLEAN]
ASSUME EntryBounds ==
  Modes \subseteq AllModes /\ MaxQueue \in Nat \ {0} /\ MaxFaults \in Nat

VARIABLES
  conditions,   \* one of Conditions, fixed from the start
  mode,         \* what the board does
  raced,        \* a prompt has been sent since the last command
  rx, tx,
  pc,           \* where the probe stands
  count,        \* prompts in a row
  got,          \* what read_exact has read so far
  faults

board == <<mode, raced>>
probe == <<pc, count, got>>
vars == <<conditions, board, rx, tx, probe, faults>>

Init ==
  /\ conditions \in Conditions /\ mode \in Modes /\ raced = FALSE
  /\ rx = <<>> /\ tx = <<>>
  /\ pc = "check" /\ count = 0 /\ got = <<>> /\ faults = 0

Version(m) == IF m = "rom" THEN <<"R", ":", "8">> ELSE <<"R", ":", "W">>
FlashId == <<"id", "id">>

-----------------------------------------------------------------------------
(* The board. *)

(* A downloader and the stub prompt until a command comes.  ESC is none.   *)
CommandPending == \E i \in DOMAIN rx : rx[i] # "ESC"

SendPrompt ==
  /\ mode \in Prompting /\ Len(tx) < MaxQueue
  /\ CommandPending => conditions.race /\ ~raced
  /\ tx' = Append(tx, "C") /\ raced' = CommandPending
  /\ UNCHANGED <<mode, rx>>

Command(c) == rx # <<>> /\ Head(rx) = c /\ rx' = Tail(rx) /\ raced' = FALSE

TellVersion ==
  /\ Command("version") /\ mode \in Downloaders
  /\ tx' = tx \o Version(mode)
  /\ UNCHANGED mode

TellFlashId ==
  /\ Command("flash id") /\ mode \in Downloaders
  /\ tx' = tx \o FlashId
  /\ UNCHANGED mode

(* 0x3F makes the secondary downloader acknowledge and reset. *)
ResetByCommand ==
  /\ Command("reset") /\ mode = "secondary"
  /\ tx' = Append(tx, "C") /\ mode' = "boot"

ResetByAtZ ==
  /\ Command("AT+Z") /\ mode = "app"
  /\ mode' = "boot"
  /\ UNCHANGED tx

CaughtByEsc ==
  /\ Command("ESC") /\ mode = "boot"
  /\ mode' = "rom"
  /\ UNCHANGED tx

Ignores ==
  /\ \/ mode \notin Downloaders /\ (Command("version") \/ Command("flash id"))
     \/ mode # "secondary" /\ Command("reset")
     \/ mode # "app" /\ Command("AT+Z")
     \/ mode # "boot" /\ Command("ESC")
  /\ UNCHANGED <<mode, tx>>

(* The window is longer than the time between two bursts of ESC, and than  *)
(* the time between the answer to 0x3F and the first of them.              *)
WindowCloses ==
  /\ mode = "boot" /\ pc \notin {"ack", "esc"} /\ rx = <<>>
  /\ mode' = "app"
  /\ UNCHANGED <<raced, rx, tx>>

PressReset ==
  /\ conditions.reset /\ pc = "esc" /\ mode \notin {"boot", "rom"}
  /\ mode' = "boot" /\ rx' = <<>> /\ raced' = FALSE
  /\ UNCHANGED tx

BoardWork ==
  /\ \/ SendPrompt \/ TellVersion \/ TellFlashId \/ ResetByCommand
     \/ ResetByAtZ \/ CaughtByEsc \/ Ignores \/ WindowCloses
  /\ UNCHANGED <<conditions, probe, faults>>

UserWork == PressReset /\ UNCHANGED <<conditions, probe, faults>>

-----------------------------------------------------------------------------
(* The probe. *)

Suffix(s, n) == SubSeq(s, Len(s) - n + 1, Len(s))

(* reset_buffers discards what has arrived, but not a byte on the wire. *)
ResetBuffers(seq) ==
  {<<>>} \cup (IF conditions.race /\ seq # <<>> THEN {Suffix(seq, 1)} ELSE {})

GoTo(place) == pc' = place /\ count' = 0 /\ got' = <<>>

(* execute_command, and the frame of 0x3F that is written without it: the  *)
(* input is reset, then the command is sent.                               *)
Execute(command, place) ==
  /\ tx' \in ResetBuffers(tx)
  /\ rx' = Append(rx, command) /\ raced' = FALSE
  /\ GoTo(place)
  /\ UNCHANGED mode

Fails == GoTo("failed") /\ UNCHANGED <<board, rx, tx>>

(* wait_for_cccc and the loop that sends ESC count prompts in a row; the   *)
(* fourth one counts as success.                                           *)
Counting == {"check", "esc", "post"}

CountPrompt ==
  /\ pc \in Counting /\ tx # <<>>
  /\ ~(Head(tx) = "C" /\ count = 3)
  /\ tx' = Tail(tx)
  /\ count' = IF Head(tx) = "C" THEN count + 1 ELSE 0
  /\ UNCHANGED <<board, rx, pc, got>>

Synchronised == pc \in Counting /\ tx # <<>> /\ Head(tx) = "C" /\ count = 3

AskVersion == pc = "check" /\ Synchronised /\ Execute("version", "version")

(* What the probe does when no prompt came, or after 0x3F.                 *)
EnterByEsc(command) ==
  IF conditions.atz \/ conditions.reset
  THEN /\ GoTo("esc")
       /\ rx' = rx \o command /\ UNCHANGED <<board, tx>>
  ELSE Fails

(* The check lasts long enough for four prompts. *)
NoPrompts ==
  /\ pc = "check"
  /\ \/ mode \notin Prompting /\ tx = <<>> /\ rx = <<>> /\ UNCHANGED faults
     \/ /\ "slow prompts" \in conditions.kinds /\ faults < MaxFaults
        /\ faults' = faults + 1
  /\ EnterByEsc(IF conditions.reset THEN <<>> ELSE <<"AT+Z">>)

(* Mutant: the prompts are counted anew for each burst. *)
SendEscCountingAnew ==
  /\ pc = "esc" /\ rx = <<>>
  /\ rx' = <<"ESC">> /\ raced' = FALSE /\ count' = 0
  /\ UNCHANGED <<mode, tx, pc, got>>

SendEsc ==
  /\ pc = "esc" /\ rx = <<>>
  /\ rx' = <<"ESC">> /\ raced' = FALSE
  /\ UNCHANGED <<mode, tx, probe>>

CaughtRom ==
  /\ pc = "esc" /\ Synchronised
  /\ tx' \in ResetBuffers(tx) /\ GoTo("synced")
  /\ UNCHANGED <<board, rx>>

(* entry_timeout: longer than any board takes that can be caught. *)
EntryTimeout ==
  /\ pc = "esc"
  /\ mode \in {"app", "silent stub"} /\ tx = <<>> /\ ~conditions.reset
  /\ "AT+Z" \notin {rx[i] : i \in DOMAIN rx}
  /\ Fails

(* read_exact. *)
Expected ==
  CASE pc \in {"version", "rom version"} -> 3
    [] pc = "ack" -> 1
    [] pc = "flash id" -> Len(FlashId)
    [] OTHER -> 0

ReadByte ==
  /\ Expected > 0 /\ Len(got) < Expected /\ tx # <<>>
  /\ got' = Append(got, Head(tx)) /\ tx' = Tail(tx)
  /\ UNCHANGED <<board, rx, pc, count>>

ReadAll == Expected > 0 /\ Len(got) = Expected

(* Mutant: any downloader will do. *)
DownloaderAnswers ==
  /\ pc = "version" /\ ReadAll /\ got \in {Version("rom"), Version("secondary")}
  /\ tx' \in ResetBuffers(tx) /\ GoTo("synced")
  /\ UNCHANGED <<board, rx>>

RomAnswers ==
  /\ pc = "version" /\ ReadAll /\ got = Version("rom")
  /\ tx' \in ResetBuffers(tx) /\ GoTo("synced")
  /\ UNCHANGED <<board, rx>>

SecondaryAnswers ==
  /\ pc = "version" /\ ReadAll /\ got = Version("secondary")
  /\ Execute("reset", "ack")

ResetAcknowledged ==
  /\ pc = "ack" /\ ReadAll /\ got = <<"C">>
  /\ EnterByEsc(<<>>)

(* Neither version, or no acknowledgement: a prompt that came too late may *)
(* be the reason.                                                          *)
UnknownAnswer ==
  /\ \/ pc = "version" /\ ReadAll /\ got \notin {Version("rom"), Version("secondary")}
     \/ pc = "ack" /\ ReadAll /\ got # <<"C">>
  /\ Fails

(* rom_preflight takes whatever it gets, and only warns when it is less;   *)
(* it may be skipped.                                                      *)
StartPreflight == pc = "synced" /\ Execute("flash id", "flash id")

ContinuePreflight ==
  /\ pc = "flash id" /\ ReadAll /\ Execute("version", "rom version")

EndPreflight ==
  /\ pc = "synced" \/ (pc = "rom version" /\ ReadAll)
  /\ GoTo("upload")
  /\ UNCHANGED <<board, rx, tx>>

ReplyTimeout ==
  /\ Expected > 0 /\ ~ReadAll
  /\ \/ tx = <<>> /\ rx = <<>> /\ mode \notin Prompting /\ UNCHANGED faults
     \/ /\ "slow reply" \in conditions.kinds /\ faults < MaxFaults
        /\ faults' = faults + 1
  /\ CASE pc = "flash id" -> Execute("version", "rom version")
       [] pc = "rom version" -> GoTo("upload") /\ UNCHANGED <<board, rx, tx>>
       [] OTHER -> Fails

(* xmodem_send: a ROM that has taken the image starts it, and the stub     *)
(* begins with prompts.                                                    *)
Uploads ==
  /\ pc = "upload" /\ mode = "rom"
  /\ mode' = "stub" /\ rx' = <<>> /\ raced' = FALSE
  /\ tx' \in ResetBuffers(tx) /\ GoTo("post")
  /\ UNCHANGED faults

(* Nobody takes the image, or the transfer breaks off. *)
UploadFails ==
  /\ pc = "upload"
  /\ \/ mode # "rom" /\ UNCHANGED faults
     \/ /\ "broken upload" \in conditions.kinds /\ faults < MaxFaults
        /\ faults' = faults + 1
  /\ Fails

(* As in RawWrite, xmodem_send counts surplus answers for blocks that the  *)
(* receiver has not taken; that takes two disturbances.                    *)
UploadsInVain ==
  /\ pc = "upload" /\ mode \in Downloaders
  /\ "surplus answers" \in conditions.kinds /\ faults + 2 <= MaxFaults
  /\ faults' = faults + 2
  /\ tx' \in ResetBuffers(tx) /\ GoTo("post")
  /\ UNCHANGED <<board, rx>>

StubPrompts ==
  /\ pc = "post" /\ Synchronised
  /\ tx' \in ResetBuffers(tx) /\ GoTo("ready")
  /\ UNCHANGED <<board, rx>>

(* Whoever is there then does prompt, but perhaps not in time. *)
NoStubPrompts ==
  /\ pc = "post"
  /\ "slow prompts" \in conditions.kinds /\ faults < MaxFaults
  /\ faults' = faults + 1
  /\ Fails

ProbeWork ==
  /\ \/ /\ \/ CountPrompt \/ AskVersion \/ SendEsc \/ CaughtRom \/ EntryTimeout
           \/ ReadByte \/ RomAnswers \/ SecondaryAnswers \/ ResetAcknowledged
           \/ UnknownAnswer \/ StartPreflight \/ ContinuePreflight
           \/ EndPreflight \/ StubPrompts
        /\ UNCHANGED faults
     \/ NoPrompts \/ ReplyTimeout \/ Uploads \/ UploadFails \/ UploadsInVain
     \/ NoStubPrompts
  /\ UNCHANGED conditions

-----------------------------------------------------------------------------
(* The line. *)

Fault(kind) ==
  /\ kind \in conditions.kinds /\ faults < MaxFaults /\ faults' = faults + 1

LoseCommand ==
  /\ Fault("lost command") /\ rx # <<>> /\ rx' = Tail(rx)
  /\ UNCHANGED tx

LoseByte ==
  /\ Fault("lost byte") /\ tx # <<>> /\ tx' = Tail(tx)
  /\ UNCHANGED rx

Line == (LoseCommand \/ LoseByte) /\ UNCHANGED <<conditions, board, probe>>

Next == BoardWork \/ UserWork \/ ProbeWork \/ Line

(* Both programs go on; a user who is asked to reset the board does so.    *)
(* The board reads what arrives although it also sends prompts, and        *)
(* prompts although it also reads; the probe looks at what has arrived     *)
(* although it also sends ESC, and each of its waits ends.                 *)
Spec ==
  /\ Init /\ [][Next]_vars
  /\ WF_vars(BoardWork /\ rx' # rx) /\ WF_vars(BoardWork /\ rx' = rx)
  /\ WF_vars(ProbeWork /\ pc' # pc) /\ WF_vars(ProbeWork /\ tx' # tx)
  /\ WF_vars(ProbeWork /\ rx' # rx)
  /\ WF_vars(UserWork)

-----------------------------------------------------------------------------
(* Properties. *)

(* As long as nothing goes wrong on the line, the image is sent to nobody  *)
(* but the mask ROM, and the tests begin only with a running stub,         *)
(* whatever the board was doing and whenever it prompts.                   *)
(* (A lost 0x3F, or prompts that come too late for the first check, let    *)
(* the ESC loop take the prompts of the secondary downloader or of a stub  *)
(* for the ROM's: it asks for no version.)                                 *)
ImageGoesToRom ==
  faults = 0 =>
    /\ pc \in {"synced", "flash id", "rom version", "upload"} => mode = "rom"
    /\ pc = "ready" => mode = "stub"

(* The entry ends, in success or with an error; and if nothing goes wrong  *)
(* and no prompt collides with a command, it succeeds from either          *)
(* downloader and, by AT+Z or the reset button, from the firmware.         *)
Calm == conditions.kinds = {} /\ ~conditions.race
Enterable ==
  \/ mode = "rom"
  \/ mode = "secondary" /\ (conditions.atz \/ conditions.reset)
  \/ mode = "app" /\ (conditions.atz \/ conditions.reset)
EntryEnds ==
  /\ <>(pc \in {"ready", "failed"})
  /\ Calm /\ Enterable => <>(pc = "ready")

=============================================================================
