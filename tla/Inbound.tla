------------------------------ MODULE Inbound ------------------------------
(***************************************************************************)
(* What a chat message passes before the engine looks at it: the handler   *)
(* of its platform, with the table of message ids (MessageDedup in         *)
(* core/dedup.go, msgDedup of WeCom), the age check against the start of   *)
(* the process, the allow list and the mention of the bot, each platform   *)
(* in its own order; then the rate limiter of its session                  *)
(* (core/ratelimit.go). A platform delivers a message at least once; the   *)
(* program may restart at any time and knows nothing of the messages       *)
(* before. A behaviour is one of a single platform.                        *)
(***************************************************************************)
EXTENDS SeqFilter, FiniteSets

CONSTANTS
  Message,
  Chat,          \* session keys
  DedupTTL,      \* dedupTTL, in ticks
  Grace,         \* the grace period of IsOldMessage, in ticks
  MaxMessages,   \* RateLimiter.maxMessages; with 0 there is no limiter
  Window,        \* RateLimiter.windowMs, in ticks
  MaxNow,        \* bound on the clock
  Unset          \* no time

ASSUME InboundAssumption ==
  /\ DedupTTL \in Nat /\ Grace \in Nat /\ MaxMessages \in Nat \ {0} /\ Window \in Nat
  /\ MaxNow \in Nat /\ Unset \notin 0..MaxNow
  /\ Unset \notin {"plain", "refused", "aside", "button"}

VARIABLES
  platform,
  clock,
  startTime, \* core.StartTime
  knowsSelf, \* whether feishu was told the bot's open_id at its start
  sort,      \* of a written message, or Unset
  created,   \* when a message was written, or Unset
  seen,      \* MessageDedup.seen
  gate,      \* messages past the platform's checks, on the way to the limiter
  bucket,    \* RateLimiter.buckets: timestamps and lastAccess, or no bucket
  passed,    \* when a message passed the platform's checks within the TTL, or Unset
  admitted   \* when the limiter let messages of a chat through in the last window

inboundVars == <<platform, clock, startTime, knowsSelf, sort, created, seen, gate, bucket,
                 passed, admitted>>

Time == 0..MaxNow
NoBucket == [stamps |-> <<>>, access |-> Unset]

\* The platforms that keep a table of message ids, that have buttons or slash
\* commands, that ask for a mention in groups, and that handle one update
\* after the other.
Deduplicates == {"feishu", "dingtalk", "wecom", "qqbot", "qq"}
HasButtons == {"telegram", "discord"}
AsksMention == {"telegram", "discord", "feishu"}
OneByOne == {"telegram", "slack", "qqbot", "qq"}
Platform == Deduplicates \union HasButtons \union {"slack", "line"}

\* "aside" is a message of a group that does not mention the bot (without
\* group_reply_all), "button" a button or slash command, "refused" one whose
\* author is not on the allow list or that says nothing.
Sort == {"plain", "refused"}
          \union (IF platform \in AsksMention THEN {"aside"} ELSE {})
          \union (IF platform \in HasButtons THEN {"button"} ELSE {})

InboundTypeOK ==
  /\ platform \in Platform
  /\ knowsSelf \in BOOLEAN
  /\ sort \in [Message -> Sort \union {Unset}]
  /\ clock \in Time
  /\ startTime \in Time
  /\ created \in [Message -> Time \union {Unset}]
  /\ seen \in [Message -> Time \union {Unset}]
  /\ gate \subseteq Message \X Chat
  /\ \A c \in Chat :
       /\ bucket[c].access \in Time \union {Unset}
       /\ bucket[c].stamps \in Seq(Time)
       /\ Len(bucket[c].stamps) <= MaxMessages
       /\ admitted[c] \in Seq(Time)
  /\ passed \in [Message -> Time \union {Unset}]

InboundInit ==
  /\ platform \in Platform
  /\ knowsSelf \in {TRUE, platform # "feishu"}
  /\ sort = [m \in Message |-> Unset]
  /\ clock = 0
  /\ startTime = 0
  /\ created = [m \in Message |-> Unset]
  /\ seen = [m \in Message |-> Unset]
  /\ gate = {}
  /\ bucket = [c \in Chat |-> NoBucket]
  /\ passed = [m \in Message |-> Unset]
  /\ admitted = [c \in Chat |-> <<>>]

\* A user writes a message.
Write(m) ==
  /\ created[m] = Unset
  /\ created' = [created EXCEPT ![m] = clock]
  /\ \E s \in Sort : sort' = [sort EXCEPT ![m] = s]
  /\ UNCHANGED <<platform, clock, startTime, knowsSelf, seen, gate, bucket, passed,
                 admitted>>

\* IsDuplicate first drops what is older than the TTL.
Evicted(m) == seen[m] # Unset /\ clock - seen[m] > DedupTTL

Remembered(m) == seen[m] # Unset /\ ~Evicted(m)

\* Mutant of IsOldMessage: restarts are not looked at.
NeverOld(m) == FALSE

IsOldMessage(m) == created[m] + Grace < startTime

\* IsDuplicate leaves m in the table, with the time it was seen first.
Look(m) ==
  seen' = [o \in Message |->
             IF o = m /\ ~Remembered(m) THEN clock
             ELSE IF Evicted(o) THEN Unset ELSE seen[o]]

\* The platform pl delivers m, for the first time or once more.
Arrives(pl, m) ==
  /\ platform = pl
  /\ created[m] # Unset
  /\ pl \in OneByOne => gate = {}
  /\ UNCHANGED <<platform, clock, startTime, knowsSelf, sort, created, bucket, admitted>>

HandOver(m, c) == gate' = gate \union {<<m, c>>} /\ passed' = [passed EXCEPT ![m] = clock]
DropMessage == UNCHANGED <<gate, passed>>
HandOverIf(ok, m, c) == IF ok THEN HandOver(m, c) ELSE DropMessage

\* onMessage of feishu and of dingtalk and handleMessage of wecom look into
\* the table first, then at the age.
FeishuMessage(m, c) ==
  /\ Arrives("feishu", m)
  /\ Look(m)
  /\ HandOverIf(/\ ~Remembered(m)
                /\ ~IsOldMessage(m)
                /\ sort[m] = "aside" => ~knowsSelf
                /\ sort[m] # "refused", m, c)

DingTalkMessage(m, c) ==
  /\ Arrives("dingtalk", m)
  /\ Look(m)
  /\ HandOverIf(~Remembered(m) /\ ~IsOldMessage(m) /\ sort[m] # "refused", m, c)

WeComMessage(m, c) ==
  /\ Arrives("wecom", m)
  /\ Look(m)
  /\ HandOverIf(~Remembered(m) /\ ~IsOldMessage(m) /\ sort[m] # "refused", m, c)

\* handleGroupMessage and handleC2CMessage of qqbot and handleMessage of qq
\* look at the age first: an old message is not put into the table.
AgeFirst(pl, m, c) ==
  /\ Arrives(pl, m)
  /\ IF IsOldMessage(m) THEN UNCHANGED seen ELSE Look(m)
  /\ HandOverIf(~IsOldMessage(m) /\ ~Remembered(m) /\ sort[m] # "refused", m, c)

QQBotGroupMessage(m, c) == AgeFirst("qqbot", m, c)
QQBotC2CMessage(m, c) == AgeFirst("qqbot", m, c)
QQMessage(m, c) == AgeFirst("qq", m, c)

\* The handlers of telegram, discord, slack and line keep no table.
Untracked(pl, m, c) ==
  /\ Arrives(pl, m)
  /\ sort[m] # "button"
  /\ HandOverIf(~IsOldMessage(m) /\ sort[m] \notin {"aside", "refused"}, m, c)
  /\ UNCHANGED seen

TelegramMessage(m, c) == Untracked("telegram", m, c)
DiscordMessage(m, c) == Untracked("discord", m, c)
SlackMessage(m, c) == Untracked("slack", m, c)
LineMessage(m, c) == Untracked("line", m, c)

\* A pressed button of telegram asks for no age.
TelegramButton(m, c) ==
  /\ Arrives("telegram", m)
  /\ sort[m] = "button"
  /\ HandOver(m, c)
  /\ UNCHANGED seen

\* Neither does a slash command of discord, which has to be answered within
\* the time discord allows; a repeated or late one is dropped.
DiscordInteraction(m, c) ==
  /\ Arrives("discord", m)
  /\ sort[m] = "button"
  /\ \E answered \in BOOLEAN : HandOverIf(answered, m, c)
  /\ UNCHANGED seen

\* The message is a file that cannot be downloaded: nothing is left of it, and
\* the platform is not asked for it again.
DownloadFails(m, c) ==
  /\ <<m, c>> \in gate
  /\ sort[m] \in {"plain", "aside"}
  /\ gate' = gate \ {<<m, c>>}
  /\ UNCHANGED <<platform, clock, startTime, knowsSelf, sort, created, seen, bucket, passed,
                 admitted>>

Recent(stamps, t) == Filtered(stamps, {ts \in Time : ts + Window > t})

\* Mutant of Allow: a rejected message takes a place in the window, too.
AllowCountsRejected(m, c) ==
  LET kept == Recent(bucket[c].stamps, clock)
      ok == Len(kept) < MaxMessages
  IN
  /\ <<m, c>> \in gate
  /\ gate' = gate \ {<<m, c>>}
  /\ bucket' = [bucket EXCEPT ![c] = [stamps |-> Append(kept, clock), access |-> clock]]
  /\ admitted' = IF ok THEN [admitted EXCEPT ![c] = Append(@, clock)] ELSE admitted
  /\ UNCHANGED <<platform, clock, startTime, knowsSelf, sort, created, seen, passed>>

\* RateLimiter.Allow: the timestamps of the last window are kept, rejected
\* messages leave none.
Allow(m, c) ==
  LET kept == Recent(bucket[c].stamps, clock)
      ok == Len(kept) < MaxMessages
  IN
  /\ <<m, c>> \in gate
  /\ gate' = gate \ {<<m, c>>}
  /\ bucket' = [bucket EXCEPT ![c] =
                  [stamps |-> IF ok THEN Append(kept, clock) ELSE kept, access |-> clock]]
  /\ admitted' = IF ok THEN [admitted EXCEPT ![c] = Append(@, clock)] ELSE admitted
  /\ UNCHANGED <<platform, clock, startTime, knowsSelf, sort, created, seen, passed>>

Stale(c) == bucket[c].access # Unset /\ clock - bucket[c].access > Window * 2

\* One round of cleanupLoop.
CleanupBuckets ==
  /\ \E c \in Chat : Stale(c)
  /\ bucket' = [c \in Chat |-> IF Stale(c) THEN NoBucket ELSE bucket[c]]
  /\ UNCHANGED <<platform, clock, startTime, knowsSelf, sort, created, seen, gate, passed,
                 admitted>>

\* What left the window, and what passed before the TTL, will not be asked for
\* again.
Tick ==
  /\ clock < MaxNow
  /\ clock' = clock + 1
  /\ admitted' = [c \in Chat |-> Recent(admitted[c], clock')]
  /\ passed' = [m \in Message |->
                  IF passed[m] # Unset /\ clock' - passed[m] > DedupTTL THEN Unset ELSE passed[m]]
  /\ UNCHANGED <<platform, startTime, knowsSelf, sort, created, seen, gate, bucket>>

\* The program starts again; feishu goes on without its open_id when it is
\* not told.
Restart ==
  /\ startTime' = clock
  /\ seen' = [m \in Message |-> Unset]
  /\ gate' = {}
  /\ bucket' = [c \in Chat |-> NoBucket]
  /\ admitted' = [c \in Chat |-> <<>>]
  /\ knowsSelf' \in {TRUE, platform # "feishu"}
  /\ UNCHANGED <<platform, clock, sort, created, passed>>

InboundNext ==
  \/ \E m \in Message : Write(m)
  \/ \E m \in Message, c \in Chat :
       \/ FeishuMessage(m, c)
       \/ DingTalkMessage(m, c)
       \/ WeComMessage(m, c)
       \/ QQBotGroupMessage(m, c)
       \/ QQBotC2CMessage(m, c)
       \/ QQMessage(m, c)
       \/ TelegramMessage(m, c)
       \/ TelegramButton(m, c)
       \/ DiscordMessage(m, c)
       \/ DiscordInteraction(m, c)
       \/ SlackMessage(m, c)
       \/ LineMessage(m, c)
       \/ DownloadFails(m, c)
       \/ Allow(m, c)
  \/ CleanupBuckets
  \/ Tick
  \/ Restart

InboundSpec == InboundInit /\ [][InboundNext]_inboundVars

-----------------------------------------------------------------------------
InLastWindow(c) == {i \in DOMAIN admitted[c] : clock < admitted[c][i] + Window}

\* The limiter is an exact sliding window: it lets a message through if and
\* only if fewer than MaxMessages of the chat went through in the last window,
\* although it forgets buckets and counts only what it kept.
LimiterIsExact ==
  [][\A m \in Message, c \in Chat : Allow(m, c) =>
       (Len(admitted'[c]) > Len(admitted[c])
          <=> Cardinality(InLastWindow(c)) < MaxMessages)]_inboundVars

\* A message passes only when it was written no longer than the grace period
\* before the start of the program (or is a button), and an aside of a group
\* only while feishu does not know itself. It passes twice, however often the
\* platform delivers it, only where no table is kept, after the TTL, or around
\* a restart that it was written no longer than the grace period before.
NoRepeat ==
  [][\A m \in Message : passed'[m] \notin {Unset, passed[m]} =>
       /\ sort[m] = "button" \/ created[m] + Grace >= startTime
       /\ sort[m] = "aside" => platform = "feishu" /\ ~knowsSelf
       /\ \/ passed[m] = Unset  \* never, or longer than the TTL ago
          \/ platform \notin Deduplicates
          \/ passed[m] <= startTime /\ created[m] + Grace >= startTime]_inboundVars
=============================================================================
