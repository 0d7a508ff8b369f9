------------------------------ MODULE Settings ------------------------------
(***************************************************************************)
(* The settings of the bot, in the four places where they live: the file   *)
(* config.yml and the environment (internal/config/config.go), the Config  *)
(* in memory, and the copies the controller acts on (NewController, /start *)
(* and the setting commands of internal/telegram/controller.go); with the  *)
(* start-up loop that waits for a token (cmd/sniper/main.go), and restarts.*)
(*                                                                         *)
(* A setting nobody tells apart from another is left out; a gas price is a *)
(* text, and the limit it is parsed to.                                    *)
(***************************************************************************)
EXTENDS Integers

CONSTANTS
  Chats,      \* chat ids /set_chat may be given; 0 is "any chat"
  GasTexts,   \* texts /setgas may be given
  Numbers,    \* those GweiToWei parses
  DefaultGas, \* the text of Default()
  NoLimit,    \* MaxGasPrice = nil
  Environments, \* the environments the process is started in
  Unset,      \* a variable the environment does not have, or that does not parse
  Faults      \* a write may fail or be cut short, and the user may spoil the file

ASSUME SettingsAssumption ==
  /\ 0 \notin Chats /\ Numbers \subseteq GasTexts /\ DefaultGas \in Numbers
  /\ NoLimit \notin GasTexts /\ Unset \notin Chats \cup {0} /\ Faults \in BOOLEAN
  /\ Environments \subseteq [token : BOOLEAN, chat : Chats \cup {0, Unset}, key : BOOLEAN,
                             check : {"unset", "on", "off"}]

VARIABLES
  env,       \* TELEGRAM_TOKEN, TELEGRAM_CHAT_ID, PRIVATE_KEY, HONEYPOT_CHECK_ENABLED
  file,      \* config.yml, once it exists
  exists,
  parses,    \* yaml.Unmarshal accepts it
  changed,   \* waitForToken will find it newer than the time it has noted
  proc,      \* the process: a phase of Phases
  cfg,       \* Controller.Cfg
  replying,  \* the field whose command has saved and not replied yet, or "none"
  \* what the controller acts on
  checkOn,   \* honeypotCheckEnabled
  autoBuy,   \* autoBuyEnabled
  maxGas,    \* tradeConfig.MaxGasPrice
  allowed,   \* allowedChatID
  running, executor,
  \* history
  asked,     \* the settings as the last commands want them
  acked,     \* the settings as the last replies state them
  spoiled    \* a write has failed, or the user has removed the file: asked and
             \* acked are given up

disk    == <<file, exists, parses>>
runtime == <<replying, checkOn, autoBuy, maxGas, allowed, running, executor>>
history == <<asked, acked, spoiled>>
vars    == <<env, disk, changed, proc, cfg, runtime, history>>

\* "blind": waitForToken has no modification time to compare with
Phases == {"down", "loading", "tokenless", "waiting", "blind", "creating", "up"}

Config == [token : BOOLEAN, chat : Chats \cup {0}, key : BOOLEAN,
           check : BOOLEAN, autoBuy : BOOLEAN, gas : GasTexts]
Default == [token |-> FALSE, chat |-> 0, key |-> FALSE,
            check |-> TRUE, autoBuy |-> FALSE, gas |-> DefaultGas]

TypeOK ==
  /\ env \in Environments
  /\ file \in Config /\ exists \in BOOLEAN /\ parses \in BOOLEAN /\ changed \in BOOLEAN
  /\ proc \in Phases /\ replying \in {"none", "chat", "check", "autoBuy", "gas"}
  /\ cfg \in Config /\ asked \in Config /\ acked \in Config
  /\ checkOn \in BOOLEAN /\ autoBuy \in BOOLEAN /\ maxGas \in Numbers \cup {NoLimit}
  /\ allowed \in Chats \cup {0} /\ running \in BOOLEAN /\ executor \in BOOLEAN
  /\ spoiled \in BOOLEAN

\* A first start without a file, or with one as Default() writes it in which
\* the user has filled in a token, and maybe a key.
Init ==
  /\ env \in Environments
  /\ exists \in BOOLEAN /\ parses = TRUE
  /\ \/ file = Default
     \/ exists /\ \E k \in BOOLEAN : file = [Default EXCEPT !.token = TRUE, !.key = k]
  /\ changed = FALSE /\ proc = "loading" /\ cfg = Default
  /\ checkOn = TRUE /\ autoBuy = FALSE /\ maxGas = NoLimit /\ allowed = 0
  /\ running = FALSE /\ executor = FALSE /\ replying = "none"
  /\ asked = Default /\ acked = Default /\ spoiled = FALSE

\* The memory of the process is gone.
MemoryLost ==
  /\ cfg' = Default /\ replying' = "none"
  /\ checkOn' = TRUE /\ autoBuy' = FALSE /\ maxGas' = NoLimit /\ allowed' = 0
  /\ running' = FALSE /\ executor' = FALSE

-----------------------------------------------------------------------------
\* config.go

Overridden(c) ==
  [c EXCEPT !.token = @ \/ env.token,
            !.chat  = IF env.chat = Unset THEN @ ELSE env.chat,
            !.key   = @ \/ env.key,
            !.check = IF env.check = "unset" THEN @ ELSE env.check = "on"]

\* Save truncates the file and then writes it. One that fails, or that the end
\* of the process cuts off (End, next), leaves the file as it was, or cut short:
\* not to be parsed, or without the last of the settings (a value cut in two
\* counts as left out).
Saved(c) == file' = c /\ exists' = TRUE /\ parses' = TRUE /\ UNCHANGED spoiled
FirstOf(c, n) ==
  [token   |-> IF n > 0 THEN c.token   ELSE Default.token,
   chat    |-> IF n > 1 THEN c.chat    ELSE Default.chat,
   key     |-> IF n > 2 THEN c.key     ELSE Default.key,
   check   |-> IF n > 3 THEN c.check   ELSE Default.check,
   autoBuy |-> IF n > 4 THEN c.autoBuy ELSE Default.autoBuy,
   gas     |-> Default.gas]
CutShort(c) ==
  /\ exists' = TRUE /\ parses' \in BOOLEAN
  /\ \E n \in 0..5 : file' = FirstOf(c, n)
SaveFails(c) ==
  /\ Faults /\ spoiled' = TRUE
  /\ CutShort(c) \/ UNCHANGED disk

Remember(newAsked, newAcked) ==
  /\ asked' = IF spoiled' THEN Default ELSE newAsked
  /\ acked' = IF spoiled' THEN Default ELSE newAcked

-----------------------------------------------------------------------------
\* main.go: runWithTokenWait. When Load returns an error (a file that is not
\* to be read or parsed) it is called again five seconds later: no step here.

LoadFile ==
  /\ proc = "loading" /\ exists /\ parses
  /\ cfg' = Overridden(file)
  /\ proc' = IF cfg'.token THEN "creating" ELSE "tokenless"
  /\ UNCHANGED <<disk, changed, runtime, history>>

\* A file Load creates is returned without the overrides.
CreateFile ==
  /\ proc = "loading" /\ ~exists
  /\ Saved(Default) /\ cfg' = Default /\ proc' = "tokenless"
  /\ Remember(asked, acked)
  /\ UNCHANGED <<changed, runtime>>

CreateFileFails ==
  /\ proc = "loading" /\ ~exists
  /\ SaveFails(Default) /\ Remember(asked, acked)
  /\ UNCHANGED <<changed, proc, cfg, runtime>>

\* waitForToken notes the modification time. Without a file it writes one and
\* tries again, with both errors ignored.
NoteTime ==
  /\ proc = "tokenless"
  /\ \/ exists /\ UNCHANGED <<disk, spoiled>>
     \/ ~exists /\ (Saved(Default) \/ SaveFails(Default))
  /\ proc' = IF exists' THEN "waiting" ELSE "blind"
  /\ Remember(asked, acked)
  /\ UNCHANGED <<changed, cfg, runtime>>

OnEdit == changed                                   \* mutant: the file only
Woken == changed \/ env.token

\* Its ticker sees a newer file, or a token in the environment; a Stat that
\* fails puts off both. Without a time to compare with it panics.
Wake ==
  /\ proc = "waiting" /\ exists /\ Woken /\ proc' = "loading" /\ changed' = FALSE
  /\ UNCHANGED <<disk, cfg, runtime, history>>

Panic ==
  /\ proc = "blind" /\ exists /\ proc' = "down" /\ MemoryLost
  /\ UNCHANGED <<disk, changed, history>>

ParsedUnchecked(text) == text                       \* mutant: error not tested
Parsed(text) == IF text \in Numbers THEN text ELSE NoLimit

\* NewController, then the update loop; the first may fail and is retried.
Create ==
  /\ proc = "creating" /\ proc' = "up"
  /\ checkOn' = cfg.check /\ autoBuy' = cfg.autoBuy /\ allowed' = cfg.chat
  /\ maxGas' = Parsed(cfg.gas) /\ running' = FALSE /\ executor' = FALSE
  /\ replying' = "none"
  /\ UNCHANGED <<disk, changed, cfg, history>>

CreateFails ==
  /\ proc = "creating" /\ proc' = "loading"
  /\ UNCHANGED <<disk, changed, cfg, runtime, history>>

-----------------------------------------------------------------------------
\* The commands, one at a time

Listening == proc = "up" /\ replying = "none"

AutoBuyUnarmed(e) == autoBuy' = cfg.autoBuy         \* mutant: wallet not tested
ArmAutoBuy(e) == autoBuy' = (cfg.autoBuy /\ e)

\* /start, as far as the settings go: with a key a new executor, which may
\* fail; with an executor the gas limit of the config; auto-buy needs one. A
\* /start that fails has failed before all that: the only error after it,
\* a watcher without a URL, no preset leads to.
StartSession ==
  /\ Listening /\ ~running /\ running' = TRUE
  /\ \E e \in BOOLEAN :
       /\ e => cfg.key
       /\ executor' = e
       /\ maxGas' = IF e THEN Parsed(cfg.gas) ELSE maxGas
       /\ ArmAutoBuy(e)
  /\ UNCHANGED <<disk, changed, proc, cfg, replying, checkOn, allowed, history>>

\* The goroutine of /stop, at any time.
StopSession ==
  /\ proc = "up" /\ running /\ running' = FALSE
  /\ UNCHANGED <<disk, changed, proc, cfg, replying, checkOn, autoBuy, maxGas,
                 allowed, executor, history>>

\* A command sets a field of the config and saves it, with the error ignored;
\* the process may end before it replies.
Set(field, value) ==
  /\ Listening /\ replying' = field
  /\ cfg' = [cfg EXCEPT ![field] = value]
  /\ Saved(cfg') \/ SaveFails(cfg')
  /\ Remember([asked EXCEPT ![field] = value], acked)
  /\ UNCHANGED <<changed, proc, running, executor>>

Reply ==
  /\ proc = "up" /\ replying # "none" /\ replying' = "none"
  /\ UNCHANGED <<disk, changed, proc, cfg, checkOn, autoBuy, maxGas, allowed,
                 running, executor, spoiled>>
  /\ Remember(asked, [acked EXCEPT ![replying] = asked[replying]])

AutoBuyOn ==
  /\ executor /\ running /\ Set("autoBuy", TRUE) /\ autoBuy' = TRUE
  /\ UNCHANGED <<checkOn, maxGas, allowed>>

AutoBuyOffUnsaved ==                                \* mutant: no Save
  /\ Listening /\ replying' = "autoBuy" /\ cfg' = [cfg EXCEPT !.autoBuy = FALSE]
  /\ autoBuy' = FALSE
  /\ UNCHANGED <<disk, changed, proc, checkOn, maxGas, allowed, running, executor,
                 spoiled>>
  /\ Remember([asked EXCEPT !.autoBuy = FALSE], acked)

AutoBuyOff ==
  /\ Set("autoBuy", FALSE) /\ autoBuy' = FALSE
  /\ UNCHANGED <<checkOn, maxGas, allowed>>

\* /setgas takes any text; the limit in use is not touched.
SetGas(text) ==
  /\ Set("gas", text)
  /\ UNCHANGED <<checkOn, autoBuy, maxGas, allowed>>

\* /safety toggles the config; the check in use is not touched.
Safety ==
  /\ Set("check", ~cfg.check)
  /\ UNCHANGED <<checkOn, autoBuy, maxGas, allowed>>

SetChat(id) ==
  /\ Set("chat", id) /\ allowed' = id
  /\ UNCHANGED <<checkOn, autoBuy, maxGas>>

Command ==
  \/ StartSession \/ StopSession \/ AutoBuyOn \/ AutoBuyOff \/ Safety \/ Reply
  \/ \E text \in GasTexts : SetGas(text)
  \/ \E id \in Chats : SetChat(id)

-----------------------------------------------------------------------------
\* The environment: the user edits, breaks or removes the file, the process
\* ends and is started.

\* The user fills in a token or a key, or mends what does not parse.
Edit ==
  /\ exists \/ Faults
  /\ \E t, k \in BOOLEAN :
       /\ (file.token => t) /\ (file.key => k)
       /\ file' = [file EXCEPT !.token = t, !.key = k]
  /\ exists' = TRUE /\ parses' = TRUE /\ changed' = (proc = "waiting")
  /\ UNCHANGED <<proc, cfg, runtime, history>>

Break ==
  /\ Faults /\ exists /\ parses' = FALSE /\ changed' = (proc = "waiting")
  /\ UNCHANGED <<file, exists, proc, cfg, runtime, history>>

Remove ==
  /\ Faults /\ exists /\ exists' = FALSE /\ file' = Default /\ spoiled' = TRUE
  /\ Remember(asked, acked)
  /\ UNCHANGED <<parses, changed, proc, cfg, runtime>>

End ==
  /\ proc # "down" /\ proc' = "down" /\ changed' = FALSE
  /\ MemoryLost
  /\ UNCHANGED <<disk, history>>

Restart ==
  /\ proc = "down" /\ proc' = "loading"
  /\ UNCHANGED <<disk, changed, cfg, runtime, history>>

StartUp == LoadFile \/ CreateFile \/ NoteTime \/ Wake \/ Panic \/ Create
User == Edit \/ Break \/ Remove
SameEnv == UNCHANGED env
Next ==
  /\ StartUp \/ CreateFileFails \/ CreateFails \/ Command \/ User \/ End \/ Restart
  /\ SameEnv

Spec == Init /\ [][Next]_vars

\* The start-up loop runs; a Telegram that is asked again and again answers.
\* Nobody has to edit the file or end the process.
FairSpec == Spec /\ WF_vars(StartUp /\ SameEnv) /\ SF_vars(Create /\ SameEnv)

-----------------------------------------------------------------------------
Up == proc = "up"

\* The goroutines of the watcher buy if and only if the config says so and
\* there is a wallet to buy with: /start, /autobuy and a restart agree.
AutoBuyArmed == Up /\ running => autoBuy = (cfg.autoBuy /\ executor)

\* A setting is what the last reply about it states, or what a later command
\* asks for, which the end of the process may have cut off before its reply.
Known(f) == cfg[f] \in {acked[f], asked[f]}

\* However often the process ends, between any two steps, and is started
\* again: as long as writes succeed and nobody removes the file, what a reply
\* has stated is what the bot uses, but for what the environment overrides.
\* TELEGRAM_CHAT_ID undoes /set_chat at the next start, and
\* HONEYPOT_CHECK_ENABLED whatever /safety has saved.
RestartKeeps ==
  Up /\ ~spoiled =>
    /\ Known("autoBuy") /\ Known("gas") /\ allowed = cfg.chat
    /\ IF env.chat = Unset THEN Known("chat") ELSE allowed \in {env.chat, asked.chat}
    /\ IF env.check = "unset" THEN Known("check") ELSE checkOn = (env.check = "on")

\* "Also check environment variable": with a token in the environment the bot
\* comes up without one in the file, if in the end there is a file that parses,
\* and nothing else has to be in it. Without that proviso it does not: a Load
\* or a Stat that fails is repeated before the environment is looked at.
EnvTokenStarts ==
  <>[](exists /\ parses) =>
    (env.token /\ proc = "loading" ~> proc \in {"up", "down"})

\* "Please add TELEGRAM_TOKEN to config.yml": a bot that waits for a token
\* finds the one that is added.
TokenIsFound ==
  (exists /\ file.token) ~> (proc \in {"creating", "up", "down"} \/ ~file.token)
=============================================================================
