--------------------------- MODULE SettingsProofs ---------------------------
(***************************************************************************)
(* Theorems about the settings, for any chats, gas texts and environment,  *)
(* with and without writes that fail.                                      *)
(***************************************************************************)
EXTENDS Settings, TLAPS

\* As long as writes succeed, file, config and commands agree on what the
\* environment leaves alone, up to a command that has not been handled in full.
Told(f) == {acked[f], asked[f]}
FileAgrees ==
  ~spoiled =>
    /\ exists => /\ file.autoBuy \in Told("autoBuy") /\ file.gas \in Told("gas")
                 /\ env.chat = Unset => file.chat \in Told("chat")
                 /\ env.check = "unset" => file.check \in Told("check")
    /\ ~exists => acked = Default /\ asked = Default /\ file = Default

\* So does the config of a process that has loaded one.
CfgAgrees ==
  proc \in {"creating", "up"} /\ ~spoiled =>
    /\ Known("autoBuy") /\ Known("gas")
    /\ env.chat = Unset => Known("chat")
    /\ env.check = "unset" => Known("check")

\* A reply states what the command has set and saved.
ReplyIsTrue ==
  proc = "up" /\ ~spoiled =>
    \A f \in {"chat", "check", "autoBuy", "gas"} :
      replying = f => cfg[f] = asked[f] /\ file[f] = asked[f]

\* What a controller acts on comes from the config it was made of, which has
\* the overrides: one without them has no token.
CopiesInUse ==
  /\ proc = "up" => allowed = cfg.chat
  /\ env.chat # Unset =>
       /\ proc = "creating" => cfg.chat = env.chat
       /\ proc = "up" /\ ~spoiled => cfg.chat \in {env.chat, asked.chat}
  /\ env.check # "unset" =>
       /\ proc = "creating" => cfg.check = (env.check = "on")
       /\ proc = "up" => checkOn = (env.check = "on")

SettingsInv == TypeOK /\ AutoBuyArmed /\ FileAgrees /\ CfgAgrees /\ ReplyIsTrue /\ CopiesInUse

-----------------------------------------------------------------------------
LEMMA DefaultType == Default \in Config
  BY SettingsAssumption DEF Default, Config

LEMMA FirstOfType ==
  ASSUME NEW c \in Config, NEW n \in 0..5
  PROVE  FirstOf(c, n) \in Config
  BY DefaultType DEF FirstOf, Config

LEMMA OverriddenType ==
  ASSUME TypeOK, NEW c \in Config
  PROVE  /\ Overridden(c) \in Config
         /\ Overridden(c).autoBuy = c.autoBuy /\ Overridden(c).gas = c.gas
         /\ Overridden(c).chat = IF env.chat = Unset THEN c.chat ELSE env.chat
         /\ Overridden(c).check = IF env.check = "unset" THEN c.check ELSE env.check = "on"
<1>1. /\ env.token \in BOOLEAN /\ env.key \in BOOLEAN
      /\ env.chat \in Chats \cup {0, Unset} /\ env.check \in {"unset", "on", "off"}
  BY SettingsAssumption DEF TypeOK
<1>2. PICK r : r = Overridden(c)
  OBVIOUS
<1>3. /\ r.autoBuy = c.autoBuy /\ r.gas = c.gas
      /\ r.token = (c.token \/ env.token) /\ r.key = (c.key \/ env.key)
      /\ DOMAIN r = {"token", "chat", "key", "check", "autoBuy", "gas"}
  BY <1>2 DEF Overridden, Config
<1>4. r.chat = IF env.chat = Unset THEN c.chat ELSE env.chat
  BY <1>2 DEF Overridden, Config
<1>5. r.check = IF env.check = "unset" THEN c.check ELSE env.check = "on"
  BY <1>2 DEF Overridden, Config
<1>6. Overridden(c) \in Config
  <2>1. r.token \in BOOLEAN /\ r.key \in BOOLEAN /\ r.check \in BOOLEAN
    BY <1>1, <1>3, <1>5 DEF Config
  <2>2. r.chat \in Chats \cup {0} /\ r.autoBuy \in BOOLEAN /\ r.gas \in GasTexts
    BY <1>1, <1>3, <1>4 DEF Config
  <2>3. r = [token |-> r.token, chat |-> r.chat, key |-> r.key,
             check |-> r.check, autoBuy |-> r.autoBuy, gas |-> r.gas]
    BY <1>2 DEF Overridden, Config
  <2> QED BY <1>2, <2>1, <2>2, <2>3 DEF Config
<1> QED BY <1>2, <1>3, <1>4, <1>5, <1>6

LEMMA SettingsInit == Init => SettingsInv
<1> SUFFICES ASSUME Init PROVE SettingsInv
  OBVIOUS
<1>1. file \in Config
  BY DefaultType DEF Init, Config
<1>2. TypeOK
  BY <1>1, DefaultType DEF Init, TypeOK, Phases
<1>3. FileAgrees
  BY DEF Init, FileAgrees, Told, Default
<1>4. AutoBuyArmed /\ CfgAgrees /\ ReplyIsTrue /\ CopiesInUse
  BY DEF Init, AutoBuyArmed, CfgAgrees, ReplyIsTrue, CopiesInUse, Up
<1> QED BY <1>2, <1>3, <1>4 DEF SettingsInv

\* What a save leaves, whether it succeeds or not, and what is remembered.
LEMMA SaveType ==
  ASSUME TypeOK, NEW c \in Config, Saved(c) \/ SaveFails(c),
         NEW q \in Config, NEW a \in Config, Remember(q, a)
  PROVE  /\ file' \in Config /\ exists' \in BOOLEAN /\ parses' \in BOOLEAN
         /\ spoiled' \in BOOLEAN /\ asked' \in Config /\ acked' \in Config
         /\ ~spoiled' => /\ ~spoiled /\ file' = c /\ exists'
                         /\ asked' = q /\ acked' = a
<1>1. file' \in Config
  <2>1. CASE Saved(c)
    BY <2>1 DEF Saved
  <2>2. CASE SaveFails(c) /\ UNCHANGED disk
    BY <2>2 DEF disk, TypeOK
  <2>3. CASE SaveFails(c) /\ CutShort(c)
    BY <2>3, FirstOfType DEF CutShort
  <2> QED BY <2>1, <2>2, <2>3 DEF SaveFails
<1>2. exists' \in BOOLEAN /\ parses' \in BOOLEAN /\ spoiled' \in BOOLEAN
  BY DEF Saved, SaveFails, CutShort, disk, TypeOK
<1>3. asked' \in Config /\ acked' \in Config
  BY DefaultType DEF Remember
<1>4. ~spoiled' => ~spoiled /\ file' = c /\ exists' /\ asked' = q /\ acked' = a
  BY DEF Saved, SaveFails, Remember
<1> QED BY <1>1, <1>2, <1>3, <1>4

\* A command changes one field of the config, and saves all of them.
LEMMA SetKeeps ==
  ASSUME SettingsInv, SameEnv,
         NEW field \in {"chat", "autoBuy", "gas", "check"},
         NEW value, [cfg EXCEPT ![field] = value] \in Config,
         [asked EXCEPT ![field] = value] \in Config,
         Set(field, value)
  PROVE  /\ cfg' \in Config /\ asked' \in Config /\ acked' \in Config
         /\ file' \in Config /\ exists' \in BOOLEAN /\ parses' \in BOOLEAN
         /\ spoiled' \in BOOLEAN
         /\ proc = "up" /\ cfg'[field] = value
         /\ \A f \in {"chat", "autoBuy", "gas", "check"} : f # field => cfg'[f] = cfg[f]
         /\ ~spoiled' => /\ ~spoiled /\ asked'[field] = value
                         /\ field # "chat" => asked'.chat = asked.chat
         /\ FileAgrees' /\ CfgAgrees' /\ ReplyIsTrue'
<1> DEFINE Fields == {"chat", "autoBuy", "gas", "check"}
<1>1. /\ cfg' = [cfg EXCEPT ![field] = value] /\ cfg' \in Config
      /\ acked \in Config /\ TypeOK /\ proc = "up" /\ proc' = "up" /\ replying' = field
  BY DEF Set, SettingsInv, TypeOK, Listening
<1>2. /\ file' \in Config /\ exists' \in BOOLEAN /\ parses' \in BOOLEAN
      /\ spoiled' \in BOOLEAN /\ asked' \in Config /\ acked' \in Config
      /\ ~spoiled' => /\ ~spoiled /\ file' = cfg' /\ exists'
                      /\ asked' = [asked EXCEPT ![field] = value] /\ acked' = acked
  <2>1. PICK c \in Config : c = cfg'
    BY <1>1
  <2>2. (Saved(c) \/ SaveFails(c)) /\ Remember([asked EXCEPT ![field] = value], acked)
    BY <2>1 DEF Set
  <2> QED BY <1>1, <2>1, <2>2, SaveType
<1>3. \A f \in Fields : cfg'[f] = IF f = field THEN value ELSE cfg[f]
  BY <1>1 DEF SettingsInv, TypeOK, Config
<1>4. ~spoiled' => \A f \in Fields : asked'[f] = IF f = field THEN value ELSE asked[f]
  BY <1>2 DEF SettingsInv, TypeOK, Config
<1>5. ASSUME ~spoiled' PROVE
        \A f \in Fields : f = field \/ Known(f) => cfg'[f] \in {acked'[f], asked'[f]}
  BY <1>2, <1>3, <1>4, <1>5 DEF Known
<1>6. CfgAgrees'
  BY <1>1, <1>2, <1>5 DEF SettingsInv, CfgAgrees, Known, SameEnv
<1>7. FileAgrees'
  BY <1>1, <1>2, <1>5 DEF SettingsInv, CfgAgrees, FileAgrees, Told, SameEnv
<1>8. ReplyIsTrue'
  BY <1>1, <1>2, <1>3, <1>4 DEF ReplyIsTrue
<1> QED BY <1>1, <1>2, <1>3, <1>4, <1>6, <1>7, <1>8

LEMMA SettingsStep == SettingsInv /\ [Next]_vars => SettingsInv'
<1> SUFFICES ASSUME SettingsInv, [Next]_vars PROVE SettingsInv'
  OBVIOUS
<1> USE DEF SettingsInv
<1>1. ASSUME SameEnv, LoadFile PROVE SettingsInv'
  <2> USE <1>1 DEF SameEnv, runtime, history, disk, LoadFile
  <2>1. /\ cfg' \in Config
        /\ cfg'.autoBuy = file.autoBuy /\ cfg'.gas = file.gas
        /\ cfg'.chat = IF env.chat = Unset THEN file.chat ELSE env.chat
        /\ cfg'.check = IF env.check = "unset" THEN file.check ELSE env.check = "on"
    BY OverriddenType DEF TypeOK
  <2>2. TypeOK'
    BY <2>1 DEF TypeOK, Phases
  <2>3. FileAgrees' /\ CfgAgrees'
    BY <2>1 DEF FileAgrees, CfgAgrees, Known, Told
  <2>4. AutoBuyArmed' /\ ReplyIsTrue' /\ CopiesInUse'
    BY <2>1 DEF AutoBuyArmed, ReplyIsTrue, CopiesInUse, Up
  <2> QED BY <2>2, <2>3, <2>4
<1>2. ASSUME SameEnv, CreateFile \/ CreateFileFails \/ (NoteTime /\ ~exists) PROVE SettingsInv'
  <2> USE <1>2 DEF SameEnv, runtime
  <2>1. /\ Saved(Default) \/ SaveFails(Default)
        /\ Remember(asked, acked)
        /\ proc' \in {"loading", "tokenless", "waiting", "blind"}
        /\ cfg' \in Config /\ ~exists
        /\ UNCHANGED <<changed, runtime>>
    BY DefaultType DEF CreateFile, CreateFileFails, NoteTime, TypeOK
  <2>2. /\ file' \in Config /\ exists' \in BOOLEAN /\ parses' \in BOOLEAN
        /\ spoiled' \in BOOLEAN /\ asked' \in Config /\ acked' \in Config
        /\ ~spoiled' => /\ ~spoiled /\ file' = Default /\ exists'
                        /\ asked' = asked /\ acked' = acked
    BY <2>1, DefaultType, SaveType DEF TypeOK
  <2>3. TypeOK'
    BY <2>1, <2>2 DEF TypeOK, Phases
  <2>4. FileAgrees'
    BY <2>2, <2>1 DEF FileAgrees, Told
  <2>5. AutoBuyArmed' /\ CfgAgrees' /\ ReplyIsTrue' /\ CopiesInUse'
    BY <2>1 DEF AutoBuyArmed, CfgAgrees, ReplyIsTrue, CopiesInUse, Up
  <2> QED BY <2>3, <2>4, <2>5
<1>3. ASSUME SameEnv, (NoteTime /\ exists) \/ Wake \/ CreateFails \/ Panic \/ End \/ Restart
      PROVE SettingsInv'
  <2> USE <1>3 DEF SameEnv, disk, runtime, history
  <2>1. /\ proc' \in {"down", "loading", "waiting"}
        /\ UNCHANGED <<file, exists, parses, spoiled>> /\ changed' \in BOOLEAN
        /\ cfg' \in Config /\ asked' \in Config /\ acked' \in Config
        /\ ~spoiled => asked' = asked /\ acked' = acked
    <3>1. CASE NoteTime /\ exists
      <4>1. UNCHANGED <<file, exists, parses, spoiled, changed, cfg>> /\ Remember(asked, acked)
        BY <3>1 DEF NoteTime
      <4>2. proc' = "waiting"
        BY <3>1, <4>1 DEF NoteTime
      <4> QED BY <4>1, <4>2, DefaultType DEF Remember, TypeOK
    <3>2. CASE Wake \/ CreateFails \/ Restart
      BY <3>2 DEF Wake, CreateFails, Restart, TypeOK
    <3>3. CASE Panic \/ End
      BY <3>3, DefaultType DEF Panic, End, MemoryLost, TypeOK
    <3> QED BY <3>1, <3>2, <3>3
  <2>2. UNCHANGED runtime \/ MemoryLost
    BY DEF NoteTime, Wake, CreateFails, Panic, End, Restart
  <2>3. TypeOK'
    BY <2>1, <2>2 DEF TypeOK, Phases, MemoryLost
  <2>4. FileAgrees'
    BY <2>1 DEF FileAgrees, Told
  <2>5. AutoBuyArmed' /\ CfgAgrees' /\ ReplyIsTrue' /\ CopiesInUse'
    BY <2>1 DEF AutoBuyArmed, CfgAgrees, ReplyIsTrue, CopiesInUse, Up
  <2> QED BY <2>3, <2>4, <2>5
<1>4. ASSUME SameEnv, Create PROVE SettingsInv'
  <2> USE <1>4 DEF SameEnv, disk, history, Create
  <2>1. TypeOK'
    <3>1. /\ cfg.check \in BOOLEAN /\ cfg.autoBuy \in BOOLEAN
          /\ cfg.chat \in Chats \cup {0} /\ Parsed(cfg.gas) \in Numbers \cup {NoLimit}
      BY SettingsAssumption DEF TypeOK, Config, Parsed
    <3> QED BY <3>1 DEF TypeOK, Phases
  <2>2. FileAgrees' /\ CfgAgrees'
    BY DEF FileAgrees, CfgAgrees, Told, Known
  <2>3. AutoBuyArmed' /\ ReplyIsTrue' /\ CopiesInUse'
    BY DEF AutoBuyArmed, ReplyIsTrue, CopiesInUse, Up
  <2> QED BY <2>1, <2>2, <2>3
<1>5. ASSUME SameEnv, StartSession \/ StopSession PROVE SettingsInv'
  <2> USE <1>5 DEF SameEnv, history, disk, StartSession, StopSession, ArmAutoBuy
  <2>1. TypeOK'
    <3>1. Parsed(cfg.gas) \in Numbers \cup {NoLimit} /\ cfg.autoBuy \in BOOLEAN
      BY SettingsAssumption DEF TypeOK, Config, Parsed
    <3> QED BY <3>1 DEF TypeOK
  <2>2. AutoBuyArmed'
    BY DEF AutoBuyArmed, Up
  <2>3. FileAgrees' /\ CfgAgrees'
    BY DEF FileAgrees, CfgAgrees, Told, Known
  <2>4. ReplyIsTrue' /\ CopiesInUse'
    BY DEF ReplyIsTrue, CopiesInUse
  <2> QED BY <2>1, <2>2, <2>3, <2>4
<1>6. ASSUME SameEnv, Reply PROVE SettingsInv'
  <2> USE <1>6 DEF SameEnv, disk, Reply
  <2>1. PICK f \in {"chat", "check", "autoBuy", "gas"} : f = replying
    BY DEF TypeOK
  <2>2. /\ acked' \in Config /\ asked' \in Config
        /\ ~spoiled => asked' = asked /\ acked' = [acked EXCEPT ![f] = asked[f]]
    BY <2>1, DefaultType DEF Remember, TypeOK, Config
  <2>3. TypeOK'
    BY <2>2 DEF TypeOK
  <2>4. AutoBuyArmed' /\ ReplyIsTrue'
    BY DEF AutoBuyArmed, ReplyIsTrue, Up
  <2>5. CopiesInUse'
    BY <2>2 DEF CopiesInUse
  <2>6. ASSUME ~spoiled
        PROVE  /\ cfg[f] = asked[f] /\ file[f] = asked[f]
               /\ acked'[f] = asked[f]
               /\ \A g \in {"chat", "check", "autoBuy", "gas"} : g # f => acked'[g] = acked[g]
    BY <2>1, <2>2, <2>6 DEF ReplyIsTrue, TypeOK, Config
  <2>7. CfgAgrees'
    BY <2>2, <2>6 DEF CfgAgrees, Known
  <2>8. FileAgrees'
    <3>1. ~spoiled /\ ~exists => acked' = acked
      BY <2>1, <2>2, <2>6 DEF FileAgrees, TypeOK, Config
    <3> QED BY <3>1, <2>2, <2>6 DEF FileAgrees, Told
  <2> QED BY <2>3, <2>4, <2>5, <2>7, <2>8
<1>7. ASSUME SameEnv, NEW b \in BOOLEAN, b => executor,
             Set("autoBuy", b), autoBuy' = b, UNCHANGED <<checkOn, maxGas, allowed>>
      PROVE SettingsInv'
  <2>1. [cfg EXCEPT !["autoBuy"] = b] \in Config /\ [asked EXCEPT !["autoBuy"] = b] \in Config
    BY DEF TypeOK, Config
  <2>2. FileAgrees' /\ CfgAgrees' /\ ReplyIsTrue'
    BY <1>7, <2>1, SetKeeps
  <2>3. TypeOK'
    BY <1>7, <2>1, SetKeeps DEF TypeOK, Set, SameEnv
  <2>4. AutoBuyArmed' /\ CopiesInUse'
    BY <1>7, <2>1, SetKeeps DEF AutoBuyArmed, CopiesInUse, Up, Set, SameEnv
  <2> QED BY <2>2, <2>3, <2>4
<1>8. ASSUME SameEnv, NEW text \in GasTexts, SetGas(text) PROVE SettingsInv'
  <2>1. [cfg EXCEPT !["gas"] = text] \in Config /\ [asked EXCEPT !["gas"] = text] \in Config
    BY DEF TypeOK, Config
  <2>2. FileAgrees' /\ CfgAgrees' /\ ReplyIsTrue'
    BY <1>8, <2>1, SetKeeps DEF SetGas
  <2>3. TypeOK'
    BY <1>8, <2>1, SetKeeps DEF TypeOK, Set, SameEnv, SetGas
  <2>4. AutoBuyArmed' /\ CopiesInUse'
    BY <1>8, <2>1, SetKeeps DEF AutoBuyArmed, CopiesInUse, Up, Set, SameEnv, SetGas
  <2> QED BY <2>2, <2>3, <2>4
<1>9. ASSUME SameEnv, Safety PROVE SettingsInv'
  <2>1. [cfg EXCEPT !["check"] = ~cfg.check] \in Config /\ [asked EXCEPT !["check"] = ~cfg.check] \in Config
    BY DEF TypeOK, Config
  <2>2. FileAgrees' /\ CfgAgrees' /\ ReplyIsTrue'
    BY <1>9, <2>1, SetKeeps DEF Safety
  <2>3. TypeOK'
    BY <1>9, <2>1, SetKeeps DEF TypeOK, Set, SameEnv, Safety
  <2>4. AutoBuyArmed' /\ CopiesInUse'
    BY <1>9, <2>1, SetKeeps DEF AutoBuyArmed, CopiesInUse, Up, Set, SameEnv, Safety
  <2> QED BY <2>2, <2>3, <2>4
<1>10. ASSUME SameEnv, NEW id \in Chats, SetChat(id) PROVE SettingsInv'
  <2>1. [cfg EXCEPT !["chat"] = id] \in Config /\ [asked EXCEPT !["chat"] = id] \in Config
    BY DEF TypeOK, Config
  <2>2. FileAgrees' /\ CfgAgrees' /\ ReplyIsTrue'
    BY <1>10, <2>1, SetKeeps DEF SetChat
  <2>3. TypeOK'
    BY <1>10, <2>1, SetKeeps DEF TypeOK, Set, SameEnv, SetChat
  <2>4. AutoBuyArmed' /\ CopiesInUse'
    BY <1>10, <2>1, SetKeeps DEF AutoBuyArmed, CopiesInUse, Up, Set, SameEnv, SetChat
  <2> QED BY <2>2, <2>3, <2>4
<1>11. ASSUME SameEnv, Edit \/ Break PROVE SettingsInv'
  <2> USE <1>11 DEF SameEnv, runtime, history
  <2>1. file' \in Config /\ \A g \in {"chat", "autoBuy", "gas", "check"} : file'[g] = file[g]
    <3>1. CASE Edit
      <4>1. PICK t, k \in BOOLEAN : file' = [file EXCEPT !.token = t, !.key = k]
        BY <3>1 DEF Edit
      <4> QED BY <4>1 DEF TypeOK, Config
    <3> QED BY <3>1 DEF Break, TypeOK
  <2>2. TypeOK'
    BY <2>1 DEF Edit, Break, TypeOK
  <2>3. /\ UNCHANGED <<cfg, proc, replying, allowed, checkOn, autoBuy, running, executor>>
        /\ UNCHANGED <<asked, acked, spoiled>>
    BY DEF Edit, Break
  <2>4. AutoBuyArmed' /\ CfgAgrees' /\ ReplyIsTrue' /\ CopiesInUse'
    BY <2>1, <2>3 DEF AutoBuyArmed, CfgAgrees, Known, ReplyIsTrue, CopiesInUse, Up
  <2>5. FileAgrees'
    <3>1. ~exists => \A f \in {"chat", "autoBuy", "gas", "check"} :
                       ~spoiled => file'[f] = asked[f]
      BY <2>1 DEF FileAgrees
    <3>2. exists'
      BY DEF Edit, Break, TypeOK
    <3> QED BY <2>1, <2>3, <3>1, <3>2 DEF FileAgrees, Told
  <2> QED BY <2>2, <2>4, <2>5
<1>12. ASSUME SameEnv, Remove PROVE SettingsInv'
  <2> USE <1>12 DEF SameEnv, runtime, Remove, Remember
  <2>1. TypeOK'
    BY DefaultType DEF TypeOK
  <2>2. AutoBuyArmed' /\ CfgAgrees' /\ ReplyIsTrue' /\ CopiesInUse' /\ FileAgrees'
    BY DEF AutoBuyArmed, CfgAgrees, ReplyIsTrue, CopiesInUse, FileAgrees, Up
  <2> QED BY <2>1, <2>2
<1>13. CASE UNCHANGED vars
  BY <1>13 DEF vars, disk, runtime, history, TypeOK, AutoBuyArmed, CfgAgrees, ReplyIsTrue,
     CopiesInUse, FileAgrees, Told, Known, Up
<1>14. ASSUME SameEnv, AutoBuyOn \/ AutoBuyOff PROVE SettingsInv'
  BY <1>7, <1>14 DEF AutoBuyOn, AutoBuyOff
<1>15. ASSUME SameEnv, StartUp PROVE SettingsInv'
  BY <1>1, <1>2, <1>3, <1>4, <1>15 DEF StartUp
<1>16. ASSUME SameEnv, Command PROVE SettingsInv'
  BY <1>5, <1>6, <1>8, <1>9, <1>10, <1>14, <1>16 DEF Command
<1> QED
  BY <1>2, <1>3, <1>11, <1>12, <1>13, <1>15, <1>16 DEF Next, User

LEMMA SettingsInvariant == Spec => []SettingsInv
BY SettingsInit, SettingsStep, PTL DEF Spec

\* The state has its type: whatever file is loaded and whatever text a command
\* is given, the config holds values of its fields.
THEOREM TypeCorrect == Spec => []TypeOK
<1>1. SettingsInv => TypeOK
  BY DEF SettingsInv
<1> QED BY SettingsInvariant, <1>1, PTL

\* Auto-buy is armed exactly when the config says so and there is a wallet.
THEOREM ArmedAsConfigured == Spec => []AutoBuyArmed
<1>1. SettingsInv => AutoBuyArmed
  BY DEF SettingsInv
<1> QED BY SettingsInvariant, <1>1, PTL

\* What a reply has stated holds after any number of restarts, whatever settings
\* the file, the environment and the commands bring together.
THEOREM SettingsSurvive == Spec => []RestartKeeps
<1>1. SettingsInv => RestartKeeps
  BY DEF SettingsInv, CfgAgrees, CopiesInUse, Known, RestartKeeps, Up
<1> QED BY SettingsInvariant, <1>1, PTL
=============================================================================
