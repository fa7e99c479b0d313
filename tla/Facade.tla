------------------------------- MODULE Facade -------------------------------
(***************************************************************************)
(* What kv8log does in an instrumented process before a call reaches the   *)
(* runtime library: threads make the first calls of counters, feeds and    *)
(* log macros in any order, and on the way the library is loaded once, the *)
(* configuration resolved once, each channel opened once and each counter  *)
(* registered once. The three call_once nest: a counter's around its       *)
(* channel's around that of the library. Configure takes no lock.          *)
(* A handle stands for the settings its session was opened with.           *)
(***************************************************************************)
EXTENDS Integers, FiniteSets

CONSTANTS
  Threads,
  Channels, DefaultChannel,
  Counters,     \* objects of class Counter and UdtFeed
  Feeds,        \* those of class UdtFeed
  ChannelOf,    \* [Counters -> Channels]
  NoHandle,     \* nullptr
  Starts,       \* the settings given in the command line and in the environment
  MaxCalls,     \* bound: calls of all threads
  MaxFailures   \* bound: sessions not opened, counters not registered

VARIABLES
  lib,          \* what OpenLib finds: "absent" (or disabled, or without the symbols), "old" or "full"
  args, env,    \* the settings given in the command line; in the environment
  config, given, \* State::config, config_overridden
  init, vtable, \* State::init_once, State::vtable
  chOnce, handle, \* Channel::m_once, m_handle
  regOnce, cached, \* m_reg_once, m_cached_handle of a counter
  site,         \* s_kv8_site_ of a log macro: "none", "sentinel" or "hash"
  pc, call, got, \* by thread: where it is, its call, the brokers it has read
  calls,        \* how many calls there were (bound)
  passed,         \* history, by thread: whether the runtime got its last call
  early,        \* history: Configure was over before the library was first used
  failures      \* history (bound)

procVars == <<lib, args, env, failures>>
confVars == <<config, given, early>>
onceVars == <<init, vtable, chOnce, handle, regOnce, cached>>
threadVars == <<pc, call, got, calls, passed>>
vars == <<procVars, confVars, onceVars, site, threadVars>>

Settings == {"brokers", "user"}

\* call_once: "new", the thread that runs it, or "done"
Once == {"new", "done"} \cup Threads

Init ==
  /\ lib \in {"absent", "old", "full"}
  /\ \E s \in Starts : args = s[1] /\ env = s[2]
  /\ config = [f \in Settings |-> "default"] /\ given = FALSE /\ early = FALSE
  /\ init = "new" /\ vtable = "none"
  /\ chOnce = [c \in Channels |-> "new"] /\ handle = [c \in Channels |-> NoHandle]
  /\ regOnce = [c \in Counters |-> "new"] /\ cached = [c \in Counters |-> NoHandle]
  /\ site = "none"
  /\ pc = [t \in Threads |-> "idle"] /\ call = [t \in Threads |-> [op |-> "none", obj |-> "none"]]
  /\ got = [t \in Threads |-> "default"] /\ calls = 0
  /\ passed = [t \in Threads |-> FALSE] /\ failures = 0

-----------------------------------------------------------------------------
(* Helpers.                                                                *)

Goto(t, at, to) == pc[t] = at /\ pc' = [pc EXCEPT ![t] = to]

\* the channel a call goes through: that of its counter, or the default one
Chan(t) == IF call[t].obj \in Counters THEN ChannelOf[call[t].obj] ELSE DefaultChannel

\* optional symbols are null in an older library
Supported(op) == vtable = "full" \/ (vtable = "old" /\ op \in {"add", "flush"})

\* the function a feed needs is an optional one
Registers(c) == vtable = "full" \/ (vtable = "old" /\ c \notin Feeds)

Return(t, at, reached) ==
  /\ Goto(t, at, "idle")
  /\ passed' = [passed EXCEPT ![t] = reached]

\* ParseConfigFromArgvEnv: the environment is read after the command line
Resolved(f) == IF f \in env THEN "env" ELSE IF f \in args THEN "args" ELSE config[f]

-----------------------------------------------------------------------------
(* The calls of the program.                                               *)

Call(t, op, c) ==
  /\ calls < MaxCalls
  /\ op \in {"add", "enable"} <=> c \in Counters
  /\ Goto(t, "idle", IF c \in Counters THEN "counter" ELSE "fn")
  /\ call' = [call EXCEPT ![t] = [op |-> op, obj |-> c]]
  /\ calls' = calls + 1
  /\ UNCHANGED <<procVars, confVars, onceVars, site, got, passed>>

\* Runtime::Configure, once; user and password may be left out
ConfigureBrokers(t) ==
  /\ ~given /\ config["brokers"] # "given" /\ \A u \in Threads : pc[u] # "configure"
  /\ Goto(t, "idle", "configure")
  /\ config' = [config EXCEPT !["brokers"] = "given"]
  /\ UNCHANGED <<procVars, given, early, onceVars, site, call, got, calls, passed>>

ConfigureUser(t) ==
  /\ Goto(t, "configure", "idle")
  /\ config' \in {config, [config EXCEPT !["user"] = "given"]}
  /\ given' = TRUE /\ early' = (init = "new")
  /\ UNCHANGED <<procVars, onceVars, site, call, got, calls, passed>>

-----------------------------------------------------------------------------
(* Runtime::Fn: InitOnce under its call_once.                              *)

\* the configuration, unless Configure was called; then the library, with all its symbols or none.
\* Whoever finds the flag taken waits, so the function is one step.
InitOnce(t) ==
  /\ init = "new"
  /\ Goto(t, "fn", "fn")
  /\ config' = IF given THEN config ELSE [f \in Settings |-> Resolved(f)]
  /\ vtable' = IF lib \in {"old", "full"} THEN lib ELSE "none"
  /\ init' = "done"
  /\ UNCHANGED <<procVars, given, early, chOnce, handle, regOnce, cached, site, call, got, calls, passed>>

\* back in Channel::Handle with the functions; or on with a flush, or a log call
Fn(t) ==
  /\ init = "done"
  /\ IF chOnce[Chan(t)] = t THEN vtable # "none" /\ Goto(t, "fn", "open")
     ELSE Supported(call[t].op) /\ Goto(t, "fn", "channel")
  /\ UNCHANGED <<procVars, confVars, onceVars, site, call, got, calls, passed>>

\* "runtime absent -- stay nullptr"
NoRuntime(t) ==
  /\ init = "done" /\ vtable = "none" /\ chOnce[Chan(t)] = t
  /\ Goto(t, "fn", "channel")
  /\ chOnce' = [chOnce EXCEPT ![Chan(t)] = "done"]
  /\ UNCHANGED <<procVars, confVars, init, vtable, handle, regOnce, cached, site, call, got, calls, passed>>

-----------------------------------------------------------------------------
(* Channel::Handle.                                                        *)

AfterHandle(t) ==
  IF call[t].obj \in Counters THEN "register"
  ELSE IF call[t].op = "log" /\ site = "none" THEN "newsite" ELSE "body"

\* a plausible bug: a flag set before the work, in place of call_once
HandleUnlocked(t) ==
  LET ch == Chan(t) IN
  /\ Goto(t, "channel", IF chOnce[ch] = "new" THEN "fn" ELSE AfterHandle(t))
  /\ chOnce' = [chOnce EXCEPT ![ch] = IF @ = "new" THEN t ELSE @]
  /\ UNCHANGED <<procVars, confVars, init, vtable, handle, regOnce, cached, site, call, got, calls, passed>>

Handle(t) ==
  LET ch == Chan(t) IN
  /\ chOnce[ch] \in {"new", "done"}
  /\ Goto(t, "channel", IF chOnce[ch] = "new" THEN "fn" ELSE AfterHandle(t))
  /\ chOnce' = [chOnce EXCEPT ![ch] = IF @ = "new" THEN t ELSE @]
  /\ UNCHANGED <<procVars, confVars, init, vtable, handle, regOnce, cached, site, call, got, calls, passed>>

\* RuntimeBrokers, before RuntimeUser
ReadBrokers(t) ==
  /\ Goto(t, "open", "open_user")
  /\ got' = [got EXCEPT ![t] = config["brokers"]]
  /\ UNCHANGED <<procVars, confVars, onceVars, site, call, calls, passed>>

\* kv8log_open gives a session, or none
OpenSession(t) ==
  /\ Goto(t, "open_user", "channel")
  /\ chOnce' = [chOnce EXCEPT ![Chan(t)] = "done"]
  /\ \/ /\ handle' = [handle EXCEPT ![Chan(t)] = [brokers |-> got[t], user |-> config["user"]]]
        /\ UNCHANGED failures
     \/ /\ failures < MaxFailures
        /\ failures' = failures + 1
        /\ UNCHANGED handle
  /\ got' = [got EXCEPT ![t] = "default"]
  /\ UNCHANGED <<lib, args, env, confVars, init, vtable, regOnce, cached, site, call, calls, passed>>

-----------------------------------------------------------------------------
(* Counter and UdtFeed.                                                    *)

EnsureRegistered(t) ==
  LET c == call[t].obj IN
  /\ Goto(t, "counter", IF regOnce[c] = "new" THEN "channel" ELSE "body")
  /\ regOnce[c] \in {"new", "done"}
  /\ regOnce' = [regOnce EXCEPT ![c] = IF @ = "new" THEN t ELSE @]
  /\ UNCHANGED <<procVars, confVars, init, vtable, chOnce, handle, cached, site, call, got, calls, passed>>

\* with a handle, and the function in the library: the runtime accepts the counter or not
Register(t) ==
  LET c == call[t].obj  h == handle[Chan(t)] IN
  /\ Goto(t, "register", "body")
  /\ regOnce' = [regOnce EXCEPT ![c] = "done"]
  /\ \/ /\ cached' = IF Registers(c) THEN [cached EXCEPT ![c] = h] ELSE cached
        /\ UNCHANGED failures
     \/ /\ h # NoHandle /\ Registers(c) /\ failures < MaxFailures
        /\ failures' = failures + 1
        /\ UNCHANGED cached
  /\ UNCHANGED <<lib, args, env, confVars, init, vtable, chOnce, handle, site, call, got, calls, passed>>

-----------------------------------------------------------------------------
(* The log macros, and the ends of the calls. A thread that found the      *)
(* static empty stores what another has stored meanwhile.                  *)

\* no function for the call: it is over, and a macro keeps the benign 1 for good
Unsupported(t) ==
  /\ init = "done" /\ chOnce[Chan(t)] # t /\ ~Supported(call[t].op)
  /\ Return(t, "fn", FALSE)
  /\ site' = IF call[t].op = "log" /\ site = "none" THEN "sentinel" ELSE site
  /\ UNCHANGED <<procVars, confVars, onceVars, call, got, calls>>

\* with a session the runtime hashes the call site, without one it is the 1
RegisterLogSite(t) ==
  /\ Goto(t, "newsite", "body")
  /\ site' = IF handle[DefaultChannel] = NoHandle THEN "sentinel" ELSE "hash"
  /\ UNCHANGED <<procVars, confVars, onceVars, call, got, calls, passed>>

Usable(c, op) ==
  Supported(op) /\ (IF c \in Counters THEN cached[c] ELSE handle[DefaultChannel]) # NoHandle

\* the runtime is called with the handle, or the call is over without it
Body(t) ==
  /\ Return(t, "body", Usable(call[t].obj, call[t].op))
  /\ UNCHANGED <<procVars, confVars, onceVars, site, call, got, calls>>

-----------------------------------------------------------------------------
Step(t) ==
  \/ ConfigureUser(t)
  \/ InitOnce(t) \/ Fn(t) \/ NoRuntime(t) \/ Unsupported(t)
  \/ Handle(t) \/ ReadBrokers(t) \/ OpenSession(t)
  \/ EnsureRegistered(t) \/ Register(t) \/ RegisterLogSite(t) \/ Body(t)

Next ==
  \E t \in Threads :
    \/ \E op \in {"add", "enable", "log", "flush"}, c \in Counters \cup {"none"} : Call(t, op, c)
    \/ ConfigureBrokers(t)
    \/ Step(t)

Spec == Init /\ [][Next]_vars

-----------------------------------------------------------------------------
(* Properties.                                                             *)

\* Types; a flag is held by a thread inside the function it guards.
TypeOK ==
  /\ config \in [Settings -> {"default", "args", "env", "given"}] /\ given \in BOOLEAN /\ early \in BOOLEAN
  /\ init \in {"new", "done"} /\ vtable \in {"none", "old", "full"}
  /\ chOnce \in [Channels -> Once] /\ regOnce \in [Counters -> Once]
  /\ site \in {"none", "sentinel", "hash"}
  /\ calls \in 0 .. MaxCalls
  /\ \A t \in Threads : pc[t] \in {"open", "open_user"} => chOnce[Chan(t)] = t

\* what is done and has not got what was there for it
Refused ==
  {ch \in Channels : chOnce[ch] = "done" /\ vtable # "none" /\ handle[ch] = NoHandle}
  \cup {c \in Counters : /\ regOnce[c] = "done" /\ handle[ChannelOf[c]] # NoHandle
                          /\ Registers(c) /\ cached[c] = NoHandle}

\* However the first calls race, "lazy initialization on the first call
\* (thread-safe)" (Channel.h:24): a call that has returned was passed to the
\* runtime unless the library, the session or the counter is not there at all;
\* a counter uses the session of its channel; and a session or a counter is
\* missing only because the runtime refused it. Every session is opened with
\* what Configure has set, if it was called before the first use; without it,
\* with what was resolved.
FirstUseSettles ==
  /\ \A t \in Threads : pc[t] = "idle" /\ call[t].op # "none" =>
       (passed[t] <=> /\ lib = "full" \/ (lib = "old" /\ call[t].op \in {"add", "flush"})
                    /\ IF call[t].obj \in Counters
                       THEN /\ cached[call[t].obj] # NoHandle
                            /\ cached[call[t].obj] = handle[ChannelOf[call[t].obj]]
                       ELSE handle[DefaultChannel] # NoHandle)
  /\ failures = Cardinality(Refused)
  /\ site = "sentinel" => handle[DefaultChannel] = NoHandle \/ lib # "full"
  /\ \A c \in Channels : handle[c] # NoHandle =>
       /\ early => handle[c].brokers = "given" /\ handle[c].user \in {"given", "default"}
       /\ ~given /\ config["brokers"] # "given" =>
            \A f \in Settings :
              handle[c][f] = IF f \in env THEN "env" ELSE IF f \in args THEN "args" ELSE "default"

\* "Command-line has priority over env." (Runtime.cpp:121): without Configure
\* a setting from the command line is the one in use.
CommandLineFirst ==
  config["brokers"] # "given" =>
    \A c \in Channels, f \in args : handle[c] # NoHandle => handle[c][f] = "args"

=============================================================================
