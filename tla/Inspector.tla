----------------------------- MODULE Inspector ------------------------------
(***************************************************************************)
(* muduo/net/inspect/Inspector.cc: the main thread constructs the          *)
(* Inspector and registers and removes commands; the loop of the HTTP      *)
(* server looks commands up and calls them, with mutex_ held.              *)
(* A path is the sequence of the parts between its slashes.                *)
(***************************************************************************)
EXTENDS Integers, Sequences, FiniteSets

CONSTANTS BuiltIn,   \* <<module, command>>: registerCommands()
          Others,    \* added and removed while the server runs
          Paths,     \* req.path()
          MaxCalls   \* bound on add() and remove()

VARIABLES modules_, helps_,   \* module -> its commands
          mutex_,             \* "free", "main" or "loop"
          mpc, mcall, toRegister, calls,   \* the main thread
          timers, started,                 \* the loop: start() pending, listening
          rpc, path, body, status

main == <<mpc, mcall, toRegister, calls>>
loop == <<timers, started, rpc, path, body, status>>
vars == <<modules_, helps_, mutex_, main, loop>>

Modules == {c[1] : c \in BuiltIn \cup Others}
Insert(f, c) == [m \in DOMAIN f \cup {c[1]} |->
                   (IF m \in DOMAIN f THEN f[m] ELSE {}) \cup (IF m = c[1] THEN {c[2]} ELSE {})]
Erase(f, c) == [f EXCEPT ![c[1]] = @ \ {c[2]}]
Listed(f) == UNION {{<<m, c>> : c \in f[m]} : m \in DOMAIN f}

(* split(): empty parts are dropped. *)
split(p) == SelectSeq(p, LAMBDA part : part # "")

Init ==
  /\ modules_ = <<>> /\ helps_ = <<>> /\ mutex_ = "free"
  /\ mpc = "construct" /\ mcall = <<>> /\ toRegister = BuiltIn /\ calls = 0
  /\ timers = 0 /\ started = FALSE /\ rpc = "idle" /\ path = <<>> /\ body = {} /\ status = 0

-----------------------------------------------------------------------------
registerCommands ==
  /\ mpc = "construct" /\ toRegister # {}
  /\ \E c \in toRegister : mcall' = <<"add", c>> /\ toRegister' = toRegister \ {c}
  /\ mpc' = "lock"
  /\ UNCHANGED <<modules_, helps_, mutex_, calls, loop>>

(* The last statement of the constructor: loop->runAfter(0, start). *)
Constructed ==
  /\ mpc = "construct" /\ toRegister = {}
  /\ timers' = 1 /\ mpc' = "run"
  /\ UNCHANGED <<modules_, helps_, mutex_, mcall, toRegister, calls,
                 started, rpc, path, body, status>>

Call(op, c) ==
  /\ mpc = "run" /\ calls < MaxCalls
  /\ calls' = calls + 1 /\ mcall' = <<op, c>> /\ mpc' = "lock"
  /\ UNCHANGED <<modules_, helps_, mutex_, toRegister, loop>>

Lock ==
  /\ mpc = "lock" /\ mutex_ = "free" /\ mutex_' = "main" /\ mpc' = mcall[1]
  /\ UNCHANGED <<modules_, helps_, mcall, toRegister, calls, loop>>

add ==
  /\ mpc = "add" /\ modules_' = Insert(modules_, mcall[2]) /\ mpc' = "help"
  /\ UNCHANGED <<helps_, mutex_, mcall, toRegister, calls, loop>>

remove ==
  /\ mpc = "remove"
  /\ IF mcall[2][1] \in DOMAIN modules_
     THEN modules_' = Erase(modules_, mcall[2]) /\ mpc' = "help"
     ELSE UNCHANGED modules_ /\ mpc' = "unlock"
  /\ UNCHANGED <<helps_, mutex_, mcall, toRegister, calls, loop>>

help ==
  /\ mpc = "help" /\ mpc' = "unlock"
  /\ helps_' = IF mcall[1] = "add" THEN Insert(helps_, mcall[2]) ELSE Erase(helps_, mcall[2])
  /\ UNCHANGED <<modules_, mutex_, mcall, toRegister, calls, loop>>

Unlock ==
  /\ mpc = "unlock" /\ mutex_' = "free"
  /\ mpc' = (IF timers = 0 /\ ~started THEN "construct" ELSE "run")
  /\ UNCHANGED <<modules_, helps_, mcall, toRegister, calls, loop>>

-----------------------------------------------------------------------------
start ==
  /\ timers = 1 /\ timers' = 0 /\ started' = TRUE
  /\ UNCHANGED <<modules_, helps_, mutex_, main, rpc, path, body, status>>

(* onRequest() up to the lock, which "/favicon.ico" and paths of less than *)
(* two parts do not take.                                                  *)
onRequest(p) ==
  /\ started /\ rpc \in {"idle", "done"}
  /\ path' = p /\ body' = {}
  /\ \/ /\ p = <<"", "">> \/ Len(split(p)) >= 2
        /\ rpc' = "lock" /\ status' = 0
     \/ /\ p # <<"", "">> /\ Len(split(p)) < 2
        /\ rpc' = "done"
        /\ status' = IF split(p) = <<"favicon.ico">> THEN 200 ELSE 404
  /\ UNCHANGED <<modules_, helps_, mutex_, main, timers, started>>

RequestLock ==
  /\ rpc = "lock" /\ mutex_ = "free" /\ mutex_' = "loop"
  /\ rpc' = IF path = <<"", "">> THEN "page" ELSE "find"
  /\ UNCHANGED <<modules_, helps_, main, timers, started, path, body, status>>

Page ==
  /\ rpc = "page" /\ mutex_' = "free"
  /\ body' = Listed(helps_) /\ status' = 200 /\ rpc' = "done"
  /\ UNCHANGED <<modules_, helps_, main, timers, started, path>>

Find ==
  /\ rpc = "find"
  /\ LET result == split(path)
     IN  IF result[1] \in DOMAIN modules_ /\ result[2] \in modules_[result[1]]
         THEN rpc' = "callback" /\ UNCHANGED <<mutex_, status>>
         ELSE rpc' = "done" /\ mutex_' = "free" /\ status' = 404
  /\ UNCHANGED <<modules_, helps_, main, timers, started, path, body>>

Callback ==
  /\ rpc = "callback" /\ rpc' = "done" /\ status' = 200 /\ mutex_' = "free"
  /\ body' = {<<split(path)[1], split(path)[2]>>}
  /\ UNCHANGED <<modules_, helps_, main, timers, started, path>>

Next == \/ registerCommands \/ Constructed \/ Lock \/ add \/ remove \/ help \/ Unlock
        \/ \E c \in Others, op \in {"add", "remove"} : Call(op, c)
        \/ start \/ RequestLock \/ Page \/ Find \/ Callback
        \/ \E p \in Paths : onRequest(p)

Spec == Init /\ [][Next]_vars

-----------------------------------------------------------------------------
TypeOK == /\ DOMAIN modules_ \subseteq Modules /\ DOMAIN helps_ \subseteq Modules
          /\ mutex_ \in {"free", "main", "loop"} /\ status \in {0, 200, 404}

(* The help page and the commands agree whenever mutex_ is free or a       *)
(* request holds it, and a command is registered as long as it runs.       *)
HelpsAgree ==
  /\ mutex_ # "main" => Listed(helps_) = Listed(modules_)
  /\ rpc = "callback" => <<split(path)[1], split(path)[2]>> \in Listed(modules_)

(* A command that the constructor registers is found by every request, the *)
(* first one included: start() is queued behind the registrations.  It is  *)
(* on every help page too.                                                 *)
BuiltInFound ==
  rpc = "done" =>
    LET result == split(path)
    IN  /\ Len(result) >= 2 /\ <<result[1], result[2]>> \in BuiltIn => status = 200
        /\ path = <<"", "">> => BuiltIn \subseteq body
=============================================================================
