------------------------------ MODULE Lifecycle ------------------------------
(***************************************************************************)
(* run_transform_lifecycle with the five kinds of transform and the two    *)
(* kinds of environment.  What Scheduler has as one transform that         *)
(* succeeds or not is taken apart here: the container runtime that is      *)
(* asked by commands whose exit status is not always looked at, the files  *)
(* that stage and the commands leave in the workspace, the retry in the    *)
(* same workspace, and the id under which the result is saved.  Tasks of a *)
(* build share the runtime, the host's /root and the source tree, which    *)
(* the user may edit.                                                      *)
(***************************************************************************)
EXTENDS Environment, FiniteSets

CONSTANTS
    Task,
    Name,       \* what the generator of container names may return
    Content,    \* what the source tree may contain
    Dep,        \* the artifact of the dependency
    Modules,    \* the modules of a go-vendor transform, in order
    MaxBuilds, MaxFaults, MaxEdits, MaxRetries,
    None

VARIABLES
    tree,       \* the source tree as it is now
    stored,     \* the contents that source artifacts were saved for
    ready,      \* whether setup_environments is done
    image,      \* whether the farm's tag names an image in the runtime
    container,  \* per name: the task whose workspace its container mounts
    host,       \* the files below /root of the host
    fs,         \* per task: the files of its workspace
    task,       \* per task: its step and its locals
    saved,      \* the artifacts of transforms
    cancelled, builds, faults, edits,
    stuck,      \* history: names whose kill or rm failed
    touched     \* history: which transforms reached outside of their workspace

vars == <<tree, stored, ready, image, container, host, fs, task, saved,
          cancelled, builds, faults, edits, stuck, touched>>
project == <<tree, stored, ready, image, cancelled, builds, edits>>
runtime == <<container, stuck>>
-----------------------------------------------------------------------------
Kinds == {"script", "compose", "import", "cargo", "go"}
Vendors == {"cargo", "go"}

(* staged is the content that stage unpacked, id the one the attempt names;  *)
(* causes is a history variable: what can make the result inexact.         *)
Idle == [pc |-> "idle", kind |-> None, env |-> None, name |-> None, running |-> FALSE,
         staged |-> None, id |-> None, at |-> 1, retries |-> 0, result |-> {}, causes |-> {}]

Init ==
    /\ tree \in Content
    /\ stored = {}
    /\ ready = FALSE
    /\ image \in BOOLEAN
    /\ container = [n \in Name |-> None]
    /\ host = {}
    /\ fs = [t \in Task |-> {}]
    /\ task = [t \in Task |-> Idle]
    /\ saved = {}
    /\ cancelled = FALSE
    /\ builds = 0
    /\ faults = 0
    /\ edits = 0
    /\ stuck = {}
    /\ touched = {}

At(t, step) == task[t].pc = step
Goto(t, step) == task' = [task EXCEPT ![t].pc = step]

(* A call may fail while the bound on faults lasts. *)
Outcome(ok) == (ok \/ faults < MaxFaults) /\ faults' = IF ok THEN faults ELSE faults + 1

(* get_unique_id.  A script's id has the dependency too, which does not      *)
(* change.                                                                 *)
ScriptId == tree
ComposeId == Dep
ImportId == tree
CargoId == tree
GoId == tree
UniqueId(t) ==
    CASE task[t].kind = "script" -> ScriptId
      [] task[t].kind = "compose" -> ComposeId
      [] task[t].kind = "import" -> ImportId
      [] task[t].kind = "cargo" -> CargoId
      [] task[t].kind = "go" -> GoId

(* The task whose workspace the commands of t work in.  It is no task if     *)
(* there is no container of its name, or one with a workspace that is gone. *)
Shell(t) == IF task[t].env = "local" THEN t ELSE container[task[t].name]
-----------------------------------------------------------------------------
(* setup_environments: with the tag already there, whatever it names, the    *)
(* image is not loaded; whether load and tag succeed is not looked at.     *)
SetupFarm(ok) ==
    /\ ~ready
    /\ ready' = TRUE
    /\ Outcome(ok)
    /\ image' = (image \/ ok)
    /\ UNCHANGED <<tree, stored, host, fs, task, saved, cancelled, builds, edits, touched, runtime>>

(* The sources were cached by prepare; create makes the environment and      *)
(* picks a name, setup finds the fresh directory there.                    *)
Start(t, kind, env, name) ==
    /\ ready
    /\ At(t, "idle")
    /\ builds < MaxBuilds
    /\ ~cancelled
    /\ builds' = builds + 1
    /\ stored' = stored \cup {tree}
    /\ task' = [task EXCEPT ![t] = [Idle EXCEPT !.pc = "up", !.kind = kind, !.env = env,
                                                 !.name = IF env = "container" THEN name ELSE None]]
    /\ UNCHANGED <<tree, ready, image, host, fs, saved, cancelled, faults, edits, touched, runtime>>

(* Faulty variant: every environment counts as running. *)
UpRunning(t) ==
    /\ At(t, "up")
    /\ task[t].env = "local"
    /\ task' = [task EXCEPT ![t].pc = "stage", ![t].running = TRUE]
    /\ UNCHANGED <<host, fs, saved, faults, touched, project, runtime>>

UpLocal(t) ==
    /\ At(t, "up")
    /\ task[t].env = "local"
    /\ Goto(t, IF cancelled THEN "down" ELSE "stage")
    /\ UNCHANGED <<host, fs, saved, faults, touched, project, runtime>>

(* The exit status of "run" is not looked at: without an image, or with a    *)
(* container of this name there, no container is made and the flag is set   *)
(* all the same.                                                           *)
UpContainer(t, ok) ==
    /\ At(t, "up")
    /\ task[t].env = "container"
    /\ Outcome(ok)
    /\ LET n == task[t].name
           same == {u \in Task : task[u].running /\ task[u].name = n}
           clash == container[n] # None \/ same # {}
           upped == [task EXCEPT ![t].pc = IF cancelled THEN "down" ELSE "stage", ![t].running = TRUE]
       IN /\ task' = [u \in Task |-> IF clash /\ u \in same \cup {t}
                                    THEN [upped[u] EXCEPT !.causes = @ \cup {"clash"}] ELSE upped[u]]
          /\ container' = IF ok /\ image /\ container[n] = None THEN [container EXCEPT ![n] = t] ELSE container
    /\ UNCHANGED <<host, fs, saved, stuck, touched, project>>

(* stage, on the host's side of the workspace.  A source computes its id     *)
(* once more and opens the artifact, which is there only if it was cached. *)
ScriptStage(c) ==
    {<<"build-root">>, <<"install-root">>, <<"build-root", "dep", Dep>>, <<"build-root", "src", c>>}
ComposeStage == {<<"install-root">>, <<"install-root", Dep>>}
ImportStage(c) == {<<"output">>, <<"output", c>>}
CargoStage(c) == {<<c>>, <<c, "Cargo.toml">>}
GoStage(c) == {<<"build-root">>} \cup {<<"build-root", m, "go.mod">> : m \in Range(Modules)}

Staged(kind, c) ==
    CASE kind = "script" -> ScriptStage(c)
      [] kind = "compose" -> ComposeStage
      [] kind = "import" -> ImportStage(c)
      [] kind = "cargo" -> CargoStage(c)
      [] kind = "go" -> GoStage(c)

Stage(t) ==
    /\ At(t, "stage")
    /\ IF UniqueId(t) \in stored \cup {Dep}
       THEN /\ fs' = [fs EXCEPT ![t] = Staged(task[t].kind, tree)]
            /\ task' = [task EXCEPT ![t].pc = IF cancelled THEN "down" ELSE "transform", ![t].staged = UniqueId(t)]
       ELSE Goto(t, "down") /\ UNCHANGED fs
    /\ UNCHANGED <<host, saved, faults, touched, project, runtime>>
-----------------------------------------------------------------------------
FirstStep(kind) == CASE kind = "script" -> "script" [] kind \in Vendors -> "mkdir" [] OTHER -> "read"

(* An attempt computes the id before anything else. *)
Attempt(t) ==
    /\ At(t, "transform")
    /\ task' = [task EXCEPT ![t].pc = FirstStep(task[t].kind), ![t].id = UniqueId(t), ![t].at = 1,
           ![t].causes = IF UniqueId(t) # task[t].staged THEN @ \cup {"edited"} ELSE @]
    /\ UNCHANGED <<host, fs, saved, faults, touched, project, runtime>>

(* Commands that work in the workspace w make its files new. *)
Write(w, new) == fs' = [fs EXCEPT ![w] = new]

(* A script is one sh that reads its commands: here they install the two     *)
(* staged trees.  The status is that of the last command.  The mkdir lines  *)
(* that create_named_dir adds run inside of build-root.                    *)
Items == <<"dep", "src">>

(* Faulty variant: no command's status counts. *)
RunUnchecked(t, ok) ==
    /\ At(t, "script")
    /\ Outcome(ok)
    /\ Shell(t) \in Task
    /\ LET w == Shell(t)
           from == <<"build-root", Items[task[t].at]>>
           to == <<"install-root", Items[task[t].at]>>
       IN /\ Write(w, IF ok /\ Exists(fs[w], from) THEN CopyDir(fs[w], from, to) ELSE fs[w])
          /\ task' = [task EXCEPT ![t].at = @ + 1, ![t].pc = IF task[t].at = Len(Items) THEN "read" ELSE @]
    /\ UNCHANGED <<host, saved, touched, project, runtime>>

RunScript(t, ok) ==
    /\ At(t, "script")
    /\ Outcome(ok)
    /\ IF Shell(t) \notin Task THEN Goto(t, "prompt") /\ UNCHANGED fs
       ELSE LET w == Shell(t)
                from == <<"build-root", Items[task[t].at]>>
                to == <<"install-root", Items[task[t].at]>>
                made == MakeDir(MakeDir(fs[w], <<"build-root", "build-root">>), <<"build-root", "install-root">>)
                success == ok /\ Exists(made, from)
                last == task[t].at = Len(Items)
            IN /\ Write(w, IF success THEN CopyDir(made, from, to) ELSE made)
               /\ task' = [task EXCEPT
                     ![t].at = @ + 1,
                     ![t].pc = IF ~last THEN @ ELSE IF success THEN "read" ELSE "prompt",
                     ![t].causes = @ \cup (IF success /\ Exists(made, to) THEN {"nested"} ELSE {})
                                     \cup (IF ~success THEN {"skipped"} ELSE {})]
    /\ UNCHANGED <<host, saved, touched, project, runtime>>

(* A command that cannot even be started is an error of the call: up returns *)
(* before there is anything to tear down, a script has run no command.     *)
SpawnFails(t) ==
    /\ \/ At(t, "up") /\ task[t].env = "container" /\ Goto(t, "clean")
       \/ At(t, "script") /\ task[t].at = 1 /\ Goto(t, "prompt")
    /\ Outcome(FALSE)
    /\ UNCHANGED <<host, fs, saved, touched, project, runtime>>

(* The install-root of the vendoring transforms is a Vfs that create_dir     *)
(* returns: its path is the expanded one.                                  *)
InstallRoot(env) == Canonicalize(env, Rel(<<>>), Rel(<<"install-root">>))
InRoot(env, parts) == InCommand(env, Entry(InstallRoot(env), Rel(parts))).parts

MakeRoot(t, ok) ==
    /\ At(t, "mkdir")
    /\ Outcome(ok)
    /\ IF ok /\ Shell(t) \in Task
       THEN /\ Goto(t, task[t].kind)
            /\ Write(Shell(t), fs[Shell(t)] \cup {InRoot(task[t].env, <<>>)}
                   \cup (IF task[t].kind = "cargo" THEN {InRoot(task[t].env, <<".cargo", "vendor">>)}
                         ELSE {InRoot(task[t].env, <<m>>) : m \in Range(Modules)}))
       ELSE Goto(t, "prompt") /\ UNCHANGED fs
    /\ UNCHANGED <<host, saved, touched, project, runtime>>

(* cargo vendor, with the manifest of the directory that the source's id     *)
(* names, computed once more; it empties the vendor directory first.       *)
CargoVendor(t, ok) ==
    /\ At(t, "cargo")
    /\ Outcome(ok)
    /\ LET w == Shell(t)
           dir == InRoot(task[t].env, <<".cargo", "vendor">>)
       IN IF ok /\ w \in Task /\ Exists(fs[w], <<tree, "Cargo.toml">>)
          THEN Goto(t, "config") /\ Write(w, Unpack(RemoveDir(fs[w], dir), dir, {<<tree>>}))
          ELSE Goto(t, "prompt") /\ UNCHANGED fs
    /\ UNCHANGED <<host, saved, touched, project, runtime>>

(* env.write of the config on the host's side, with the expanded path. *)
WriteConfig(t, ok) ==
    /\ At(t, "config")
    /\ Outcome(ok)
    /\ LET path == OnHost(task[t].env, Entry(InstallRoot(task[t].env), Rel(<<".cargo", "config">>))) IN
       IF ~ok THEN Goto(t, "prompt") /\ UNCHANGED <<fs, host, touched>>
       ELSE /\ Goto(t, "read")
            /\ IF path.base = "work"
               THEN Write(t, MakeDir(fs[t], path.parts)) /\ UNCHANGED <<host, touched>>
               ELSE /\ host' = MakeDir(host, path.parts)
                    /\ touched' = touched \cup {<<task[t].kind, task[t].env>>}
                    /\ UNCHANGED fs
    /\ UNCHANGED <<saved, project, runtime>>

(* go mod vendor in the next module.  A stat that fails passes for a module  *)
(* without go.mod.                                                         *)
GoVendor(t, ok) ==
    /\ At(t, "go")
    /\ Outcome(ok)
    /\ IF task[t].at > Len(Modules) THEN ok /\ Goto(t, "read") /\ UNCHANGED fs
       ELSE LET w == Shell(t)
                dir == <<"build-root", Modules[task[t].at]>>
            IN IF w \notin Task \/ ~Exists(fs[w], Append(dir, "go.mod"))
               THEN task' = [task EXCEPT ![t].at = @ + 1] /\ UNCHANGED fs
               ELSE /\ Goto(t, IF ok THEN "copy" ELSE "prompt")
                    /\ Write(w, IF ok THEN Unpack(fs[w], Append(dir, "vendor"), {<<task[t].staged>>}) ELSE fs[w])
    /\ UNCHANGED <<host, saved, touched, project, runtime>>

GoCopy(t, ok) ==
    /\ At(t, "copy")
    /\ Outcome(ok)
    /\ LET w == Shell(t)
           m == Modules[task[t].at]
           to == InRoot(task[t].env, <<m, "vendor">>)
       IN IF ok /\ w \in Task
          THEN /\ Write(w, CopyDir(fs[w], <<"build-root", m, "vendor">>, to))
               /\ task' = [task EXCEPT ![t].pc = "go", ![t].at = @ + 1,
                     ![t].causes = IF Exists(fs[w], to) THEN @ \cup {"nested"} ELSE @]
          ELSE Goto(t, "prompt") /\ UNCHANGED fs
    /\ UNCHANGED <<host, saved, touched, project, runtime>>
-----------------------------------------------------------------------------
(* Faulty variant: every transform reads the expanded path. *)
ResultExpanded(kind, env) ==
    Canonicalize(env, Rel(<<>>), Rel(<<IF kind = "import" THEN "output" ELSE "install-root">>))

ResultPath(kind, env) ==
    IF kind \in Vendors THEN InstallRoot(env)
    ELSE Rel(<<IF kind = "import" THEN "output" ELSE "install-root">>)

(* env.read into a new layer. *)
ReadResult(t) ==
    /\ At(t, "read")
    /\ LET path == OnHost(task[t].env, ResultPath(task[t].kind, task[t].env))
           files == IF path.base = "work" THEN fs[t] ELSE host
       IN /\ touched' = IF path.base = "work" THEN touched ELSE touched \cup {<<task[t].kind, task[t].env>>}
          /\ task' = [task EXCEPT
                ![t].pc = IF Exists(files, path.parts) THEN "save" ELSE "prompt",
                ![t].result = Below(files, path.parts),
                ![t].causes = IF path.base = "work" THEN @ ELSE @ \cup {"outside"}]
    /\ UNCHANGED <<host, fs, saved, faults, project, runtime>>

(* finish_layer and save. *)
Save(t, ok) ==
    /\ At(t, "save")
    /\ Outcome(ok)
    /\ Goto(t, IF ok THEN "down" ELSE "prompt")
    /\ saved' = IF ~ok THEN saved ELSE saved \cup
          {[kind |-> task[t].kind, id |-> task[t].id, tree |-> task[t].result, causes |-> task[t].causes]}
    /\ UNCHANGED <<host, fs, touched, project, runtime>>

(* The prompt of execute: retry, in the same environment, or quit.           *)
Retry(t) ==
    /\ At(t, "prompt")
    /\ task[t].retries < MaxRetries
    /\ task' = [task EXCEPT ![t].pc = "transform", ![t].retries = @ + 1]
    /\ UNCHANGED <<host, fs, saved, faults, touched, project, runtime>>

Quit(t) ==
    /\ At(t, "prompt")
    /\ cancelled' = TRUE
    /\ Goto(t, "down")
    /\ UNCHANGED <<tree, stored, ready, image, host, fs, saved, builds, faults, edits, touched, runtime>>

(* The token was cancelled before up: nothing is torn down. *)
GiveUp(t) ==
    /\ At(t, "up")
    /\ cancelled
    /\ Goto(t, "clean")
    /\ UNCHANGED <<host, fs, saved, faults, touched, project, runtime>>

(* Faulty variant: a cancelled lifecycle returns at once. *)
DownUnlessCancelled(t, ok) ==
    /\ At(t, "down")
    /\ task[t].running
    /\ Outcome(ok)
    /\ task' = [task EXCEPT ![t].pc = "clean", ![t].running = FALSE]
    /\ container' = IF ok /\ ~cancelled THEN [container EXCEPT ![task[t].name] = None] ELSE container
    /\ stuck' = IF ok THEN stuck ELSE stuck \cup {task[t].name}
    /\ UNCHANGED <<host, fs, saved, touched, project>>

(* down: nothing for a local environment, kill and rm for a container, whose *)
(* exit status is not looked at.                                           *)
DownContainer(t, ok) ==
    /\ At(t, "down")
    /\ task[t].running
    /\ Outcome(ok)
    /\ task' = [task EXCEPT ![t].pc = "clean", ![t].running = FALSE]
    /\ container' = IF ok THEN [container EXCEPT ![task[t].name] = None] ELSE container
    /\ stuck' = IF ok THEN stuck ELSE stuck \cup {task[t].name}
    /\ UNCHANGED <<host, fs, saved, touched, project>>

DownLocal(t) ==
    /\ At(t, "down")
    /\ ~task[t].running
    /\ Goto(t, "clean")
    /\ UNCHANGED <<host, fs, saved, faults, touched, project, runtime>>

(* clean, which removes a local workspace; then the TempDir is dropped, which *)
(* removes either, under a container that may still be there.               *)
Clean(t) ==
    /\ At(t, "clean")
    /\ fs' = [fs EXCEPT ![t] = {}]
    /\ task' = [task EXCEPT ![t] = Idle]
    /\ container' = [n \in Name |-> IF container[n] = t THEN "stale" ELSE container[n]]
    /\ UNCHANGED <<host, saved, faults, stuck, touched, project>>

Edit(c) ==
    /\ edits < MaxEdits
    /\ c # tree
    /\ edits' = edits + 1
    /\ tree' = c
    /\ UNCHANGED <<stored, ready, image, host, fs, task, saved, cancelled, builds, faults, touched, runtime>>
-----------------------------------------------------------------------------
Next ==
    \/ \E ok \in BOOLEAN : SetupFarm(ok)
    \/ \E t \in Task, kind \in Kinds, env \in {"local", "container"}, n \in Name : Start(t, kind, env, n)
    \/ \E t \in Task, ok \in BOOLEAN :
          \/ UpContainer(t, ok) \/ RunScript(t, ok) \/ MakeRoot(t, ok) \/ CargoVendor(t, ok) \/ WriteConfig(t, ok)
          \/ GoVendor(t, ok) \/ GoCopy(t, ok) \/ Save(t, ok) \/ DownContainer(t, ok)
    \/ \E t \in Task : \/ UpLocal(t) \/ Stage(t) \/ Attempt(t) \/ ReadResult(t) \/ Retry(t) \/ Quit(t)
                       \/ GiveUp(t) \/ DownLocal(t) \/ Clean(t) \/ SpawnFails(t)
    \/ \E c \in Content : Edit(c)

Spec == Init /\ [][Next]_vars
-----------------------------------------------------------------------------
(* Properties                                                               *)

TypeOK ==
    /\ tree \in Content /\ stored \subseteq Content /\ image \in BOOLEAN
    /\ \A n \in Name : container[n] \in Task \cup {"stale", None}
    /\ \A t \in Task : /\ DOMAIN task[t] = DOMAIN Idle
                       /\ task[t].kind \in Kinds \cup {None}
                       /\ task[t].staged \in Content \cup {Dep, None}
                       /\ task[t].running => task[t].name \in Name
                       /\ At(t, "idle") => task[t] = Idle /\ fs[t] = {}
    /\ stuck \subseteq Name
    /\ builds \in 0 .. MaxBuilds /\ faults \in 0 .. MaxFaults /\ edits \in 0 .. MaxEdits

(* What a clean build of a transform makes of the inputs that id names. *)
Expected(kind, id) ==
    {<<>>} \cup
    (CASE kind = "script" -> {<<"dep">>, <<"dep", Dep>>, <<"src">>, <<"src", id>>}
      [] kind = "cargo" -> {<<".cargo", "vendor">>, <<".cargo", "vendor", id>>, <<".cargo", "config">>}
      [] kind = "go" -> UNION {{<<m>>, <<m, "vendor">>, <<m, "vendor", id>>} : m \in Range(Modules)}
      [] OTHER -> {<<id>>})

(* What is saved under an id is what a clean build of the named inputs makes, *)
(* whatever was retried in the used workspace and whatever other tasks did.  *)
(* Exactly these causes can break it: the tree was edited after stage, a    *)
(* command of a script failed before the last one, a retry copied over what *)
(* an attempt before had copied, two containers got one name, or the result *)
(* was not read from the workspace.                                        *)
ArtifactExact ==
    \A a \in saved : a.causes = {} => a.tree = Expected(a.kind, a.id)

(* However a lifecycle ends, by success, failure, quit or cancellation, its  *)
(* container is gone unless kill or rm failed; a container that is there    *)
(* belongs to a task that will take it down.                               *)
ContainersReleased ==
    \A n \in Name : container[n] # None =>
        \/ n \in stuck
        \/ container[n] \in Task /\ task[container[n]].running /\ task[container[n]].name = n

(* Only the vendoring transforms in a container reach files of the host that *)
(* are not in their workspace: their Vfs carries the container's path to    *)
(* calls that run on the host.                                             *)
InsideWorkspace == touched \subseteq Vendors \X {"container"}
-----------------------------------------------------------------------------
(* cargo_vendor.rs on the last steps of transform: "Writes a                 *)
(* `.cargo/config.toml` that redirects `crates-io` to the vendored          *)
(* directory" and "Tars `install-root/`": what it saves has the vendored    *)
(* directory in it.                                                        *)
VendorArchived == \A a \in saved : a.kind = "cargo" => Exists(a.tree, <<".cargo", "vendor">>)
=============================================================================
