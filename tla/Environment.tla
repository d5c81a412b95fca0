----------------------------- MODULE Environment -----------------------------
(***************************************************************************)
(* Paths and files as environments see them.  A path is relative, or below *)
(* the workspace ("work", a directory of the host), or below /root         *)
(* ("home").  A container has the workspace mounted at its /root; on the   *)
(* host /root is another directory.  A file system is a set of paths of    *)
(* files and directories.                                                  *)
(***************************************************************************)
EXTENDS Integers, SequencesExt

Rel(parts) == [base |-> "rel", parts |-> parts]
Work == [base |-> "work", parts |-> <<>>]
Home == [base |-> "home", parts |-> <<>>]

(* Path::join: an absolute path replaces what it is joined to. *)
JoinPath(a, b) == IF b.base = "rel" THEN [a EXCEPT !.parts = @ \o b.parts] ELSE b

(* Environment::expand.  LocalEnv refuses an absolute path elsewhere, which  *)
(* none of its callers has.                                                *)
LocalExpand(p) == JoinPath(Work, p)
ContainerExpand(p) == JoinPath(Home, p)
Expand(env, p) == IF env = "local" THEN LocalExpand(p) ELSE ContainerExpand(p)

(* Vfs::canonicalize, and Vfs::entry, which does not expand. *)
Canonicalize(env, cwd, p) == IF p.base # "rel" THEN p ELSE Expand(env, JoinPath(cwd, p))
Entry(cwd, p) == JoinPath(cwd, p)

(* What read, write, unpack and create_dir reach, which run on the host. *)
LocalOnHost(p) == JoinPath(Work, p)
ContainerOnHost(p) == JoinPath(Work, p)
OnHost(env, p) == IF env = "local" THEN LocalOnHost(p) ELSE ContainerOnHost(p)

(* What a command reaches with p: in a container /root is the workspace. *)
LocalCommand(p) == JoinPath(Work, p)
ContainerCommand(p) ==
    LET q == JoinPath(Home, p) IN IF q.base = "home" THEN [q EXCEPT !.base = "work"] ELSE q
InCommand(env, p) == IF env = "local" THEN LocalCommand(p) ELSE ContainerCommand(p)
-----------------------------------------------------------------------------
Below(files, dir) == {SubSeq(f, Len(dir) + 1, Len(f)) : f \in {g \in files : IsPrefix(dir, g)}}
Exists(files, path) == Below(files, path) # {}

(* mkdir -p, an unpacked archive, rm -r. *)
MakeDir(files, dir) == files \cup {dir}
Unpack(files, dir, tree) == files \cup {dir} \cup {dir \o f : f \in tree}
RemoveDir(files, dir) == {f \in files : ~IsPrefix(dir, f)}

(* cp -r: into the target under the old name if the target exists. *)
CopyDir(files, from, to) ==
    Unpack(files, IF Exists(files, to) THEN Append(to, Last(from)) ELSE to, Below(files, from))
=============================================================================
