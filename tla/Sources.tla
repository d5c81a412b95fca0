------------------------------- MODULE Sources -------------------------------
(***************************************************************************)
(* The five kinds of source: the id each computes and the bytes its fetch  *)
(* archives.  Contents are sequences of bytes, and a digest is the content *)
(* itself, as a hash without collisions would be.                          *)
(***************************************************************************)
EXTENDS Sequences

CONSTANTS
    Source,
    Kind,       \* Source -> "git", "remote", "image", "local" or "vendor"
    Origin,     \* Source -> the repository, URL, image or path it names
    Ref,        \* Source -> its ref: a content, or a branch for git
    Label,      \* Source -> what Name::parse leaves of the name in its id
    Vendored    \* what cargo vendor and go mod vendor add to a tree

Nothing == <<>>     \* an empty directory

Pinned(s) == Kind[s] \in {"remote", "image"}

(* get_unique_id.  Git takes the name of its branch for a digest, remote and *)
(* image the digest of their ref; local and vendor both hash the tree that  *)
(* is at their path now.                                                   *)
GitId(s) == <<Label[s], "git", Ref[s]>>
RemoteId(s) == <<Label[s], "remote", Ref[s]>>
ImageId(s) == <<Label[s], "image", Ref[s]>>
LocalId(s, world) == <<Label[s], "merkle", world[Origin[s]]>>
VendorId(s, world) == <<Label[s], "merkle", world[Origin[s]]>>

UniqueId(s, world) ==
    CASE Kind[s] = "git" -> GitId(s)
      [] Kind[s] = "remote" -> RemoteId(s)
      [] Kind[s] = "image" -> ImageId(s)
      [] Kind[s] = "local" -> LocalId(s, world)
      [] Kind[s] = "vendor" -> VendorId(s, world)

(* What fetch archives of the content c.  It may run a command that succeeds *)
(* or not: the exit status of git clone, cargo vendor and go mod vendor is  *)
(* not looked at.                                                          *)
RunsCommand(s) == Kind[s] \in {"git", "vendor"}
GitArchive(c, success) == IF success THEN c ELSE Nothing
VendorArchive(c, success) == IF success THEN c \o Vendored ELSE c
LocalArchive(c) == c

(* The digest checks of the remote file and of the image. *)
RemoteAccepts(s, bytes) == bytes = Ref[s]
ImageAccepts(s, bytes) == bytes = Ref[s]

Archive(s, c, success) ==
    CASE Kind[s] = "git" -> GitArchive(c, success)
      [] Kind[s] = "vendor" -> VendorArchive(c, success)
      [] Kind[s] = "local" -> LocalArchive(c)
      [] OTHER -> c
=============================================================================
