---------------------------- MODULE MCNamespace -----------------------------
(***************************************************************************)
(* Namespace with names a and b, and absolute and relative paths of one or *)
(* two elements.                                                           *)
(***************************************************************************)
EXTENDS Namespace

a == <<"a">>
b == <<"b">>
ab == <<"a", "b">>
C(op, root, path, new) == [op |-> op, root |-> root, path |-> path, new |-> new]

MCName == {"a", "b"}

Abs(op, path) == C(op, TRUE, path, <<>>)
Rel(op, path) == C(op, FALSE, path, <<>>)

\* A directory comes and goes while files in it do.
MCTree == {Abs("create", a), Abs("mkdir", a), Abs("create", ab), Abs("unlink", a), Abs("unlink", ab),
           Abs("open", ab), Abs("close", <<>>)}

\* Two names for one file, and names that are taken or gone.
MCLinks == {Abs("mknod", a), Abs("mkdir", b), Abs("unlink", a), Abs("unlink", b),
            C("link", TRUE, a, b), C("link", TRUE, b, <<"a", "a">>)}

\* Current directories that come and go, and exit.
MCCwd == {Abs("mkdir", a), Abs("mkdir", ab), Abs("unlink", a), Abs("unlink", ab), Abs("chdir", a), Abs("chdir", <<>>), Abs("exit", <<>>)}

\* Files made in the current directory, which may have been removed.
MCMade == {Abs("mkdir", a), Abs("unlink", a), Abs("chdir", a), Rel("mknod", b)}

\* ".." of the current directory, which may have been removed, and its parent too.
MCParent == {Abs("mkdir", a), Abs("mkdir", ab), Abs("unlink", a), Abs("unlink", ab), Abs("chdir", ab),
             Rel("unlink", <<"..", "b">>)}

MCWorkloads == {MCTree, MCLinks, MCCwd, MCMade, MCParent}
MCOneTree == {MCTree}
=============================================================================
