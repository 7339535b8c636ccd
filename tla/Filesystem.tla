----------------------------- MODULE Filesystem -----------------------------
(***************************************************************************)
(* CFilesystem: the directories of the program and how they are made.      *)
(* create_directory makes one level only and throws if it cannot.          *)
(***************************************************************************)
EXTENDS Naturals, Sequences

VARIABLES
    dirs,      \* the directories that exist
    files,     \* those whose name is taken by something that is no directory
    bare,      \* of these, the roots whose path does not end with a separator
    parents,   \* whether the directory above DataPath and ResourcesPath exists
    unmade     \* the directories Initialize has still to make sure of

disk == <<dirs, files, bare, parents>>

Root   == {"data", "resources"}
Parent == [binary_shaders |-> "data", logs |-> "data", saves |-> "data",
           archives |-> "resources", configs |-> "resources", models |-> "resources",
           shaders |-> "resources", sounds |-> "resources", textures |-> "resources"]
Dir    == Root \union DOMAIN Parent

(* Mutated form: the directory of the log before the one it is in. *)
CreateOrder_LogsFirst ==
    <<"logs", "data", "binary_shaders", "saves",
      "resources", "archives", "configs", "models", "shaders", "sounds", "textures">>

CreateOrder ==
    <<"data", "binary_shaders", "logs", "saves",
      "resources", "archives", "configs", "models", "shaders", "sounds", "textures">>

HasParent(d) == IF d \in Root THEN parents[d] ELSE Parent[d] \in dirs
Within(r)    == {r} \union {d \in DOMAIN Parent : Parent[d] = r}

(* The keys datapath and respath may name any place, or no place if their value is missing:   *)
(* then, as in a place that does not exist, no directory can be made.  Their value is taken   *)
(* as it is; the paths the program forms itself end with a separator.                         *)
FilesystemInit ==
    /\ files \in {{}, {"data"}, {"resources"}, {"logs"}, {"shaders"}}
    /\ bare \in SUBSET (files \intersect Root)
    /\ dirs \in {{}, Dir \ UNION {Within(f) : f \in files}}
    /\ parents \in [Root -> BOOLEAN]
    /\ \A d \in dirs \union files : HasParent(d)
    /\ unmade = << >>

(* exists() finds a file that is no directory only under a path without the separator. *)
Exists(d) == d \in dirs \union bare

CreateDirIfNotExist(d) ==
    \/ Exists(d) /\ UNCHANGED dirs
    \/ ~Exists(d) /\ d \notin files /\ HasParent(d) /\ dirs' = dirs \union {d}

CannotCreate(d) == ~Exists(d) /\ (d \in files \/ ~HasParent(d))

(* The user removes a directory and what is in it. *)
Remove(r) == dirs' = dirs \ Within(r) /\ files' = files \ Within(r)
=============================================================================
