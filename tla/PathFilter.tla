----------------------------- MODULE PathFilter -----------------------------
(***************************************************************************)
(* filter_files of src/src/src/http/utils.rs, which cuts a listing down to *)
(* the directory that was asked for.  A path is the sequence of its        *)
(* components; the leading and trailing slashes that filter_files adds     *)
(* make no difference to components, and the components of a file name     *)
(* are taken from the root of the job.                                     *)
(***************************************************************************)
EXTENDS Integers, Sequences

ParentDir == ".."
CurDir    == "."

\* Path::parent of a path that is not the root
Parent(p) == SubSeq(p, 1, Len(p) - 1)

\* One component of weak_canonical: `..` takes back the last component; past
\* the start it stays in a relative path and is dropped from an absolute one.
Resolve(absolute, result, component) ==
    LET pastStart == \A i \in 1..Len(result) : result[i] = ParentDir IN
    CASE component = CurDir -> result
      [] component = ParentDir /\ ~pastStart -> Parent(result)
      [] component = ParentDir /\ pastStart ->
            IF absolute THEN <<>> ELSE Append(result, ParentDir)
      [] OTHER -> Append(result, component)

\* Mutant of WeakCanonical: the path is taken as it is written.
NotCanonical(absolute, path) == path

\* weak_canonical: the components, from left to right
WeakCanonical(absolute, path) ==
    LET after[n \in 0..Len(path)] ==
          IF n = 0 THEN <<>> ELSE Resolve(absolute, after[n - 1], path[n])
    IN  after[Len(path)]

\* is_within: equal to dir or below it, component by component
IsWithin(path, dir) ==
    Len(dir) <= Len(path) /\ \A i \in 1..Len(dir) : path[i] = dir[i]

\* filter_files: the directory itself, and what is in it or below it
FilterFiles(files, absolute, path, recursive) ==
    LET dir == WeakCanonical(absolute, path) IN
    {f \in files :
        \/ f = dir
        \/ f # <<>> /\ IF recursive THEN IsWithin(Parent(f), dir)
                                    ELSE Parent(f) = dir}

=============================================================================
