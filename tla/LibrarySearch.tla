---------------------------- MODULE LibrarySearch ----------------------------
(***************************************************************************)
(* How nwep/_sys.py finds the native library when the package is imported: *)
(* the platform's linker by bare name, the prefix pkg-config knows, then a *)
(* list of directories.  What is installed where is the initial state; the *)
(* search reads it and ends with a library or an OSError.                  *)
(***************************************************************************)

EXTENDS Naturals, Sequences, FiniteSetsExt

CONSTANTS
  Full, Core,   \* the bundles: libnwep, and libnwep_core without the trust layer
  None

VARIABLES
  env,      \* the process: its system, and the variables it has set
  good,     \* the libraries, each << place, bundle >>, that dlopen loads
  broken,   \* those whose dlopen raises: of another architecture, say
  at,       \* linker, pkgconfig or directories; found, missing or unloadable
  loaded    \* the library found, or None

vars == << env, good, broken, at, loaded >>

-----------------------------------------------------------------------------
(* Places.                                                                 *)

Linker == << "linker", "" >>   \* what dlopen finds by bare name

\* a prefix no directory list knows of, with the .pc file of an installation
Prefix == << "prefix", "lib" >>

Subdirectories == << "", "lib", "bin" >>

\* NWEP_LIB_DIR, the package, its _libs, and the zig-out of the repository and
\* of the working directory
Bases ==
  (IF env.override THEN << "override" >> ELSE << >>)
    \o << "package", "_libs", "repository", "cwd" >>

\* the installer's locations, of the user first
InstallerDirs ==
  CASE env.system = "win32" ->
         (IF env.appdata THEN << << "user", "lib" >>, << "user", "bin" >> >> ELSE << >>)
           \o << << "system", "lib" >>, << "system", "bin" >> >>
    [] env.system = "linux" -> << << "user", "lib" >>, << "system", "lib" >> >>
    [] OTHER -> << >>

\* Mutant: the bases are searched, and not what is under them.
BasesOnly == [ i \in DOMAIN Bases |-> << Bases[i], "" >> ] \o InstallerDirs

CandidateDirs ==
  [ i \in 1 .. 3 * Len(Bases) |->
      << Bases[(i + 2) \div 3], Subdirectories[((i - 1) % 3) + 1] >> ]
    \o InstallerDirs

\* the bundles in the order they are tried
Names == IF env.core THEN << Core, Full >> ELSE << Full, Core >>

\* Mutant: the linker is asked although NWEP_LIB_DIR is set.
AsksAlways == TRUE

AsksLinker == ~env.override

-----------------------------------------------------------------------------

Systems == { "linux", "win32", "other" }

Environments ==
  { e \in [ system : Systems, override : BOOLEAN, core : BOOLEAN,
            appdata : BOOLEAN, pkgconfig : { None, Prefix, << "user", "lib" >> } ] :
      /\ e.appdata => e.system = "win32"
      /\ e.pkgconfig # None => e.system = "linux" }

Places ==
  { Linker, Prefix }
    \cup { Bases[i] : i \in DOMAIN Bases } \X { "", "lib", "bin" }
    \cup { InstallerDirs[i] : i \in DOMAIN InstallerDirs }

Libraries == Places \X { Full, Core }

\* Up to two libraries are on the machine, wherever they are.
Init ==
  /\ env \in Environments
  /\ \E k, l \in Libraries :
       \E files \in { {}, { k, l } } :
         broken \in SUBSET files /\ good = files \ broken
  /\ at = "linker"
  /\ loaded = None

Holds(place, b) == << place, b >> \in good \cup broken

Holding(place) == \E b \in { Full, Core } : Holds(place, b)

\* The first of names that exists in the place is opened, and is what the search
\* ends with, loaded or not.
Open(place) ==
  LET first == IF Holds(place, Names[1]) THEN Names[1] ELSE Names[2]
  IN IF << place, first >> \in good
     THEN at' = "found" /\ loaded' = << place, first >>
     ELSE at' = "unloadable" /\ UNCHANGED loaded

\* A bare name that does not load is passed over.
AskLinker ==
  /\ at = "linker"
  /\ LET found == { i \in { 1, 2 } : << Linker, Names[i] >> \in good }
     IN IF AsksLinker /\ found # {}
        THEN at' = "found" /\ loaded' = << Linker, Names[Min(found)] >>
        ELSE at' = "pkgconfig" /\ UNCHANGED loaded
  /\ UNCHANGED << env, good, broken >>

\* on Linux, where pkg-config runs, knows of nwep, and its directory has one
AskPkgConfig ==
  /\ at = "pkgconfig"
  /\ IF env.pkgconfig # None /\ Holding(env.pkgconfig)
     THEN Open(env.pkgconfig)
     ELSE at' = "directories" /\ UNCHANGED loaded
  /\ UNCHANGED << env, good, broken >>

SearchDirectories ==
  /\ at = "directories"
  /\ LET found == { i \in DOMAIN CandidateDirs : Holding(CandidateDirs[i]) }
     IN IF found = {} THEN at' = "missing" /\ UNCHANGED loaded
                      ELSE Open(CandidateDirs[Min(found)])
  /\ UNCHANGED << env, good, broken >>

Next == AskLinker \/ AskPkgConfig \/ SearchDirectories

Spec == Init /\ [][Next]_vars

-----------------------------------------------------------------------------

Over == at \in { "found", "missing", "unloadable" }

OfOverride(place) == place[1] = "override"

\* "honors the NWEP_LIB_DIR override first" (_sys.py:494): a library in the
\* directory the user named is the one that is opened, wherever else there are
\* any, but for a prefix that pkg-config knows, which is asked before it.
OverrideIsFirst ==
  Over /\ (\E l \in good \cup broken : OfOverride(l[1])) =>
    /\ at # "missing"
    /\ at = "found" => OfOverride(loaded[1]) \/ loaded[1] = env.pkgconfig

\* "raises OSError when the library can't be found" (_sys.py:589), and only then:
\* a library that loads is found wherever a user, a wheel, a build or the
\* installer puts it, unless another one that does not load is in its way.
FindsWhatIsThere ==
  /\ at = "missing" =>
       \A l \in good : \/ l[1] = Linker /\ env.override
                       \/ l[1] = Prefix /\ env.pkgconfig # Prefix
  /\ at = "unloadable" => \E l \in broken : l[1] # Linker

=============================================================================
