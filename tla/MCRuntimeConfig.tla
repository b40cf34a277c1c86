--------------------------- MODULE MCRuntimeConfig ---------------------------
(***************************************************************************)
(* RuntimeConfig for TLC: a tree of directories with one repository inside *)
(* another, a tree below a drive, and the texts of the arguments.          *)
(***************************************************************************)
EXTENDS RuntimeConfig

NumberOf == [n \in {"8080", "4", "90", "0", "70000", "-5"} |->
  CASE n = "8080" -> 8080 [] n = "4" -> 4 [] n = "90" -> 90 [] n = "0" -> 0
    [] n = "70000" -> 70000 [] n = "-5" -> -5]

DashedTexts == {"-h", "--help", "-x", "-5"} \cup DOMAIN Options

AboveOf == [d \in {"/", "/a", "/a/b", "/a/b/c", "C:/", "C:/d", "C:/d/e"} |->
  CASE d = "/a/b/c" -> "/a/b" [] d = "/a/b" -> "/a" [] d = "/a" -> "/" [] d = "/" -> "/"
    [] d = "C:/d/e" -> "C:/d" [] OTHER -> "C:/"]

Nothing == [s \in Settings |-> ""]

Call(env, args) == [env |-> env, args |-> args]

\* Every command line of up to three texts, with and without an environment.
ManyArguments ==
  { Call(env, args) :
      env  \in {Nothing, [Nothing EXCEPT !["port"] = "90", !["schema_dir"] = "/a"]},
      args \in UNION {[1 .. n -> {"--port", "--workers", "--schema-dir", "--repo-root", "-h", "-x", "90",
                                  "-5", "/a", ""}] : n \in 0 .. 3} }

\* Every environment, with a command line that overrides part of it.
ManyEnvironments ==
  { Call([port |-> p, worker_count |-> w, repo_root |-> r, schema_dir |-> sd, data_dir |-> dd], args) :
      p \in {"", "90", "70000", "x"}, w \in {"", "0", "90"}, r \in {"", "/a", "/none"},
      sd \in {"", "/a", "long"}, dd \in {"", "/a"},
      args \in {<<>>, <<"4", "90">>, <<"--port", "4", "4">>, <<"--worker-count", "4", "--data-dir", "/a/b">>} }

Place(cwd, program, roots, furnished) ==
  [cwd |-> cwd, program |-> program, roots |-> roots, furnished |-> furnished]

Places ==
  { Place("/a/b/c", "/a", {"/a/b", "/"}, {"/a/b", "/"}), Place("/a", "", {"/"}, {"/", "/a"}),
    Place("C:/d/e", "/a/b", {"/a", "/", "C:/"}, {"/a"}), Place("C:/d", "C:/", {"C:/"}, {"C:/"}),
    Place("C:/d/e", "C:/d", {}, {}), Place("C:/d/e", "/a/b", {}, {}) }

Both(call, place) ==
  [env |-> call.env, args |-> call.args, cwd |-> place.cwd, program |-> place.program,
   roots |-> place.roots, furnished |-> place.furnished]

CallInputs == { Both(c, p) : c \in ManyArguments \cup ManyEnvironments, p \in Places }

\* The working directory has no root above it, the program has one.
AwayInputs ==
  { Both(Call(Nothing, args), Place("/a", "/a/b/c", {"/a/b"}, {"/a/b"})) :
      args \in {<<>>, <<"--schema-dir", "/a", "--data-dir", "/a">>} }
=============================================================================
