---------------------------- MODULE MCPermission ----------------------------
(* Model-checking instance of Permission.                                   *)
EXTENDS Permission

\* An action and a pattern of actions.  The empty resource, and a pattern that is one blank, which free_text_ok
\* accepts: it matches none of the targets, and trimmed it is the empty one.
MCActionGlobs == [a \in {"fs.read", "fs.*"} |->
              IF a = "fs.*" THEN {"fs.read", "fs.write"} ELSE {"fs.read"}]
MCPatterns == {"", " "}
MCTrim == [r \in MCPatterns |-> ""]
MCGlobs == [r \in MCPatterns |-> {}]
=============================================================================
