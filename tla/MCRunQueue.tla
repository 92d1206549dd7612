----------------------------- MODULE MCRunQueue -----------------------------
(* Graphs and settings for TLC. *)
EXTENDS RunQueue, TLC

AllOf(S, v) == [x \in S |-> v]

Hashes2 == {1, 2}
NoSceneDeps == AllOf(Setscene, {})
NoLimits == [n \in {TaskName[t] : t \in Tasks} |-> 0]
SameAsTask == [t \in Tasks |-> t]
NoStamps == {{}}

\* One recipe built for three multiconfigs, with one hash for all packages, and
\* what needs them: one package waits for another.  All of it needs s; the third
\* multiconfig has nothing to compile.
TwinTasks == {"s", "c", "p", "cm", "pm", "pt", "img"}
TwinDepends == "s" :> {} @@ "c" :> {"s"} @@ "p" :> {"c"} @@ "cm" :> {"s"} @@ "pm" :> {"cm"}
                  @@ "pt" :> {"s"} @@ "img" :> {"p", "pm", "pt"}
TwinSetscene == {"p", "pm", "pt"}
TwinHash == AllOf(TwinTasks, 1)
TwinName == "s" :> "fetch" @@ "c" :> "compile" @@ "cm" :> "compile" @@ "p" :> "package"
                @@ "pm" :> "package" @@ "pt" :> "package" @@ "img" :> "image"
TwinFile == "s" :> 4 @@ "c" :> 1 @@ "p" :> 1 @@ "cm" :> 2 @@ "pm" :> 2 @@ "pt" :> 5
                @@ "img" :> 3
TwinPn == "s" :> 4 @@ "c" :> 1 @@ "p" :> 1 @@ "cm" :> 1 @@ "pm" :> 1 @@ "pt" :> 1
                @@ "img" :> 3
\* The first two compile and package in one work directory.
TwinBase == [t \in TwinTasks |-> CASE t = "cm" -> "c" [] t = "pm" -> "p" [] OTHER -> t]

\* Two recipes, the second packaged on top of the first; unpacking either package
\* from the cache needs a tool, which itself may come from the cache.
ToolTasks == {"tool", "c1", "p1", "c2", "p2", "img"}
ToolDepends == "tool" :> {} @@ "c1" :> {"tool"} @@ "p1" :> {"c1"} @@ "c2" :> {"tool"}
                  @@ "p2" :> {"c2", "p1"} @@ "img" :> {"p2"}
ToolSetscene == {"tool", "p1", "p2"}
ToolSceneDeps == "tool" :> {} @@ "p1" :> {"tool"} @@ "p2" :> {"tool"}
ToolHash == AllOf(ToolTasks, 1)
ToolName == "tool" :> "sysroot" @@ "c1" :> "compile" @@ "p1" :> "package"
                @@ "c2" :> "compile" @@ "p2" :> "package" @@ "img" :> "image"
ToolFile == "tool" :> 1 @@ "c1" :> 2 @@ "p1" :> 2 @@ "c2" :> 3 @@ "p2" :> 3 @@ "img" :> 4
ToolOld == {{}, {<<"p2", "setscene", 1>>}, {<<"tool", "setscene", 1>>}}
ForcedOld == {{}, {<<"img", "task", 1>>}}

\* Package t covers c, x and y, of which c and x are asked for as well; r needs t.
LateTasks == {"c", "x", "y", "t", "r"}
LateDepends == "c" :> {} @@ "x" :> {} @@ "y" :> {} @@ "t" :> {"c", "x", "y"} @@ "r" :> {"t"}
LateSetscene == {"t", "r"}
LateHash == AllOf(LateTasks, 1)
LateName == SameAsTask
LateFile == "c" :> 1 @@ "x" :> 1 @@ "y" :> 1 @@ "t" :> 1 @@ "r" :> 2
=============================================================================
