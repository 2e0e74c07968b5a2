---------------------------- MODULE ToolContexts ----------------------------
(***************************************************************************)
(* The tools of one turn: what may run (permission_gate, the lists of      *)
(* loaded skills), and what they do to the files of the workspace (read,   *)
(* write, edit).                                                           *)
(*                                                                         *)
(* What a turn has read and which skills it has loaded is in its           *)
(* ToolContext.  A call that must be approved pauses the turn; the answer  *)
(* runs the call in a new context and goes on with another new one.        *)
(***************************************************************************)
EXTENDS Integers, Sequences

CONSTANTS Workspace,       \* file names
          Rulebooks,       \* set of sequences of [tool, file, action]; "*" is any
          Skills,          \* set of [bans, only]: disallowed-tools, allowed-tools
          MaxVersion,      \* bound: contents of a file
          MaxPauses        \* bound: approvals of the turn

VARIABLES rulebook, skipping,   \* the rules of the turn, dangerously_skip_permissions
          onDisk,            \* version of each file, 0 if there is none
          context,         \* read_files, skill_disallowed_tools, skill_allowed_tools, skip
          stage, toolCall, \* where the turn stands, the call it is at
          pauses,
          seen,            \* ghost: version of each file this turn has last seen or made
          loaded,          \* ghost: skills with lists that this turn has loaded
          overran,         \* ghost: names of what was run against the rules
          outsideEdits          \* ghost: changes made by others between a look and its write

toolVars == <<rulebook, skipping, onDisk, context, stage, toolCall, pauses,
              seen, loaded, overran, outsideEdits>>

ToolIds == {"read", "write", "edit", "skill"}
NoCall == [tool |-> "none", file |-> "none", skill |-> [bans |-> {}, only |-> {}]]
ToolCalls == {NoCall} \cup
  [tool : {"read", "write", "edit"}, file : Workspace, skill : {NoCall.skill}] \cup
  [tool : {"skill"}, file : {"none"}, skill : Skills]

ASSUME ToolAssumption ==
  /\ Rulebooks \subseteq Seq([tool : ToolIds \cup {"*"}, file : Workspace \cup {"*"},
                             action : {"allow", "ask", "deny"}])
  /\ Skills \subseteq [bans : SUBSET ToolIds, only : SUBSET ToolIds]
  /\ MaxVersion \in Nat \ {0}

FreshContext(skip) == [read |-> {}, bans |-> {}, only |-> {}, skip |-> skip]

ToolsInit ==
  /\ rulebook \in Rulebooks /\ skipping \in BOOLEAN
  /\ onDisk \in [Workspace -> {0, 1}]
  /\ context = FreshContext(skipping)
  /\ stage = "loop" /\ toolCall = NoCall /\ pauses = 0
  /\ seen = [f \in Workspace |-> 0] /\ loaded = {} /\ overran = {} /\ outsideEdits = 0

(* The last rule that matches decides; without one the user is asked.      *)
RuleApplies(rule, c) == rule.tool \in {"*", c.tool} /\ rule.file \in {"*", c.file}
Decide(rules, c) ==
  LET last == {i \in 1..Len(rules) : /\ RuleApplies(rules[i], c)
                                    /\ \A j \in 1..Len(rules) :
                                         RuleApplies(rules[j], c) => j <= i} IN
  IF last = {} THEN "ask" ELSE rules[CHOOSE i \in last : TRUE].action

(* The lists of a loaded skill come before the rules; skill itself is free.*)
Restricted(ctx, c) ==
  c.tool # "skill" /\ (c.tool \in ctx.bans \/ (ctx.only # {} /\ c.tool \notin ctx.only))

Gate(ctx, c) ==
  IF Restricted(ctx, c) THEN "deny"
  ELSE IF Decide(rulebook, c) = "ask" /\ ctx.skip THEN "allow" ELSE Decide(rulebook, c)

(* What the rules, read from the end, say of a call, and the skills.       *)
Forbidden(c) ==
  \E i \in 1..Len(rulebook) : /\ RuleApplies(rulebook[i], c) /\ rulebook[i].action = "deny"
                              /\ \A j \in i+1..Len(rulebook) : ~RuleApplies(rulebook[j], c)
BannedBySkill(c) == c.tool # "skill" /\ \E s \in loaded : c.tool \in s.bans

-----------------------------------------------------------------------------
(* A call that is denied gives an error and changes nothing.               *)
CallsTool(c) ==
  /\ stage = "loop" /\ c # NoCall
  /\ toolCall' = c
  /\ \/ Gate(context, c) = "allow" /\ stage' = "run" /\ UNCHANGED <<pauses, context>>
     \/ /\ Gate(context, c) = "ask" /\ pauses < MaxPauses
        /\ stage' = "waiting" /\ pauses' = pauses + 1
        /\ context' = FreshContext(skipping)
  /\ overran' = overran \cup (IF Gate(context, c) = "allow" /\ Forbidden(c) THEN {"rule"} ELSE {})
                        \cup (IF Gate(context, c) = "allow" /\ BannedBySkill(c) THEN {"skill"} ELSE {})
  /\ UNCHANGED <<rulebook, skipping, onDisk, seen, loaded, outsideEdits>>

(* respond_approval: the call runs with skip, whatever skills were loaded. *)
AnswersApproval(allow) ==
  /\ stage = "waiting"
  /\ IF allow /\ Gate(FreshContext(TRUE), toolCall) = "allow"
     THEN /\ stage' = "run" /\ context' = FreshContext(TRUE) /\ UNCHANGED toolCall
          /\ overran' = overran \cup (IF Forbidden(toolCall) THEN {"rule"} ELSE {})
     ELSE /\ stage' = IF allow THEN "loop" ELSE "over"
          /\ toolCall' = NoCall /\ UNCHANGED <<context, overran>>
  /\ UNCHANGED <<rulebook, skipping, onDisk, pauses, seen, loaded, outsideEdits>>

(* After an approved call the loop goes on in a context of its own.        *)
Finishes(ctx) ==
  /\ stage' = "loop" /\ toolCall' = NoCall
  /\ context' = IF ctx.skip # skipping THEN FreshContext(skipping) ELSE ctx

Fails == Finishes(context) /\ UNCHANGED <<onDisk, seen, outsideEdits>>

Sees(f, version) ==
  /\ Finishes([context EXCEPT !.read = @ \cup {f}])
  /\ seen' = [seen EXCEPT ![f] = version]

ReadsFile ==
  /\ stage = "run" /\ toolCall.tool = "read"
  /\ LET f == toolCall.file IN
     IF onDisk[f] = 0 THEN Fails ELSE Sees(f, onDisk[f]) /\ UNCHANGED <<onDisk, outsideEdits>>
  /\ UNCHANGED <<rulebook, skipping, pauses, loaded, overran>>

(* Mutant: a file that is there may be written by whoever knows its name.  *)
UnreadNever(f) == FALSE
Unread(f) == onDisk[f] # 0 /\ f \notin context.read

(* write and edit look first.  An edit reads the text it changes; one     *)
(* that names no old text goes on as a write does, and makes the file.     *)
AsWrite(c) == [c EXCEPT !.tool = "write"]

LooksAtFile ==
  /\ stage = "run" /\ toolCall.tool \in {"write", "edit"}
  /\ LET f == toolCall.file IN
     \/ (Unread(f) \/ (toolCall.tool = "edit" /\ onDisk[f] = 0)) /\ Fails
     \/ /\ ~Unread(f)
        /\ stage' = "write" /\ outsideEdits' = 0
        /\ \/ toolCall' = AsWrite(toolCall) /\ UNCHANGED seen
           \/ /\ toolCall.tool = "edit" /\ onDisk[f] # 0
              /\ seen' = [seen EXCEPT ![f] = onDisk[f]] /\ UNCHANGED toolCall
        /\ UNCHANGED <<onDisk, context>>
  /\ UNCHANGED <<rulebook, skipping, pauses, loaded, overran>>

(* The text an edit looks for is not there, or there more than once.       *)
EditFinds == stage = "write" /\ toolCall.tool = "edit"
CannotReplace == EditFinds /\ Fails /\ UNCHANGED <<rulebook, skipping, pauses, loaded, overran>>

WritesFile ==
  /\ stage = "write"
  /\ LET f == toolCall.file IN
     /\ onDisk[f] < MaxVersion
     /\ onDisk' = [onDisk EXCEPT ![f] = @ + 1]
     /\ overran' = overran \cup
          (IF onDisk[f] # 0 /\ seen[f] = 0 /\ outsideEdits = 0 THEN {"unseen"} ELSE {})
     /\ Sees(f, onDisk[f] + 1)
  /\ UNCHANGED <<rulebook, skipping, pauses, loaded, outsideEdits>>

(* A skill without a list leaves the list of an earlier one.               *)
LoadsSkill ==
  /\ stage = "run" /\ toolCall.tool = "skill"
  /\ LET s == toolCall.skill IN
     /\ Finishes([read |-> context.read, skip |-> context.skip,
                  bans |-> IF s.bans = {} THEN context.bans ELSE s.bans,
                  only |-> IF s.only = {} THEN context.only ELSE s.only])
     /\ loaded' = loaded \cup {s}
  /\ UNCHANGED <<rulebook, skipping, onDisk, pauses, seen, overran, outsideEdits>>

(* A skill that is missing, disabled or out of its paths changes nothing.  *)
RefusesSkill ==
  /\ stage = "run" /\ toolCall.tool = "skill" /\ Fails
  /\ UNCHANGED <<rulebook, skipping, pauses, loaded, overran>>

(* An editor, a command or another session changes the workspace.          *)
OthersWrite(f) ==
  /\ onDisk[f] < MaxVersion
  /\ onDisk' = [onDisk EXCEPT ![f] = @ + 1]
  /\ outsideEdits' = IF stage = "write" THEN 1 ELSE outsideEdits
  /\ UNCHANGED <<rulebook, skipping, context, stage, toolCall, pauses, seen, loaded, overran>>

ToolsNext ==
  \/ \E c \in ToolCalls : CallsTool(c)
  \/ \E allow \in BOOLEAN : AnswersApproval(allow)
  \/ ReadsFile \/ LooksAtFile \/ CannotReplace \/ WritesFile \/ LoadsSkill \/ RefusesSkill
  \/ \E f \in Workspace : OthersWrite(f)

ToolsSpec == ToolsInit /\ [][ToolsNext]_toolVars

-----------------------------------------------------------------------------
ToolsTypeOK ==
  /\ onDisk \in [Workspace -> 0..MaxVersion] /\ seen \in [Workspace -> 0..MaxVersion]
  /\ context.read \subseteq Workspace /\ context.bans \cup context.only \subseteq ToolIds
  /\ stage \in {"loop", "run", "write", "waiting", "over"} /\ toolCall \in ToolCalls

(* However reads, writes, skills, approvals and the edits of others follow *)
(* each other: no call runs against the rule that is last in force for it; *)
(* none runs against the one skill a turn has loaded, until an approval    *)
(* takes the turn's context away; and no file that was there is            *)
(* overwritten without the turn having seen or made it.                    *)
ToolsStayInBounds ==
  /\ "rule" \notin overran
  /\ (pauses = 0 /\ \E s \in Skills : loaded \subseteq {s}) => "skill" \notin overran
  /\ "unseen" \notin overran
=============================================================================
