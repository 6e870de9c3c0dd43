------------------------------- MODULE Robots -------------------------------
(***************************************************************************)
(* What a robots.txt means (server/robots.js): parseRobots reads it line   *)
(* by line, compileRules judges a path by the rules that apply to us.      *)
(*                                                                         *)
(* A line is what its key and value come to: whose User-agent it names, a  *)
(* rule with the paths its pattern matches and the pattern's length, a     *)
(* delay, or something else.  Blank lines and comments are left out, they  *)
(* change nothing.                                                         *)
(***************************************************************************)
EXTENDS Integers, Sequences, FiniteSets, SequencesExt, FiniteSetsExt

NoDelay == -1

Agent(name) == [key |-> "agent", agent |-> name]
Rule(allow, pattern) == [key |-> "rule", allow |-> allow, pattern |-> pattern]
Delay(n) == [key |-> "delay", delay |-> n]
Other == [key |-> "other"]      \* Sitemap, Host, anything with a colon

IsLine(line) ==
    /\ line.key \in {"agent", "rule", "delay", "other"}
    /\ line.key = "agent" => line = Agent(line.agent)
    /\ line.key = "rule" => line.allow \in BOOLEAN /\ line.pattern.length \in Nat
    /\ line.key = "delay" => line.delay \in Nat

------------------------------------------------------------------------------
(* parseRobots *)

\* A User-agent line after anything else opens a group; the next ones join it.
WithAgent(s, name) ==
    IF s.lastWasAgent
    THEN [s EXCEPT !.groups[Len(s.groups)].agents = @ \cup {name}]
    ELSE [groups |-> Append(s.groups, [agents |-> {name}, rules |-> <<>>, delay |-> NoDelay]),
          lastWasAgent |-> TRUE]

\* Any other line belongs to the newest group; before the first group it is dropped.
WithLine(s, line) ==
    LET last == Len(s.groups)
        open == [s EXCEPT !.lastWasAgent = FALSE]
    IN  IF line.key = "agent" THEN WithAgent(s, line.agent)
        ELSE IF last = 0 THEN open
        ELSE IF line.key = "rule"
             THEN [open EXCEPT !.groups[last].rules = Append(@, [allow |-> line.allow, pattern |-> line.pattern])]
        ELSE IF line.key = "delay" THEN [open EXCEPT !.groups[last].delay = line.delay]
        ELSE open

Groups(text) ==
    LET after[k \in 0..Len(text)] == IF k = 0 THEN [groups |-> <<>>, lastWasAgent |-> FALSE]
                                     ELSE WithLine(after[k - 1], text[k])
    IN  after[Len(text)].groups

\* The groups that name one of our tokens apply, else those of "*".
ChosenFirst(groups) ==      \* mutant: only the first of them
    LET named == {k \in DOMAIN groups : "ours" \in groups[k].agents}
        any == {k \in DOMAIN groups : "*" \in groups[k].agents}
        all == IF named # {} THEN named ELSE any
    IN  {k \in all : \A l \in all : k <= l}
Chosen(groups) ==
    LET named == {k \in DOMAIN groups : "ours" \in groups[k].agents}
    IN  IF named # {} THEN named ELSE {k \in DOMAIN groups : "*" \in groups[k].agents}

RulesOf(groups) ==
    LET chosen == Chosen(groups)
        upTo[k \in 0..Len(groups)] == IF k = 0 THEN <<>>
                                      ELSE IF k \in chosen THEN upTo[k - 1] \o groups[k].rules
                                      ELSE upTo[k - 1]
    IN  upTo[Len(groups)]

DelayFor(groups) == Max({groups[k].delay : k \in Chosen(groups)} \cup {NoDelay})

Parse(text) == [rules |-> RulesOf(Groups(text)), delay |-> DelayFor(Groups(text))]

------------------------------------------------------------------------------
(* compileRules *)

NoRule == [allow |-> TRUE, pattern |-> [length |-> -1, paths |-> {}]]

\* The longest matching rule wins, and Allow wins a tie.
Better(rule, best) ==
    \/ rule.pattern.length > best.pattern.length
    \/ rule.pattern.length = best.pattern.length /\ rule.allow /\ ~best.allow

Allows(rules, path) ==
    LET best[k \in 0..Len(rules)] ==
            IF k = 0 THEN NoRule
            ELSE IF path \in rules[k].pattern.paths /\ Better(rules[k], best[k - 1]) THEN rules[k]
            ELSE best[k - 1]
    IN  best[Len(rules)].allow

------------------------------------------------------------------------------
(* The same, said without reading in order (RFC 9309, sections 2.2.1, 2.2.2 and 2.2.4) *)

\* The agents the rule at k is for: those of the closest User-agent lines above, back to
\* the rule before them.  No other record interferes.
Addressed(text, k) ==
    {text[j].agent : j \in {j \in 1..(k - 1) :
        /\ text[j].key = "agent"
        /\ \E b \in j..(k - 1) : /\ text[b].key = "agent"
                                 /\ \A l \in j..b : text[l].key # "rule"
                                 /\ \A l \in (b + 1)..(k - 1) : text[l].key # "agent"}}

Applying(text) ==
    LET us == IF \E k \in DOMAIN text : text[k] = Agent("ours") THEN "ours" ELSE "*"
    IN  {k \in DOMAIN text : text[k].key = "rule" /\ us \in Addressed(text, k)}

MayFetch(text, path) ==
    LET matching == {k \in Applying(text) : path \in text[k].pattern.paths}
        longest == {k \in matching : \A l \in matching : text[l].pattern.length <= text[k].pattern.length}
    IN  matching = {} \/ \E k \in longest : text[k].allow

\* A line that is neither, a Sitemap or a Crawl-delay, between two User-agent lines that
\* no rule parts: to robots.js:46 the second opens a group of its own.
Interrupted(text) ==
    \E j, b \in DOMAIN text :
        /\ text[j].key = "agent" /\ text[b].key = "agent"
        /\ \A l \in j..b : text[l].key # "rule"
        /\ \E l \in j..b : text[l].key # "agent"

MeansTheSame(text, paths) == \A path \in paths : Allows(Parse(text).rules, path) <=> MayFetch(text, path)

\* The two agree about every file of so many lines that is not interrupted.
ReadAsMeant(lines, longest, paths) ==
    \A text \in SeqOf(lines, longest) : Interrupted(text) \/ MeansTheSame(text, paths)

=============================================================================
