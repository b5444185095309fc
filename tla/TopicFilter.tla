---------------------------- MODULE TopicFilter ----------------------------
(***************************************************************************)
(* Does the topic of a message match the filter of a subscription?         *)
(* _aws_iot_mqtt_internal_is_topic_matched decides it character by         *)
(* character; MQTT defines it level by level.                              *)
(***************************************************************************)
EXTENDS Integers, Sequences, SequencesExt

\* Mutant: a wildcard may stand for a separator.
MismatchButSeparator(f, c) == f \notin { "+", "#" } /\ f # c

\* The loop ends at the character f of a filter and c of a name.
Mismatch(f, c) == \/ c = "/" /\ f # "/"
                  \/ f \notin { "+", "#" } /\ f # c

\* The position in name after what the character f matches from position j on:
\* the rest of the level, the rest of the name or one character.
Matched(f, name, j) ==
    CASE f = "+" -> Min({ k \in (j + 1)..Len(name) : name[k] = "/" } \cup { Len(name) + 1 })
      [] f = "#" -> Len(name) + 1
      [] OTHER -> j + 1

IsTopicMatched(filter, name) ==
    LET from[i \in 1..(Len(filter) + 1), j \in 1..(Len(name) + 1)] ==
            IF i > Len(filter) \/ j > Len(name)
            THEN i > Len(filter) /\ j > Len(name)
            ELSE /\ ~Mismatch(filter[i], name[j])
                 /\ from[i + 1, Matched(filter[i], name, j)]
    IN  from[1, 1]

-----------------------------------------------------------------------------
(* Topics by their levels.  The code assumes "topic filter and name is in   *)
(* correct format": + and # are levels of their own and # is the last one.  *)

Words == { << >>, << "a" >>, << "a", "b" >> }
Plus == << "+" >>
Hash == << "#" >>

Names == UNION { [1..n -> Words] : n \in 1..3 } \ { << << >> >> }

Filters ==
    LET fronts == UNION { [1..n -> Words \cup { Plus }] : n \in 0..3 }
    IN  (fronts \ { << >>, << << >> >> })
            \cup { Append(front, Hash) : front \in { f \in fronts : Len(f) < 3 } }

\* The levels with their separators.
Text(levels) == Tail(FlattenSeq([i \in DOMAIN levels |-> << "/" >> \o levels[i]]))

LevelsMatch(filter, name, n) ==
    \A i \in 1..n : filter[i] \in { Plus, name[i] }

\* Section 4.7 of MQTT 3.1.1.
Covers(filter, name) ==
    IF Last(filter) = Hash
    THEN Len(name) >= Len(filter) - 1 /\ LevelsMatch(filter, name, Len(filter) - 1)
    ELSE Len(name) = Len(filter) /\ LevelsMatch(filter, name, Len(filter))

\* Of these matches the code leaves out those in which a wildcard would stand
\* for nothing: an empty level, or the missing level of "a/#" and "a".
WildcardsFilled(filter, name) ==
    \A i \in DOMAIN filter :
        filter[i] \in { Plus, Hash } => i \in DOMAIN name /\ name[i] # << >>

MatchAgrees ==
    \A filter \in Filters, name \in Names :
        IsTopicMatched(Text(filter), Text(name))
            <=> Covers(filter, name) /\ WildcardsFilled(filter, name)

=============================================================================
