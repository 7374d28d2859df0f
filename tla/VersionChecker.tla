--------------------------- MODULE VersionChecker ----------------------------
(***************************************************************************)
(* The loop of YuPostVersionChecker::getVersions                           *)
(* (src/src/qt/yupostversionchecker.cpp) that turns the matches of         *)
(* paternVersion in the releases page into version strings.                *)
(*                                                                         *)
(* Strings are sequences of one-character strings, since the property is   *)
(* about how QString::mid cuts them.  The page is abstracted to the        *)
(* sequence of its matches: every match is "yupost-", a version of one to *)
(* three dot-separated numbers, and "-".  The Version class is not under   *)
(* src/: two version strings are taken to be the same version exactly     *)
(* when they are equal, which is all the loop's contains() test needs     *)
(* here.                                                                  *)
(***************************************************************************)
EXTENDS Naturals, Sequences, SequencesExt

CONSTANTS
    Numbers,      \* the numbers a version component may be, as digit strings
    MaxMatches    \* bound on the matches in the page

VARIABLES
    matches,      \* the matches regExIt has not returned yet
    versions      \* the QList<Version> built so far

vars == <<matches, versions>>

Prefix == <<"y", "u", "p", "o", "s", "t", "-">>

(* The version part of a match: ([0-9]+\.)?([0-9]+\.)?([0-9]+).           *)
VersionStrings ==
    {n3 : n3 \in Numbers}
    \cup {n1 \o <<".">> \o n3 : n1, n3 \in Numbers}
    \cup {n1 \o <<".">> \o n2 \o <<".">> \o n3 : n1, n2, n3 \in Numbers}

(* The text paternVersion captures around a version string.               *)
Captured(v) == Prefix \o v \o <<"-">>

Matches == {Captured(v) : v \in VersionStrings}

(* QString::mid(position, n): the n characters from position (0-based);   *)
(* a negative n, or one that runs past the end, takes the rest; a         *)
(* position past the end gives the empty string.                          *)
Mid(s, position, n) ==
    IF position >= Len(s) THEN <<>>
    ELSE SubSeq(s, position + 1,
                IF n < 0 \/ position + n > Len(s) THEN Len(s) ELSE position + n)

(* The string that line 45 cuts out of a match.                           *)
ExtractVersion(captured) == Mid(captured, 5, Len(captured) - 6)

Init ==
    /\ matches \in UNION {[1..k -> Matches] : k \in 0..MaxMatches}
    /\ versions = <<>>

(* One iteration: take the next match, cut the version string out of it,   *)
(* and append it unless the list already contains it.                    *)
NextMatch ==
    /\ matches # <<>>
    /\ LET v == ExtractVersion(Head(matches))
       IN  versions' = IF Contains(versions, v) THEN versions ELSE Append(versions, v)
    /\ matches' = Tail(matches)

(* The loop ends when the iterator has no next match.                     *)
Done == matches = <<>> /\ UNCHANGED vars

Next == NextMatch \/ Done

Spec == Init /\ [][Next]_vars

-----------------------------------------------------------------------------
(* Every entry getVersions returns is the version that the page names:    *)
(* the text the pattern's groups matched, in the format XX.XX.XX that the *)
(* comment at line 45 promises, and not a piece of the "yupost-" prefix.  *)
VersionsAreReleaseVersions == \A i \in 1..Len(versions) : versions[i] \in VersionStrings

=============================================================================
