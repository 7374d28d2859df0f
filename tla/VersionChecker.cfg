CONSTANTS
    Numbers <- MCNumbers
    MaxMatches = 2
SPECIFICATION Spec
INVARIANT VersionsAreReleaseVersions
