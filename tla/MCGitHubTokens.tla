--------------------------- MODULE MCGitHubTokens ---------------------------
EXTENDS GitHubTokens, TLC

CONSTANTS j1, j2, o1, o2

=============================================================================
