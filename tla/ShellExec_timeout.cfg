SPECIFICATION ShellFairSpec
PROPERTY EnforcesTimeouts
