CONSTANTS
    old = old
    new = new
    Mailboxes <- MCMailboxes
    Legacy <- MCLegacy
    Tabs = {t1, t2}
    MaxTokens = 2
SPECIFICATION Spec
SYMMETRY MCSymmetry
INVARIANTS OneAccountPerMailbox AnsweredForCause OneIdentity
