SPECIFICATION SmallSpec
CONSTANTS
    None = None  Blank = Blank  Raw = Raw  Plain = Plain
    t1 = t1  tag = tag  member = member  guest = guest  weekdays = weekdays
    Texts <- OneText
    Tags <- OneTag
    Participants <- OneMember
    Strangers <- OneStranger
    Natives <- BothNatives
    Intervals <- OneAndTwo
    Zone <- SixBehind
    Instants <- Times
    RuleSets <- Recurrences
    Documents <- Descriptions
    MaxEdits = 1
PROPERTIES MalformedKept
