CONSTANTS
    Task = {task1, task2, task3}
    Range = 4
    Value = {0, 3}
    Addendum = {1, 3}
SPECIFICATION FairSpec
INVARIANT TypeOK
PROPERTIES ImplementsRegister StarvesOnlyIfOvertaken
